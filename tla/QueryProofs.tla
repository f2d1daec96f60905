----------------------------- MODULE QueryProofs -----------------------------
(***************************************************************************)
(* Proofs about the query service.                                         *)
(*                                                                         *)
(* PATHS.  Spec => []QueryTypeOK and Spec => []KeptPathsTrue: the paths    *)
(* that the walk has kept for sorts and filters share arrays with the      *)
(* path it is on, and are not written over.  The walk comes back to a path *)
(* and appends another field to it, in its array if there is room.         *)
(* Every array has the size that append gives a path that grows field by   *)
(* field: less than twice the length of any path that lies in it, and 1,   *)
(* 2, 4 or 8, or at least 16 (Fits).  A path of 1, 2, 3 or 5 fields is     *)
(* therefore the shortest in its array, or in one that is full, and what   *)
(* a shorter one appends never reaches it: it still says what it said      *)
(* (KeptOK).  Other lengths can be written over: run shared_paths.         *)
(*                                                                         *)
(* The callers append to the list of sorts, which all of them share; they  *)
(* write behind its end, into an array that is not a path's (Apart).       *)
(*                                                                         *)
(* WALK.  Spec => []WalkFindsAll.  A frame of the walk has visited the     *)
(* first fields of its message; what the frames have visited, laid end to  *)
(* end, is what ChainsFrom begins with (Trail), and what has been kept is  *)
(* what of it is wanted (Walking).  When the stack is a single frame that  *)
(* has no field left, the trail is all of ChainsFrom.                      *)
(*                                                                         *)
(* ORDER.  Spec => []SortsEndInTieBreaker, if no default sort has a path   *)
(* that the walk may write over (ShortSorts).  A request holds the default *)
(* sorts and, behind them, the tie breakers (Tied), in an array that the   *)
(* others may share: they write the same tie breakers to the same places.  *)
(*                                                                         *)
(* SEARCHES.  Spec => []SearchesUnambiguous.  The chains to search fields  *)
(* are those under each field of a message (SoughtInto); two of them are   *)
(* exclusive if their first fields are branches of a oneof, or if what is  *)
(* left after the same first field is.  So what is compared field by       *)
(* field, message by message, decides for all of them (SearchesJudged).    *)
(*                                                                         *)
(* REQUESTS.  Spec => []ValidIsBuilt.  A path of JSON names, element by    *)
(* element, goes down the chain that has those names (PathDown), so that   *)
(* a search that is valid is of a field with a column (SearchHasColumn).   *)
(* Validation looks at the first filter only, which is all of them if it   *)
(* is on a field (ValidFilterBuilt).                                       *)
(*                                                                         *)
(* GETS.  Spec => []GetShowsEntity, by what Get joins: the keys of a       *)
(* request are columns with a value, and those of the primary key tell     *)
(* two rows, and their events, apart (TablesAssumption).                   *)
(*                                                                         *)
(* LISTS.  Spec => []RowsMeant.  Name by name, a path that is not refused  *)
(* goes down one of the chains that have the names it was asked by (Way),  *)
(* so that names that have one meaning lead to it (PathMeans); its query   *)
(* selects the values of that chain (SelectsValues).  Filters then hold    *)
(* for what they mean by recursion over the filter (FiltersHold), searches *)
(* by the names of their chain (SearchMet), default filters by the paths   *)
(* kept for them (DefaultsMet).  An answer was given for a valid request   *)
(* that was built, by a service that was ready (CallerAnswers).            *)
(***************************************************************************)
EXTENDS Query, SequenceTheorems, FiniteSetTheorems, WellFoundedInduction, TLAPS

-----------------------------------------------------------------------------
(***************************************************************************)
(* Slices and the heap.  Cells are of any type.                            *)
(***************************************************************************)
Slices == [array : Nat, len : Nat]

IsHeap(heap) == \E S : heap \in Seq(Seq(S))

Sound(heap, slice) ==
  slice \in Slices /\ slice.array \in 0 .. Len(heap) /\ slice.len <= Capacity(heap, slice)

(* Arrays stay where they are, as long as they are; others are added. *)
Grows(heap, more) ==
  Len(heap) <= Len(more) /\ \A a \in 1 .. Len(heap) : Len(more[a]) = Len(heap[a])

(* The arrays have the same cells, except those that are appended. *)
OnlyAppends(heap, slice, n, more) ==
  \A a \in 1 .. Len(heap) : \A i \in 1 .. Len(heap[a]) :
    a # slice.array \/ i <= slice.len \/ i > slice.len + n => more[a][i] = heap[a][i]

(* The result of append: cells are there, after those of the slice. *)
Appended(heap, slice, cells, r) ==
  /\ IsHeap(r.heap) /\ Grows(heap, r.heap) /\ OnlyAppends(heap, slice, Len(cells), r.heap)
  /\ Sound(r.heap, r.slice) /\ r.slice.len = slice.len + Len(cells)
  /\ \A i \in 1 .. slice.len : r.heap[r.slice.array][i] = heap[slice.array][i]
  /\ \A i \in 1 .. Len(cells) : r.heap[r.slice.array][slice.len + i] = cells[i]

(* A new array, as long as append makes it, beside the ones there are. *)
InNewArray(heap, slice, r) ==
  /\ r.slice.array = Len(heap) + 1
  /\ Len(r.heap[r.slice.array]) = GrownTo(r.slice.len, Capacity(heap, slice))
  /\ \A a \in 1 .. Len(heap) : r.heap[a] = heap[a]

LEMMA CapacityNat ==
  ASSUME NEW heap, IsHeap(heap), NEW slice, Sound(heap, slice)
  PROVE  /\ Len(heap) \in Nat /\ slice.array \in Nat /\ slice.len \in Nat
         /\ Capacity(heap, slice) \in Nat
         /\ slice.array # 0 => /\ slice.array \in 1 .. Len(heap)
                               /\ Capacity(heap, slice) = Len(heap[slice.array])
         /\ slice.array = 0 => slice.len = 0 /\ Capacity(heap, slice) = 0
<1>1. PICK S : heap \in Seq(Seq(S))
  BY DEF IsHeap
<1>2. \A a \in 1 .. Len(heap) : heap[a] \in Seq(S) /\ Len(heap[a]) \in Nat
  BY <1>1
<1> QED BY <1>1, <1>2 DEF Sound, Slices, Capacity

LEMMA AppendNothing ==
  ASSUME NEW heap, IsHeap(heap), NEW slice, Sound(heap, slice)
  PROVE  LET r == AppendTo(heap, slice, <<>>)
         IN  r = [heap |-> heap, slice |-> slice]
  BY DEF AppendTo

LEMMA AppendInPlace ==
  ASSUME NEW heap, IsHeap(heap), NEW slice, Sound(heap, slice),
         NEW T, NEW cells \in Seq(T), cells # <<>>,
         slice.len + Len(cells) <= Capacity(heap, slice)
  PROVE  LET r == AppendTo(heap, slice, cells)
         IN  Appended(heap, slice, cells, r) /\ r.slice.array = slice.array
<1> DEFINE len == slice.len + Len(cells)
           written == [i \in DOMAIN heap[slice.array] |->
                         IF i \in slice.len + 1 .. len THEN cells[i - slice.len]
                         ELSE heap[slice.array][i]]
           more == [heap EXCEPT ![slice.array] = written]
           r == AppendTo(heap, slice, cells)
<1>1. Len(cells) \in Nat /\ Len(cells) >= 1
  OBVIOUS
<1>2. slice.array \in 1 .. Len(heap) /\ Capacity(heap, slice) = Len(heap[slice.array])
      /\ slice.len \in Nat /\ Len(heap) \in Nat
  BY <1>1, CapacityNat
<1>3. r = [heap |-> more, slice |-> [slice EXCEPT !.len = len]]
  BY DEF AppendTo
<1>4. PICK S : heap \in Seq(Seq(S))
  BY DEF IsHeap
<1>5. PICK a \in 1 .. Len(heap) : a = slice.array
  BY <1>2
<1>6. PICK old \in Seq(S) : old = heap[a]
  BY <1>4, <1>5
<1>7. PICK size \in Nat : size = Len(old) /\ DOMAIN old = 1 .. size
  BY <1>6
<1>8. PICK n \in Nat : n = slice.len
  BY <1>2
<1>9. PICK k \in Nat : k = Len(cells) /\ k >= 1 /\ DOMAIN cells = 1 .. k
  BY <1>1
<1>10. len = n + k /\ n + k <= size
  BY <1>2, <1>5, <1>6, <1>7, <1>8, <1>9
<1>11. written = [i \in 1 .. size |-> IF i \in n + 1 .. n + k THEN cells[i - n] ELSE old[i]]
  BY <1>5, <1>6, <1>7, <1>8, <1>10
<1> HIDE DEF len, written
<1> DEFINE U == S \cup T
<1>12. written \in Seq(U) /\ Len(written) = size
  <2>1. ASSUME NEW i \in 1 .. size
        PROVE  (IF i \in n + 1 .. n + k THEN cells[i - n] ELSE old[i]) \in U
    <3>1. CASE i \in n + 1 .. n + k
      <4>1. i - n \in 1 .. k
        BY <3>1
      <4> QED BY <3>1, <4>1, <1>9
    <3>2. CASE i \notin n + 1 .. n + k
      BY <3>2, <1>6, <1>7
    <3> QED BY <3>1, <3>2
  <2> QED BY <2>1, <1>11
<1>13. \A i \in 1 .. size : i <= n \/ i > n + k => written[i] = old[i]
  BY <1>11
<1>14. \A i \in 1 .. k : written[n + i] = cells[i]
  <2> SUFFICES ASSUME NEW i \in 1 .. k PROVE written[n + i] = cells[i]
    OBVIOUS
  <2>1. n + i \in 1 .. size /\ n + i \in n + 1 .. n + k /\ n + i - n = i
    BY <1>10
  <2> QED BY <2>1, <1>11
<1>15. more \in Seq(Seq(U)) /\ Len(more) = Len(heap) /\ more[a] = written
       /\ \A b \in 1 .. Len(heap) : b # a => more[b] = heap[b]
  <2>1. heap \in Seq(Seq(U))
    BY <1>4
  <2> QED BY <2>1, <1>5, <1>12
<1>16. r.heap = more /\ r.slice = [array |-> a, len |-> n + k]
  <2>1. slice = [array |-> a, len |-> n]
    BY <1>5, <1>8 DEF Sound, Slices
  <2>2. [slice EXCEPT !.len = len] = [array |-> a, len |-> n + k]
    BY <2>1, <1>10
  <2> QED BY <1>3, <2>2
<1> HIDE DEF more, r, U
<1>17. IsHeap(more)
  BY <1>15 DEF IsHeap
<1>18. Grows(heap, more)
  <2>1. \A b \in 1 .. Len(heap) : Len(more[b]) = Len(heap[b])
    <3>1. Len(more[a]) = Len(heap[a])
      BY <1>6, <1>7, <1>12, <1>15
    <3> QED BY <3>1, <1>15
  <2> QED BY <2>1, <1>2, <1>15 DEF Grows
<1>19. OnlyAppends(heap, slice, k, more)
  BY <1>5, <1>6, <1>7, <1>8, <1>13, <1>15 DEF OnlyAppends
<1>20. Sound(more, r.slice)
  BY <1>2, <1>5, <1>10, <1>12, <1>15, <1>16 DEF Sound, Slices, Capacity
<1>21. \A i \in 1 .. n : more[a][i] = heap[a][i]
  BY <1>6, <1>7, <1>10, <1>13, <1>15
<1>22. Appended(heap, slice, cells, r) /\ r.slice.array = slice.array
  <2>1. OnlyAppends(heap, slice, Len(cells), more) /\ r.slice.len = slice.len + Len(cells)
    BY <1>8, <1>9, <1>16, <1>19
  <2>2. \A i \in 1 .. slice.len : more[a][i] = heap[slice.array][i]
    BY <1>5, <1>8, <1>21
  <2>3. \A i \in 1 .. Len(cells) : more[a][slice.len + i] = cells[i]
    BY <1>8, <1>9, <1>14, <1>15
  <2>4. r.heap = more /\ r.slice.array = a
    BY <1>16
  <2> QED BY <2>1, <2>2, <2>3, <2>4, <1>5, <1>17, <1>18, <1>20 DEF Appended
<1> QED BY <1>22 DEF r

LEMMA CellsOf ==
  ASSUME NEW heap, IsHeap(heap), NEW slice, Sound(heap, slice)
  PROVE  \E S : /\ heap \in Seq(Seq(S)) /\ Cells(heap, slice) \in Seq(S)
                /\ Len(Cells(heap, slice)) = slice.len
                /\ \A i \in 1 .. slice.len : Cells(heap, slice)[i] = heap[slice.array][i]
<1>1. PICK S : heap \in Seq(Seq(S))
  BY DEF IsHeap
<1>2. CASE slice.array = 0
  BY <1>1, <1>2, CapacityNat DEF Cells
<1>3. CASE slice.array # 0
  <2>1. PICK a \in 1 .. Len(heap) : a = slice.array
    BY <1>3, CapacityNat
  <2>2. PICK old \in Seq(S) : old = heap[a]
    BY <1>1, <2>1
  <2>3. PICK n \in Nat : n = slice.len /\ n <= Len(old)
    BY <2>1, <2>2, <1>3, CapacityNat DEF Sound
  <2>4. SubSeq(old, 1, n) \in Seq(S) /\ Len(SubSeq(old, 1, n)) = n
    BY <2>2, <2>3, SubSeqProperties
  <2>5. \A i \in 1 .. n : SubSeq(old, 1, n)[i] = old[i]
    BY <2>2, <2>3
  <2>6. Cells(heap, slice) = SubSeq(old, 1, n)
    BY <1>3, <2>1, <2>2, <2>3 DEF Cells
  <2> QED BY <1>1, <2>1, <2>2, <2>3, <2>4, <2>5, <2>6
<1> QED BY <1>2, <1>3

LEMMA GrownEnough ==
  ASSUME NEW len \in Nat, NEW capacity \in Nat, len > capacity
  PROVE  GrownTo(len, capacity) \in Nat /\ GrownTo(len, capacity) >= len
  BY DEF GrownTo

LEMMA AppendFresh ==
  ASSUME NEW heap, IsHeap(heap), NEW slice, Sound(heap, slice),
         NEW T, NEW cells \in Seq(T), cells # <<>>,
         slice.len + Len(cells) > Capacity(heap, slice)
  PROVE  LET r == AppendTo(heap, slice, cells)
         IN  Appended(heap, slice, cells, r) /\ InNewArray(heap, slice, r)
<1> DEFINE size == GrownTo(slice.len + Len(cells), Capacity(heap, slice))
           both == Cells(heap, slice) \o cells
           fresh == [i \in 1 .. size |->
                       IF i <= slice.len + Len(cells) THEN both[i] ELSE EmptyCell]
           r == AppendTo(heap, slice, cells)
<1>1. PICK k \in Nat : k = Len(cells) /\ DOMAIN cells = 1 .. k
  OBVIOUS
<1>2. PICK n \in Nat : n = slice.len
  BY CapacityNat
<1>3. PICK h \in Nat : h = Len(heap)
  BY CapacityNat
<1>4. PICK S : /\ heap \in Seq(Seq(S)) /\ Cells(heap, slice) \in Seq(S)
               /\ Len(Cells(heap, slice)) = slice.len
               /\ \A i \in 1 .. slice.len : Cells(heap, slice)[i] = heap[slice.array][i]
  BY CellsOf
<1> DEFINE U == (S \cup T) \cup {EmptyCell}
<1>5. both \in Seq(U) /\ Len(both) = n + k
  <2>1. Cells(heap, slice) \in Seq(U) /\ cells \in Seq(U)
    BY <1>4
  <2> HIDE DEF U
  <2>2. PICK left \in Seq(U) : left = Cells(heap, slice) /\ Len(left) = n
    BY <2>1, <1>2, <1>4
  <2>3. left \o cells \in Seq(U) /\ Len(left \o cells) = n + k
    BY <2>1, <2>2, <1>1, ConcatProperties
  <2> QED BY <2>2, <2>3
<1>6. /\ \A i \in 1 .. n : both[i] = heap[slice.array][i]
      /\ \A i \in 1 .. k : both[n + i] = cells[i]
  <2>1. Cells(heap, slice) \in Seq(U) /\ cells \in Seq(U)
    BY <1>4
  <2> HIDE DEF U
  <2>2. PICK left \in Seq(U) : /\ left = Cells(heap, slice) /\ Len(left) = n
                               /\ \A i \in 1 .. n : left[i] = heap[slice.array][i]
    BY <2>1, <1>2, <1>4
  <2>3. PICK right \in Seq(U) : right = cells /\ Len(right) = k
    BY <2>1, <1>1
  <2>4. /\ \A i \in 1 .. n : (left \o right)[i] = left[i]
        /\ \A i \in 1 .. k : (left \o right)[n + i] = right[i]
    BY <2>2, <2>3, ConcatProperties
  <2> QED BY <2>2, <2>3, <2>4
<1>7. size \in Nat /\ size >= n + k
  BY <1>1, <1>2, GrownEnough, CapacityNat
<1>8. r = [heap |-> Append(heap, fresh), slice |-> [array |-> h + 1, len |-> n + k]]
  <2>1. ~(slice.len + Len(cells) <= Capacity(heap, slice))
    BY <1>1, <1>2, CapacityNat
  <2>2. r = [heap |-> Append(heap, fresh),
             slice |-> [array |-> Len(heap) + 1, len |-> slice.len + Len(cells)]]
    BY <2>1 DEF AppendTo
  <2> QED BY <2>2, <1>1, <1>2, <1>3
<1>9. fresh = [i \in 1 .. size |-> IF i <= n + k THEN both[i] ELSE EmptyCell]
  BY <1>1, <1>2
<1> HIDE DEF both, size, fresh
<1>10. fresh \in Seq(U) /\ Len(fresh) = size
  BY <1>5, <1>7, <1>9
<1>11. \A i \in 1 .. n + k : fresh[i] = both[i]
  BY <1>7, <1>9
<1> HIDE DEF r
<1>12. PICK more : more = Append(heap, fresh)
  OBVIOUS
<1>13. more \in Seq(Seq(U)) /\ Len(more) = h + 1 /\ more[h + 1] = fresh
       /\ \A a \in 1 .. h : more[a] = heap[a]
  <2>1. heap \in Seq(Seq(U))
    BY <1>4
  <2> QED BY <2>1, <1>3, <1>10, <1>12
<1>14. r.heap = more /\ r.slice = [array |-> h + 1, len |-> n + k]
  BY <1>8, <1>12
<1>15. IsHeap(more) /\ Grows(heap, more) /\ OnlyAppends(heap, slice, Len(cells), more)
  <2>1. IsHeap(more)
    BY <1>13 DEF IsHeap
  <2>2. Grows(heap, more)
    BY <1>3, <1>13 DEF Grows
  <2>3. OnlyAppends(heap, slice, Len(cells), more)
    BY <1>3, <1>13 DEF OnlyAppends
  <2> QED BY <2>1, <2>2, <2>3
<1>16. Sound(more, r.slice)
  BY <1>7, <1>10, <1>13, <1>14 DEF Sound, Slices, Capacity
<1>17. \A i \in 1 .. n : more[h + 1][i] = heap[slice.array][i]
  <2>1. \A i \in 1 .. n : i \in 1 .. n + k
    OBVIOUS
  <2> QED BY <2>1, <1>6, <1>11, <1>13
<1>18. \A i \in 1 .. k : more[h + 1][n + i] = cells[i]
  BY <1>6, <1>11, <1>13
<1>19. Appended(heap, slice, cells, r)
  BY <1>1, <1>2, <1>14, <1>15, <1>16, <1>17, <1>18 DEF Appended
<1>20. Len(r.heap[r.slice.array]) = GrownTo(r.slice.len, Capacity(heap, slice))
  BY <1>1, <1>2, <1>10, <1>13, <1>14 DEF size
<1>21. \A a \in 1 .. Len(heap) : r.heap[a] = heap[a]
  BY <1>3, <1>13, <1>14
<1>22. InNewArray(heap, slice, r)
  BY <1>3, <1>14, <1>20, <1>21 DEF InNewArray
<1> QED BY <1>19, <1>22 DEF r

-----------------------------------------------------------------------------
(***************************************************************************)
(* The walk.                                                               *)
(***************************************************************************)
Lists     == {"sorts", "filters"}
Frames    == [message : Messages, next : Nat \ {0}, path : Slices, chain : Seq(FieldRefs)]
KeptCells == [path : Slices, leaf : FieldRefs, chain : Seq(FieldRefs)]

(* A path's array is as long as append makes it for the path's length. *)
Fits(heap, path) ==
  /\ path \in Slices /\ path.array \in 1 .. Len(heap)
  /\ path.len <= Len(heap[path.array]) /\ Len(heap[path.array]) < 2 * path.len
  /\ Len(heap[path.array]) \in {1, 2, 4, 8} \/ Len(heap[path.array]) >= 16

Says(heap, path, chain) ==
  \A n \in 1 .. path.len : heap[path.array][n] = FieldNode(chain[n].name, chain[n])

FrameOK(heap, frame, depth) ==
  /\ frame.path.len = depth /\ Len(frame.chain) = depth
  /\ depth = 0 => frame.path = NilSlice
  /\ depth > 0 => Fits(heap, frame.path) /\ Says(heap, frame.path, frame.chain)

KeptOK(heap, cell) ==
  /\ cell \in KeptCells /\ Fits(heap, cell.path) /\ cell.path.len = Len(cell.chain)
  /\ cell.leaf = Last(cell.chain)
  /\ Len(cell.chain) \in {1, 2, 3, 5} => Says(heap, cell.path, cell.chain)

StackInv(heap, frames) ==
  /\ frames \in Seq(Frames)
  /\ \A k \in 1 .. Len(frames) : FrameOK(heap, frames[k], k - 1)

KeptInv(heap, lists) ==
  /\ lists \in [Lists -> Slices]
  /\ \A l \in Lists :
       /\ Sound(heap, lists[l])
       /\ \A i \in 1 .. lists[l].len : KeptOK(heap, heap[lists[l].array][i])

(* The array of a list is not that of a path. *)
NoList(lists, path) == \A l \in Lists : lists[l].array # 0 => path.array # lists[l].array

Apart(heap, frames, lists) ==
  /\ \A k \in 1 .. Len(frames) : NoList(lists, frames[k].path)
  /\ \A l \in Lists : \A i \in 1 .. lists[l].len : NoList(lists, heap[lists[l].array][i].path)
  /\ \A l, m \in Lists : l # m /\ lists[l].array # 0 => lists[l].array # lists[m].array

WalkInv(heap, frames, lists) ==
  IsHeap(heap) /\ StackInv(heap, frames) /\ KeptInv(heap, lists) /\ Apart(heap, frames, lists)

LEMMA FitsNumbers ==
  ASSUME NEW heap, IsHeap(heap), NEW path, Fits(heap, path)
  PROVE  /\ path.array \in Nat /\ path.len \in Nat /\ Len(heap) \in Nat
         /\ path.array \in 1 .. Len(heap) /\ path.array # 0 /\ path.len >= 1
         /\ Len(heap[path.array]) \in Nat
         /\ Sound(heap, path) /\ Capacity(heap, path) = Len(heap[path.array])
<1>1. PICK S : heap \in Seq(Seq(S))
  BY DEF IsHeap
<1>2. heap[path.array] \in Seq(S) /\ Len(heap) \in Nat
  BY <1>1 DEF Fits
<1>3. Len(heap[path.array]) \in Nat /\ path.len \in Nat /\ path.array \in Nat
  BY <1>2 DEF Fits, Slices
<1> QED BY <1>2, <1>3 DEF Fits, Sound, Capacity

LEMMA StillFits ==
  ASSUME NEW heap, IsHeap(heap), NEW more, IsHeap(more), Grows(heap, more),
         NEW path, Fits(heap, path)
  PROVE  Fits(more, path)
<1>1. Len(heap) \in Nat /\ Len(more) \in Nat
  BY DEF IsHeap
<1>2. path.array \in 1 .. Len(more) /\ Len(more[path.array]) = Len(heap[path.array])
  BY <1>1 DEF Grows, Fits
<1> QED BY <1>2 DEF Fits

LEMMA StillSays ==
  ASSUME NEW heap, IsHeap(heap), NEW more, NEW slice, NEW n, OnlyAppends(heap, slice, n, more),
         NEW path, Fits(heap, path), NEW chain, Says(heap, path, chain),
         path.array # slice.array \/ path.len <= slice.len, slice.len \in Nat
  PROVE  Says(more, path, chain)
<1>1. path.len \in Nat /\ path.array \in 1 .. Len(heap)
      /\ path.len <= Len(heap[path.array]) /\ Len(heap[path.array]) \in Nat
  BY FitsNumbers DEF Fits
<1>2. \A i \in 1 .. path.len : more[path.array][i] = heap[path.array][i]
  <2> SUFFICES ASSUME NEW i \in 1 .. path.len PROVE more[path.array][i] = heap[path.array][i]
    OBVIOUS
  <2>1. i \in 1 .. Len(heap[path.array])
    BY <1>1
  <2>2. path.array # slice.array \/ i <= slice.len
    BY <1>1
  <2> QED BY <1>1, <2>1, <2>2 DEF OnlyAppends
<1> QED BY <1>2 DEF Says

LEMMA StillSound ==
  ASSUME NEW heap, IsHeap(heap), NEW more, IsHeap(more), Grows(heap, more),
         NEW slice, Sound(heap, slice)
  PROVE  Sound(more, slice) /\ Capacity(more, slice) = Capacity(heap, slice)
<1>1. Len(heap) \in Nat /\ Len(more) \in Nat
  BY DEF IsHeap
<1>2. slice.array \in 0 .. Len(more)
  BY <1>1 DEF Sound, Grows
<1>3. Capacity(more, slice) = Capacity(heap, slice)
  BY <1>1 DEF Sound, Grows, Capacity
<1> QED BY <1>2, <1>3 DEF Sound

Untouched(heap, lists, l, r) ==
  /\ \A path : Fits(heap, path) /\ NoList(lists, path) =>
       /\ Fits(r.heap, path) /\ NoList([lists EXCEPT ![l] = r.slice], path)
       /\ \A chain : Says(heap, path, chain) => Says(r.heap, path, chain)
  /\ \A m \in Lists : \A i \in 1 .. lists[m].len :
       r.heap[lists[m].array][i] = heap[lists[m].array][i]
  /\ \A i \in 1 .. lists[l].len : r.heap[r.slice.array][i] = heap[lists[l].array][i]

(***************************************************************************)
(* What is appended to a list, beyond the cells it has, changes no path    *)
(* and no cell of a list.                                                  *)
(***************************************************************************)
LEMMA AppendedList ==
  ASSUME NEW heap, NEW frames, NEW lists, WalkInv(heap, frames, lists),
         NEW l \in Lists, NEW cells, NEW r, Appended(heap, lists[l], cells, r),
         r.slice.array = lists[l].array \/ r.slice.array = Len(heap) + 1
  PROVE  Untouched(heap, lists, l, r)
<1>1. IsHeap(heap) /\ IsHeap(r.heap) /\ Grows(heap, r.heap)
      /\ OnlyAppends(heap, lists[l], Len(cells), r.heap) /\ Len(heap) \in Nat
  BY DEF WalkInv, Appended, IsHeap
<1>2. lists \in [Lists -> Slices] /\ \A m \in Lists : Sound(heap, lists[m])
  BY DEF WalkInv, KeptInv
<1>3. lists[l].array \in Nat /\ lists[l].len \in Nat
  BY <1>2 DEF Slices
<1>4. ASSUME NEW path, Fits(heap, path), NoList(lists, path)
      PROVE  /\ Fits(r.heap, path) /\ path.array # r.slice.array
             /\ NoList([lists EXCEPT ![l] = r.slice], path)
             /\ \A chain : Says(heap, path, chain) => Says(r.heap, path, chain)
  <2>1. path.array \in 1 .. Len(heap)
    BY <1>4, <1>1, FitsNumbers
  <2>2. path.array # lists[l].array
    BY <2>1, <1>4 DEF NoList
  <2>3. path.array # r.slice.array
    BY <2>1, <2>2, <1>1
  <2>4. Fits(r.heap, path)
    BY <1>1, <1>4, StillFits
  <2>5. ASSUME NEW chain, Says(heap, path, chain) PROVE Says(r.heap, path, chain)
    BY <1>1, <1>3, <1>4, <2>2, <2>5, StillSays
  <2>6. NoList([lists EXCEPT ![l] = r.slice], path)
    BY <1>2, <1>4, <2>3 DEF NoList
  <2> QED BY <2>3, <2>4, <2>5, <2>6
<1>5. ASSUME NEW m \in Lists, NEW i \in 1 .. lists[m].len
      PROVE  r.heap[lists[m].array][i] = heap[lists[m].array][i]
  <2>1. /\ lists[m].array \in 1 .. Len(heap) /\ lists[m].len \in Nat
        /\ lists[m].len <= Len(heap[lists[m].array]) /\ Len(heap[lists[m].array]) \in Nat
    <3>1. /\ lists[m].len \in Nat /\ Capacity(heap, lists[m]) \in Nat
          /\ lists[m].array # 0 => /\ lists[m].array \in 1 .. Len(heap)
                                   /\ Capacity(heap, lists[m]) = Len(heap[lists[m].array])
          /\ lists[m].array = 0 => lists[m].len = 0
      BY <1>1, <1>2, CapacityNat
    <3>2. lists[m].len <= Capacity(heap, lists[m])
      BY <1>2 DEF Sound
    <3> QED BY <3>1, <3>2
  <2>2. i \in 1 .. Len(heap[lists[m].array])
    BY <2>1
  <2>3. lists[m].array # lists[l].array \/ i <= lists[l].len
    <3>1. CASE m = l
      BY <3>1, <2>1
    <3>2. CASE m # l
      <4>1. lists[m].array # 0
        BY <2>1
      <4> QED BY <3>2, <4>1 DEF WalkInv, Apart
    <3> QED BY <3>1, <3>2
  <2> QED BY <1>1, <2>1, <2>2, <2>3 DEF OnlyAppends
<1>6. \A i \in 1 .. lists[l].len : r.heap[r.slice.array][i] = heap[lists[l].array][i]
  BY DEF Appended
<1> QED BY <1>4, <1>5, <1>6 DEF Untouched

LEMMA FramesStay ==
  ASSUME NEW heap, IsHeap(heap), NEW more, NEW frames, StackInv(heap, frames),
         \A k \in 1 .. Len(frames) : frames[k].path.len > 0 =>
           /\ Fits(more, frames[k].path)
           /\ Says(more, frames[k].path, frames[k].chain)
  PROVE  StackInv(more, frames)
<1>1. \A k \in 1 .. Len(frames) : FrameOK(heap, frames[k], k - 1)
  BY DEF StackInv
<1>2. \A k \in 1 .. Len(frames) : FrameOK(more, frames[k], k - 1)
  BY <1>1 DEF FrameOK
<1> QED BY <1>2 DEF StackInv

LEMMA FramesApart ==
  ASSUME NEW heap, NEW frames, NEW lists, WalkInv(heap, frames, lists),
         NEW k \in 1 .. Len(frames)
  PROVE  /\ NoList(lists, frames[k].path) /\ frames[k].path.len = k - 1
         /\ frames[k].path.len = 0 => frames[k].path.array = 0
         /\ frames[k].path.len > 0 => /\ Fits(heap, frames[k].path)
                                      /\ Says(heap, frames[k].path, frames[k].chain)
<1>1. NoList(lists, frames[k].path)
  BY DEF WalkInv, Apart
<1>2. FrameOK(heap, frames[k], k - 1) /\ k - 1 \in Nat
  BY DEF WalkInv, StackInv
<1> QED BY <1>1, <1>2 DEF FrameOK, NilSlice

(* Callers append to the default sorts, each for its own list. *)
Appends(heap, lists, l, cells, r) ==
  /\ Appended(heap, lists[l], cells, r)
  /\ r.slice.array = lists[l].array \/ r.slice.array = Len(heap) + 1

LEMMA OthersAppend ==
  ASSUME NEW heap, NEW frames, NEW lists, WalkInv(heap, frames, lists),
         NEW l \in Lists, NEW cells, NEW r, Appends(heap, lists, l, cells, r)
  PROVE  /\ WalkInv(r.heap, frames, lists)
         /\ \A m \in Lists : \A i \in 1 .. lists[m].len :
              r.heap[lists[m].array][i] = heap[lists[m].array][i]
<1>1. /\ Appended(heap, lists[l], cells, r)
      /\ r.slice.array = lists[l].array \/ r.slice.array = Len(heap) + 1
      /\ IsHeap(heap) /\ IsHeap(r.heap) /\ Grows(heap, r.heap)
  BY DEF Appends, WalkInv, Appended
<1>2. Untouched(heap, lists, l, r)
  BY <1>1, AppendedList
<1>3. /\ \A path : Fits(heap, path) /\ NoList(lists, path) =>
                /\ Fits(r.heap, path)
                /\ \A chain : Says(heap, path, chain) => Says(r.heap, path, chain)
      /\ \A m \in Lists : \A i \in 1 .. lists[m].len :
              r.heap[lists[m].array][i] = heap[lists[m].array][i]
  BY <1>2 DEF Untouched
<1>4. StackInv(heap, frames) /\ KeptInv(heap, lists) /\ Apart(heap, frames, lists)
  BY DEF WalkInv
<1>5. StackInv(r.heap, frames)
  <2>1. \A k \in 1 .. Len(frames) : frames[k].path.len > 0 =>
           /\ Fits(r.heap, frames[k].path)
           /\ Says(r.heap, frames[k].path, frames[k].chain)
    BY <1>3, FramesApart
  <2> QED BY <2>1, <1>1, <1>4, FramesStay
<1>6. KeptInv(r.heap, lists)
  <2>1. ASSUME NEW m \in Lists PROVE Sound(r.heap, lists[m])
    BY <1>1, <1>4, StillSound DEF KeptInv
  <2>2. ASSUME NEW m \in Lists, NEW i \in 1 .. lists[m].len
        PROVE  KeptOK(r.heap, r.heap[lists[m].array][i])
    <3>1. PICK cell : cell = heap[lists[m].array][i]
      OBVIOUS
    <3>2. KeptOK(heap, cell) /\ NoList(lists, cell.path)
      BY <3>1, <1>4 DEF KeptInv, Apart
    <3>3. KeptOK(r.heap, cell)
      BY <3>2, <1>3 DEF KeptOK
    <3> QED BY <3>1, <3>3, <1>3
  <2> QED BY <2>1, <2>2, <1>4 DEF KeptInv
<1>7. Apart(r.heap, frames, lists)
  BY <1>3, <1>4 DEF Apart
<1> QED BY <1>1, <1>3, <1>5, <1>6, <1>7 DEF WalkInv

(* A callback keeps a path. *)
LEMMA KeepAppends ==
  ASSUME NEW heap, NEW frames, NEW lists, WalkInv(heap, frames, lists),
         NEW l \in Lists, NEW cell, KeptOK(heap, cell), NoList(lists, cell.path),
         NEW r, Appended(heap, lists[l], <<cell>>, r),
         r.slice.array = lists[l].array \/ r.slice.array = Len(heap) + 1
  PROVE  /\ WalkInv(r.heap, frames, [lists EXCEPT ![l] = r.slice])
         /\ \A m \in Lists : \A i \in 1 .. lists[m].len :
              r.heap[[lists EXCEPT ![l] = r.slice][m].array][i] = heap[lists[m].array][i]
         /\ r.slice.len = lists[l].len + 1
         /\ r.heap[r.slice.array][lists[l].len + 1] = cell
<1> DEFINE longer == [lists EXCEPT ![l] = r.slice]
<1>1. IsHeap(heap) /\ IsHeap(r.heap) /\ Grows(heap, r.heap)
  BY DEF WalkInv, Appended
<1>2. Untouched(heap, lists, l, r)
  BY AppendedList
<1>3. /\ \A path : Fits(heap, path) /\ NoList(lists, path) =>
                /\ Fits(r.heap, path) /\ NoList(longer, path)
                /\ \A chain : Says(heap, path, chain) => Says(r.heap, path, chain)
      /\ \A m \in Lists : \A i \in 1 .. lists[m].len :
              r.heap[lists[m].array][i] = heap[lists[m].array][i]
      /\ \A i \in 1 .. lists[l].len :
              r.heap[r.slice.array][i] = heap[lists[l].array][i]
  BY <1>2 DEF Untouched
<1>4. StackInv(heap, frames) /\ KeptInv(heap, lists) /\ Apart(heap, frames, lists)
  BY DEF WalkInv
<1>5. StackInv(r.heap, frames)
  <2>1. \A k \in 1 .. Len(frames) : frames[k].path.len > 0 =>
           /\ Fits(r.heap, frames[k].path)
           /\ Says(r.heap, frames[k].path, frames[k].chain)
    BY <1>3, FramesApart
  <2> QED BY <2>1, <1>1, <1>4, FramesStay
<1>6. /\ longer \in [Lists -> Slices] /\ longer[l] = r.slice
      /\ \A m \in Lists : m # l => longer[m] = lists[m]
  BY <1>4 DEF KeptInv, Appended, Sound
<1>7. lists[l].len \in Nat /\ longer[l].len = lists[l].len + 1
      /\ r.heap[r.slice.array][lists[l].len + 1] = cell
  BY <1>4, <1>6 DEF KeptInv, Appended, Slices
(* What the lists hold is what they held, and the new cell. *)
<1>8. ASSUME NEW m \in Lists, NEW i \in 1 .. longer[m].len
      PROVE  KeptOK(r.heap, r.heap[longer[m].array][i])
             /\ NoList(longer, r.heap[longer[m].array][i].path)
  <2>1. PICK c : KeptOK(heap, c) /\ NoList(lists, c.path) /\ r.heap[longer[m].array][i] = c
    <3>1. CASE m # l
      <4>1. i \in 1 .. lists[m].len /\ longer[m] = lists[m]
        BY <3>1, <1>6
      <4> QED BY <4>1, <1>3, <1>4 DEF KeptInv, Apart
    <3>2. CASE m = l /\ i <= lists[l].len
      <4>1. i \in 1 .. lists[l].len
        BY <3>2, <1>7
      <4> QED BY <3>2, <4>1, <1>3, <1>4, <1>6 DEF KeptInv, Apart
    <3>3. CASE m = l /\ i = lists[l].len + 1
      BY <3>3, <1>6, <1>7
    <3> QED BY <3>1, <3>2, <3>3, <1>7
  <2>2. Fits(heap, c.path)
    BY <2>1 DEF KeptOK
  <2>3. KeptOK(r.heap, c) /\ NoList(longer, c.path)
    <3> HIDE DEF longer
    <3> QED BY <2>1, <2>2, <1>3 DEF KeptOK
  <2> QED BY <2>1, <2>3
<1>9. KeptInv(r.heap, longer)
  <2>1. ASSUME NEW m \in Lists PROVE Sound(r.heap, longer[m])
    <3>1. CASE m = l
      BY <3>1, <1>6 DEF Appended
    <3>2. CASE m # l
      BY <3>2, <1>1, <1>4, <1>6, StillSound DEF KeptInv
    <3> QED BY <3>1, <3>2
  <2> HIDE DEF longer
  <2> QED BY <2>1, <1>6, <1>8 DEF KeptInv
<1>10. Apart(r.heap, frames, longer)
  <2>1. \A k \in 1 .. Len(frames) : NoList(longer, frames[k].path)
    <3> SUFFICES ASSUME NEW k \in 1 .. Len(frames) PROVE NoList(longer, frames[k].path)
      OBVIOUS
    <3>1. CASE frames[k].path.len > 0
      BY <3>1, <1>3, FramesApart
    <3>2. CASE ~(frames[k].path.len > 0)
      <4>1. frames[k].path.array = 0
        BY <3>2, FramesApart
      <4> QED BY <4>1 DEF NoList
    <3> QED BY <3>1, <3>2
  <2>2. ASSUME NEW m \in Lists, NEW q \in Lists, m # q, longer[m].array # 0
        PROVE  longer[m].array # longer[q].array
    <3>1. \A a \in Lists : lists[a].array \in 0 .. Len(heap) /\ Len(heap) \in Nat
      BY <1>1, <1>4 DEF KeptInv, Sound, IsHeap
    <3>2. \A a, b \in Lists : a # b /\ lists[a].array # 0 => lists[a].array # lists[b].array
      BY <1>4 DEF Apart
    <3>3. CASE m # l /\ q # l
      BY <2>2, <3>2, <3>3, <1>6
    <3>4. CASE m = l
      <4>1. longer[q] = lists[q] /\ longer[m].array = r.slice.array
        BY <3>4, <2>2, <1>6
      <4> QED BY <4>1, <3>1, <3>2, <3>4, <2>2
    <3>5. CASE q = l
      <4>1. longer[m] = lists[m] /\ longer[q].array = r.slice.array
        BY <3>5, <2>2, <1>6
      <4> QED BY <4>1, <3>1, <3>2, <3>5, <2>2
    <3> QED BY <3>3, <3>4, <3>5
  <2> HIDE DEF longer
  <2> QED BY <2>1, <2>2, <1>8 DEF Apart
<1>11. \A m \in Lists : \A i \in 1 .. lists[m].len :
         r.heap[longer[m].array][i] = heap[lists[m].array][i]
  BY <1>3, <1>6
<1> QED BY <1>1, <1>5, <1>6, <1>7, <1>9, <1>10, <1>11 DEF WalkInv

LEMMA AppendOne ==
  ASSUME NEW heap, IsHeap(heap), NEW slice, Sound(heap, slice), NEW cell
  PROVE  LET r == AppendTo(heap, slice, <<cell>>)
         IN  /\ Appended(heap, slice, <<cell>>, r)
             /\ \/ /\ r.slice.array = slice.array
                   /\ slice.len + 1 <= Capacity(heap, slice)
                \/ slice.len + 1 > Capacity(heap, slice) /\ InNewArray(heap, slice, r)
<1>1. <<cell>> \in Seq({cell}) /\ <<cell>> # <<>> /\ Len(<<cell>>) = 1
  OBVIOUS
<1> DEFINE r == AppendTo(heap, slice, <<cell>>)
<1>2. CASE slice.len + 1 <= Capacity(heap, slice)
  <2>1. slice.len + Len(<<cell>>) <= Capacity(heap, slice)
    BY <1>1, <1>2
  <2>2. Appended(heap, slice, <<cell>>, r) /\ r.slice.array = slice.array
    BY <1>1, <2>1, AppendInPlace
  <2> QED BY <1>2, <2>2
<1>3. CASE ~(slice.len + 1 <= Capacity(heap, slice))
  <2>1. slice.len + 1 > Capacity(heap, slice)
    BY <1>3, CapacityNat
  <2>2. slice.len + Len(<<cell>>) > Capacity(heap, slice)
    BY <1>1, <2>1
  <2>3. Appended(heap, slice, <<cell>>, r) /\ InNewArray(heap, slice, r)
    BY <1>1, <2>2, AppendFresh
  <2> QED BY <2>1, <2>3
<1> QED BY <1>2, <1>3

(* A path one field longer, in the array that append puts it in. *)
LEMMA LongerFits ==
  ASSUME NEW heap, IsHeap(heap), NEW path, NEW depth \in Nat, path.len = depth,
         depth = 0 => path = NilSlice, depth > 0 => Fits(heap, path),
         NEW node
  PROVE  LET r == AppendTo(heap, path, <<node>>)
         IN  Fits(r.heap, r.slice) /\ r.slice.len = depth + 1
<1> DEFINE r == AppendTo(heap, path, <<node>>)
<1>1. Sound(heap, path)
  <2>1. CASE depth = 0
    <3>1. Len(heap) \in Nat
      BY DEF IsHeap
    <3> QED BY <2>1, <3>1 DEF NilSlice, Sound, Slices, Capacity
  <2>2. CASE depth > 0
    BY <2>2, FitsNumbers
  <2> QED BY <2>1, <2>2
<1>2. /\ Appended(heap, path, <<node>>, r)
      /\ \/ r.slice.array = path.array /\ path.len + 1 <= Capacity(heap, path)
         \/ path.len + 1 > Capacity(heap, path) /\ InNewArray(heap, path, r)
  BY <1>1, AppendOne
<1> HIDE DEF r
<1>3. IsHeap(r.heap) /\ Sound(r.heap, r.slice) /\ r.slice.len = depth + 1 /\ Grows(heap, r.heap)
  BY <1>2 DEF Appended
<1>4. /\ r.slice \in Slices /\ r.slice.array # 0 /\ r.slice.array \in 1 .. Len(r.heap)
      /\ r.slice.len <= Len(r.heap[r.slice.array])
  <2>1. r.slice \in Slices /\ r.slice.len <= Capacity(r.heap, r.slice)
    BY <1>3 DEF Sound
  <2>2. r.slice.array # 0
    BY <1>3, CapacityNat
  <2>3. r.slice.array \in 1 .. Len(r.heap)
        /\ Capacity(r.heap, r.slice) = Len(r.heap[r.slice.array])
    BY <1>3, <2>2, CapacityNat
  <2> QED BY <2>1, <2>2, <2>3
<1>5. PICK size : size = Len(r.heap[r.slice.array])
  OBVIOUS
<1>6. size < 2 * (depth + 1) /\ (size \in {1, 2, 4, 8} \/ size >= 16)
  <2>1. CASE depth = 0
    <3>1. Capacity(heap, path) = 0 /\ path.array = 0
      BY <2>1 DEF NilSlice, Capacity
    <3>2. size = GrownTo(1, 0)
      BY <1>2, <1>3, <1>4, <1>5, <2>1, <3>1 DEF InNewArray
    <3> QED BY <2>1, <3>2 DEF GrownTo
  <2>2. CASE depth > 0
    <3>1. PICK room \in Nat : /\ room = Capacity(heap, path) /\ room = Len(heap[path.array])
                              /\ depth <= room /\ room < 2 * depth
                              /\ room \in {1, 2, 4, 8} \/ room >= 16
      BY <2>2, FitsNumbers DEF Fits
    <3>2. path.array \in 1 .. Len(heap) /\ path.array # 0 /\ Len(heap) \in Nat
      BY <2>2, FitsNumbers
    <3>3. CASE r.slice.array = path.array /\ path.len + 1 <= Capacity(heap, path)
      <4>1. size = room
        BY <1>3, <1>5, <3>1, <3>2, <3>3 DEF Grows
      <4> QED BY <4>1, <3>1
    <3>4. CASE path.len + 1 > Capacity(heap, path) /\ InNewArray(heap, path, r)
      <4>1. room = depth
        BY <3>1, <3>4
      <4>2. size = GrownTo(depth + 1, depth)
        BY <1>3, <1>5, <3>1, <3>4, <4>1 DEF InNewArray
      <4>3. size = 2 * depth
        BY <2>2, <4>2 DEF GrownTo
      <4> QED BY <3>1, <4>1, <4>3
    <3> QED BY <1>2, <3>3, <3>4
  <2> QED BY <2>1, <2>2
<1>7. Fits(r.heap, r.slice)
  BY <1>3, <1>4, <1>5, <1>6 DEF Fits
<1> QED BY <1>3, <1>7 DEF r

(* A path of 1, 2, 3 or 5 nodes is the shortest one in its array. *)
LEMMA ShortestInArray ==
  ASSUME NEW heap, IsHeap(heap), NEW short, Fits(heap, short), short.len \in {1, 2, 3, 5},
         NEW path, Fits(heap, path), path.array = short.array,
         path.len + 1 <= Len(heap[path.array])
  PROVE  short.len <= path.len
<1>1. PICK size \in Nat : size = Len(heap[path.array])
  BY FitsNumbers
<1>2. PICK d \in Nat : d = path.len
  BY FitsNumbers
<1>3. d + 1 <= size /\ size < 2 * d /\ (size \in {1, 2, 4, 8} \/ size >= 16)
  BY <1>1, <1>2 DEF Fits
<1>4. PICK m \in Nat : m = short.len /\ m \in {1, 2, 3, 5}
  BY FitsNumbers
<1>5. m <= size /\ size < 2 * m
  BY <1>1, <1>4 DEF Fits
<1>6. m <= d
  BY <1>3, <1>4, <1>5
<1> QED BY <1>2, <1>4, <1>6

LEMMA PathGrows ==
  ASSUME NEW heap, NEW frames, NEW lists, WalkInv(heap, frames, lists), frames # <<>>,
         NEW f \in FieldRefs, NEW node, node = FieldNode(f.name, f)
  PROVE  LET top == frames[Len(frames)]
             r == AppendTo(heap, top.path, <<node>>)
         IN  /\ WalkInv(r.heap, frames, lists) /\ Grows(heap, r.heap)
             /\ Fits(r.heap, r.slice) /\ r.slice.len = Len(frames)
             /\ Says(r.heap, r.slice, Append(top.chain, f))
             /\ NoList(lists, r.slice)
             /\ \A l \in Lists : \A i \in 1 .. lists[l].len :
                  r.heap[lists[l].array][i] = heap[lists[l].array][i]
<1> DEFINE top == frames[Len(frames)]
           r == AppendTo(heap, top.path, <<node>>)
<1>1. IsHeap(heap) /\ StackInv(heap, frames) /\ KeptInv(heap, lists) /\ Apart(heap, frames, lists)
  BY DEF WalkInv
<1>2. PICK depth \in Nat : depth = Len(frames) - 1
  BY <1>1 DEF StackInv
<1>3. Len(frames) = depth + 1 /\ depth + 1 \in 1 .. Len(frames)
  BY <1>1, <1>2 DEF StackInv
<1>4. FrameOK(heap, top, depth) /\ top \in Frames /\ NoList(lists, top.path)
  BY <1>1, <1>3 DEF StackInv, Apart
<1>5. /\ top.path.len = depth /\ Len(top.chain) = depth /\ top.chain \in Seq(FieldRefs)
      /\ depth = 0 => top.path = NilSlice
      /\ depth > 0 => Fits(heap, top.path) /\ Says(heap, top.path, top.chain)
  BY <1>4 DEF FrameOK, Frames
<1>6. Fits(r.heap, r.slice) /\ r.slice.len = depth + 1
  BY <1>1, <1>5, LongerFits
<1>7. Sound(heap, top.path)
  <2>1. CASE depth = 0
    <3>1. Len(heap) \in Nat
      BY <1>1 DEF IsHeap
    <3> QED BY <2>1, <3>1, <1>5 DEF NilSlice, Sound, Slices, Capacity
  <2>2. CASE depth > 0
    BY <2>2, <1>1, <1>5, FitsNumbers
  <2> QED BY <2>1, <2>2
<1>8. /\ Appended(heap, top.path, <<node>>, r)
      /\ \/ r.slice.array = top.path.array /\ top.path.len + 1 <= Capacity(heap, top.path)
         \/ r.slice.array = Len(heap) + 1 /\ \A a \in 1 .. Len(heap) : r.heap[a] = heap[a]
  BY <1>1, <1>7, AppendOne DEF InNewArray
<1> HIDE DEF r, top
<1>9. /\ IsHeap(r.heap) /\ Grows(heap, r.heap) /\ Len(heap) \in Nat
      /\ OnlyAppends(heap, top.path, Len(<<node>>), r.heap)
  BY <1>1, <1>8 DEF Appended, IsHeap
<1>10. \A l \in Lists : /\ Sound(heap, lists[l]) /\ lists[l].array \in 0 .. Len(heap)
                        /\ \A i \in 1 .. lists[l].len : KeptOK(heap, heap[lists[l].array][i])
  BY <1>1 DEF KeptInv, Sound
<1>11. NoList(lists, r.slice)
  <2>1. CASE r.slice.array = top.path.array
    BY <2>1, <1>4 DEF NoList
  <2>2. CASE r.slice.array = Len(heap) + 1
    BY <2>2, <1>9, <1>10 DEF NoList
  <2> QED BY <2>1, <2>2, <1>8
<1>12. Says(r.heap, r.slice, Append(top.chain, f))
  <2>1. \A i \in 1 .. depth : r.heap[r.slice.array][i] = heap[top.path.array][i]
    BY <1>5, <1>8 DEF Appended
  <2>2. r.heap[r.slice.array][depth + 1] = node
    <3>1. \A i \in 1 .. Len(<<node>>) :
            r.heap[r.slice.array][top.path.len + i] = <<node>>[i]
      BY <1>8 DEF Appended
    <3> QED BY <3>1, <1>5
  <2>3. ASSUME NEW i \in 1 .. depth + 1
        PROVE  r.heap[r.slice.array][i]
               = FieldNode(Append(top.chain, f)[i].name, Append(top.chain, f)[i])
    <3>1. CASE i = depth + 1
      BY <3>1, <2>2, <1>5
    <3>2. CASE i # depth + 1
      <4>1. i \in 1 .. depth /\ depth > 0
        BY <3>2
      <4>2. heap[top.path.array][i] = FieldNode(top.chain[i].name, top.chain[i])
        BY <4>1, <1>5 DEF Says
      <4>3. Append(top.chain, f)[i] = top.chain[i]
        BY <4>1, <1>5
      <4> QED BY <2>1, <4>1, <4>2, <4>3
    <3> QED BY <3>1, <3>2
  <2> QED BY <2>3, <1>6 DEF Says
<1>13. StackInv(r.heap, frames)
  <2> SUFFICES ASSUME NEW k \in 1 .. Len(frames), frames[k].path.len > 0
               PROVE  /\ Fits(r.heap, frames[k].path)
                      /\ Says(r.heap, frames[k].path, frames[k].chain)
    BY <1>1, FramesStay
  <2>1. /\ Fits(heap, frames[k].path) /\ Says(heap, frames[k].path, frames[k].chain)
        /\ frames[k].path.len = k - 1
    BY FramesApart
  <2>2. frames[k].path.len <= top.path.len
    BY <1>3, <1>5, <2>1
  <2> QED BY <1>1, <1>5, <1>9, <2>1, <2>2, StillFits, StillSays
(* The lists are in arrays that are not written to. *)
<1>14. \A l \in Lists : \A i \in 1 .. lists[l].len :
         r.heap[lists[l].array][i] = heap[lists[l].array][i]
  <2> SUFFICES ASSUME NEW l \in Lists, NEW i \in 1 .. lists[l].len
               PROVE  r.heap[lists[l].array][i] = heap[lists[l].array][i]
    OBVIOUS
  <2>1. /\ lists[l].array # 0 /\ lists[l].array \in 1 .. Len(heap) /\ lists[l].len \in Nat
        /\ lists[l].len <= Len(heap[lists[l].array]) /\ Len(heap[lists[l].array]) \in Nat
    <3>1. /\ lists[l].len \in Nat /\ Capacity(heap, lists[l]) \in Nat
          /\ lists[l].array # 0 => /\ lists[l].array \in 1 .. Len(heap)
                                   /\ Capacity(heap, lists[l]) = Len(heap[lists[l].array])
          /\ lists[l].array = 0 => lists[l].len = 0
      BY <1>1, <1>10, CapacityNat
    <3>2. lists[l].len <= Capacity(heap, lists[l])
      BY <1>10 DEF Sound
    <3> QED BY <3>1, <3>2
  <2>2. lists[l].array # top.path.array
    BY <2>1, <1>4 DEF NoList
  <2>3. i \in 1 .. Len(heap[lists[l].array])
    BY <2>1
  <2> QED BY <1>9, <2>1, <2>2, <2>3 DEF OnlyAppends
(* A kept path is not written over where it may not be. *)
<1>15. ASSUME NEW cell, KeptOK(heap, cell) PROVE KeptOK(r.heap, cell)
  <2>1. /\ cell \in KeptCells /\ Fits(heap, cell.path) /\ cell.path.len = Len(cell.chain)
        /\ cell.leaf = Last(cell.chain)
        /\ Len(cell.chain) \in {1, 2, 3, 5} => Says(heap, cell.path, cell.chain)
    BY <1>15 DEF KeptOK
  <2>2. Fits(r.heap, cell.path)
    BY <1>1, <1>9, <2>1, StillFits
  <2>3. ASSUME Len(cell.chain) \in {1, 2, 3, 5}
        PROVE  Says(r.heap, cell.path, cell.chain)
    <3>1. CASE r.slice.array = Len(heap) + 1 /\ \A a \in 1 .. Len(heap) : r.heap[a] = heap[a]
      <4>1. r.heap[cell.path.array] = heap[cell.path.array]
        BY <3>1, <2>1, <1>1, FitsNumbers
      <4> QED BY <4>1, <2>1, <2>3 DEF Says
    <3>2. CASE r.slice.array = top.path.array /\ top.path.len + 1 <= Capacity(heap, top.path)
      <4>1. top.path.array # cell.path.array \/ cell.path.len <= top.path.len
        <5> SUFFICES ASSUME top.path.array = cell.path.array
                     PROVE  cell.path.len <= top.path.len
          OBVIOUS
        <5>1. top.path.array # 0
          BY <1>1, <2>1, FitsNumbers
        <5>2. depth > 0
          BY <5>1, <1>5 DEF NilSlice
        <5>3. Fits(heap, top.path) /\ top.path.len + 1 <= Len(heap[top.path.array])
          BY <5>2, <3>2, <1>1, <1>5, FitsNumbers
        <5> QED BY <5>3, <1>1, <2>1, <2>3, ShortestInArray
      <4> QED BY <4>1, <1>1, <1>5, <1>9, <2>1, <2>3, StillSays
    <3> QED BY <3>1, <3>2, <1>8
  <2> QED BY <2>1, <2>2, <2>3 DEF KeptOK
<1>16. KeptInv(r.heap, lists)
  <2>1. ASSUME NEW l \in Lists PROVE Sound(r.heap, lists[l])
    BY <1>1, <1>9, <1>10, StillSound
  <2>2. ASSUME NEW l \in Lists, NEW i \in 1 .. lists[l].len
        PROVE  KeptOK(r.heap, r.heap[lists[l].array][i])
    BY <1>10, <1>14, <1>15
  <2>3. lists \in [Lists -> Slices]
    BY <1>1 DEF KeptInv
  <2> QED BY <2>1, <2>2, <2>3 DEF KeptInv
<1>17. Apart(r.heap, frames, lists)
  BY <1>1, <1>14 DEF Apart
<1>18. WalkInv(r.heap, frames, lists)
  BY <1>9, <1>13, <1>16, <1>17 DEF WalkInv
<1> QED BY <1>3, <1>6, <1>9, <1>11, <1>12, <1>14, <1>18 DEF r, top

LEMMA FrontOf ==
  ASSUME NEW S, NEW seq \in Seq(S), seq # <<>>
  PROVE  /\ Front(seq) \in Seq(S) /\ Len(Front(seq)) = Len(seq) - 1 /\ Len(seq) >= 1
         /\ \A i \in 1 .. Len(seq) - 1 : Front(seq)[i] = seq[i]
         /\ Last(seq) = seq[Len(seq)] /\ Len(seq) \in 1 .. Len(seq)
<1>1. PICK n \in Nat : n = Len(seq) - 1 /\ Len(seq) = n + 1
  BY EmptySeq
<1>2. Front(seq) = SubSeq(seq, 1, n)
  BY <1>1 DEF Front
<1>3. SubSeq(seq, 1, n) \in Seq(S) /\ Len(SubSeq(seq, 1, n)) = n
      /\ \A i \in 1 .. n : SubSeq(seq, 1, n)[i] = seq[i]
  BY <1>1, SubSeqProperties
<1> QED BY <1>1, <1>2, <1>3 DEF Last

LEMMA StackOnly ==
  ASSUME NEW heap, NEW frames, NEW lists, WalkInv(heap, frames, lists),
         NEW others, StackInv(heap, others),
         \A k \in 1 .. Len(others) : NoList(lists, others[k].path)
  PROVE  WalkInv(heap, others, lists)
  BY DEF WalkInv, Apart

LEMMA WalkStarts ==
  ASSUME NEW heap, NEW frames, NEW lists, WalkInv(heap, frames, lists), NEW m \in Messages
  PROVE  WalkInv(heap, <<Frame(m, NilSlice, <<>>)>>, lists) /\ WalkInv(heap, <<>>, lists)
<1> DEFINE root == Frame(m, NilSlice, <<>>)
<1>1. root \in Frames /\ root.path = NilSlice /\ root.chain = <<>>
  BY DEF Frame, Frames, NilSlice, Slices
<1>2. FrameOK(heap, root, 0) /\ NoList(lists, root.path)
  BY <1>1 DEF FrameOK, NilSlice, NoList
<1> HIDE DEF root
<1>3. WalkInv(heap, <<root>>, lists)
  <2>1. StackInv(heap, <<root>>) /\ \A k \in 1 .. Len(<<root>>) : NoList(lists, <<root>>[k].path)
    BY <1>1, <1>2 DEF StackInv
  <2> QED BY <2>1, StackOnly
<1>4. WalkInv(heap, <<>>, lists)
  <2>1. StackInv(heap, <<>>) /\ \A k \in 1 .. Len(<<>>) : NoList(lists, <<>>[k].path)
    BY DEF StackInv
  <2> QED BY <2>1, StackOnly
<1> QED BY <1>3, <1>4 DEF root

LEMMA WalkUp ==
  ASSUME NEW heap, NEW frames, NEW lists, WalkInv(heap, frames, lists), Len(frames) > 1
  PROVE  WalkInv(heap, Front(frames), lists)
<1>1. frames \in Seq(Frames) /\ \A k \in 1 .. Len(frames) : FrameOK(heap, frames[k], k - 1)
  BY DEF WalkInv, StackInv
<1>2. \A k \in 1 .. Len(frames) : NoList(lists, frames[k].path)
  BY DEF WalkInv, Apart
<1>3. PICK rest \in Seq(Frames) :
        rest = Front(frames) /\ Len(rest) = Len(frames) - 1
        /\ \A i \in 1 .. Len(rest) : rest[i] = frames[i] /\ i \in 1 .. Len(frames)
  BY <1>1, FrontOf
<1>4. StackInv(heap, rest) /\ \A k \in 1 .. Len(rest) : NoList(lists, rest[k].path)
  BY <1>1, <1>2, <1>3 DEF StackInv
<1>5. WalkInv(heap, rest, lists)
  BY <1>4, StackOnly
<1> QED BY <1>3, <1>5

LEMMA WalkOn ==
  ASSUME NEW heap, NEW frames, NEW lists, WalkInv(heap, frames, lists), frames # <<>>
  PROVE  LET rest == Append(Front(frames), [Last(frames) EXCEPT !.next = @ + 1])
         IN  WalkInv(heap, rest, lists) /\ Len(rest) = Len(frames)
<1>1. frames \in Seq(Frames) /\ \A k \in 1 .. Len(frames) : FrameOK(heap, frames[k], k - 1)
  BY DEF WalkInv, StackInv
<1>2. \A k \in 1 .. Len(frames) : NoList(lists, frames[k].path)
  BY DEF WalkInv, Apart
<1>3. PICK front \in Seq(Frames) :
        front = Front(frames) /\ Len(front) = Len(frames) - 1
        /\ \A i \in 1 .. Len(front) : front[i] = frames[i] /\ i \in 1 .. Len(frames)
  BY <1>1, FrontOf
<1>4. PICK n \in Nat : /\ Len(frames) = n + 1 /\ n + 1 \in 1 .. Len(frames)
                       /\ Last(frames) = frames[n + 1]
  <2>1. PICK len \in Nat : len = Len(frames)
    BY <1>1
  <2>2. Last(frames) = frames[len] /\ len >= 1
    <3>1. frames \in Seq(Frames) /\ frames # <<>>
      BY <1>1
    <3> QED BY <2>1, <3>1, FrontOf
  <2>3. PICK n \in Nat : len = n + 1 /\ n = len - 1
    BY <2>2
  <2>4. n + 1 \in 1 .. len
    BY <2>3
  <2> QED BY <2>1, <2>2, <2>3, <2>4
<1>5. PICK top \in Frames : top = frames[n + 1]
  BY <1>1, <1>4
<1>6. PICK next \in Frames : /\ next = [top EXCEPT !.next = @ + 1]
                             /\ next.path = top.path /\ next.chain = top.chain
  <2>1. top.next + 1 \in Nat \ {0}
    BY DEF Frames
  <2> QED BY <2>1 DEF Frames
<1>7. FrameOK(heap, next, n) /\ NoList(lists, next.path)
  <2>1. FrameOK(heap, top, n) /\ NoList(lists, top.path)
    BY <1>1, <1>2, <1>4, <1>5
  <2> QED BY <2>1, <1>6 DEF FrameOK, NoList
<1>8. PICK rest \in Seq(Frames) : /\ rest = Append(front, next) /\ Len(rest) = n + 1
                                  /\ rest[n + 1] = next
                                  /\ \A i \in 1 .. n : rest[i] = front[i]
  <2>1. Len(front) = n
    BY <1>3, <1>4
  <2>2. Append(front, next) \in Seq(Frames) /\ Len(Append(front, next)) = n + 1
        /\ Append(front, next)[n + 1] = next
        /\ \A i \in 1 .. n : Append(front, next)[i] = front[i]
    BY <2>1, AppendProperties
  <2> QED BY <2>2
<1>9. ASSUME NEW k \in 1 .. Len(rest)
      PROVE  FrameOK(heap, rest[k], k - 1) /\ NoList(lists, rest[k].path)
  <2>1. CASE k = n + 1
    BY <2>1, <1>7, <1>8
  <2>2. CASE k # n + 1
    <3>1. k \in 1 .. n /\ k \in 1 .. Len(front)
      BY <2>2, <1>3, <1>4, <1>8
    <3>2. rest[k] = frames[k] /\ k \in 1 .. Len(frames)
      BY <3>1, <1>3, <1>8
    <3> QED BY <3>2, <1>1, <1>2
  <2> QED BY <2>1, <2>2
<1>10. WalkInv(heap, rest, lists)
  <2>1. StackInv(heap, rest)
    BY <1>9 DEF StackInv
  <2> QED BY <2>1, <1>9, StackOnly
<1> QED BY <1>3, <1>4, <1>5, <1>6, <1>8, <1>10

LEMMA WalkDown ==
  ASSUME NEW heap, NEW frames, NEW lists, WalkInv(heap, frames, lists),
         NEW m \in Messages, NEW path, NEW chain \in Seq(FieldRefs),
         Fits(heap, path), path.len = Len(frames), Len(chain) = Len(frames),
         Says(heap, path, chain), NoList(lists, path)
  PROVE  WalkInv(heap, Append(frames, Frame(m, path, chain)), lists)
<1>1. frames \in Seq(Frames) /\ \A k \in 1 .. Len(frames) : FrameOK(heap, frames[k], k - 1)
  BY DEF WalkInv, StackInv
<1>2. \A k \in 1 .. Len(frames) : NoList(lists, frames[k].path)
  BY DEF WalkInv, Apart
<1>3. PICK n \in Nat : n = Len(frames)
  BY <1>1
<1>4. PICK frame \in Frames : /\ frame = Frame(m, path, chain)
                              /\ frame.path = path /\ frame.chain = chain
  <2>1. Frame(m, path, chain) \in Frames
    BY DEF Frame, Frames, Fits
  <2>2. Frame(m, path, chain).path = path /\ Frame(m, path, chain).chain = chain
    BY DEF Frame
  <2> QED BY <2>1, <2>2
<1>5. FrameOK(heap, frame, n) /\ NoList(lists, frame.path)
  <2>1. n > 0
    BY <1>3, FitsNumbers DEF WalkInv
  <2> QED BY <2>1, <1>3, <1>4 DEF FrameOK
<1>6. PICK more \in Seq(Frames) : /\ more = Append(frames, frame) /\ Len(more) = n + 1
                                  /\ more[n + 1] = frame
                                  /\ \A i \in 1 .. n : more[i] = frames[i]
  <2>1. Append(frames, frame) \in Seq(Frames) /\ Len(Append(frames, frame)) = n + 1
        /\ Append(frames, frame)[n + 1] = frame
        /\ \A i \in 1 .. n : Append(frames, frame)[i] = frames[i]
    BY <1>1, <1>3, AppendProperties
  <2> QED BY <2>1
<1>7. ASSUME NEW k \in 1 .. Len(more)
      PROVE  FrameOK(heap, more[k], k - 1) /\ NoList(lists, more[k].path)
  <2>1. CASE k = n + 1
    BY <2>1, <1>5, <1>6
  <2>2. CASE k # n + 1
    <3>1. k \in 1 .. n
      BY <2>2, <1>6
    <3> QED BY <3>1, <1>1, <1>2, <1>3, <1>6
  <2> QED BY <2>1, <2>2
<1>8. WalkInv(heap, more, lists)
  <2>1. StackInv(heap, more)
    BY <1>7 DEF StackInv
  <2> QED BY <2>1, <1>7, StackOnly
<1> QED BY <1>4, <1>6, <1>8

(***************************************************************************)
(* A field is visited, whatever the callback wants.                        *)
(***************************************************************************)
LEMMA VisitKeeps ==
  ASSUME WalkInv(memory, stack, kept), NEW list \in Lists, NEW wanted, Visit(list, wanted)
  PROVE  /\ WalkInv(memory', stack', kept') /\ Grows(memory, memory')
         /\ \A l \in Lists : \A i \in 1 .. kept[l].len :
              memory'[kept'[l].array][i] = memory[kept[l].array][i]
         /\ \A l \in Lists : l # list \/ NextField \notin wanted => kept'[l].len = kept[l].len
         /\ NextField \in wanted =>
              /\ kept'[list].len = kept[list].len + 1
              /\ memory'[kept'[list].array][kept[list].len + 1].chain
                 = Append(Last(stack).chain, NextField)
<1> DEFINE top   == Last(stack)
           f     == NextField
           path  == AppendTo(memory, top.path, <<FieldNode(f.name, f)>>)
           chain == Append(top.chain, f)
           cell  == [path |-> path.slice, leaf |-> f, chain |-> chain]
           keep  == AppendTo(path.heap, kept[list], IF f \in wanted THEN <<cell>> ELSE <<>>)
           longer == [kept EXCEPT ![list] = keep.slice]
           rest  == Append(Front(stack), [top EXCEPT !.next = @ + 1])
           now   == IF f.message = NoMessage THEN rest
                    ELSE Append(rest, Frame(f.message, path.slice, chain))
<1>1. /\ stack # <<>> /\ top.next <= Len(FieldsOf[top.message])
      /\ memory' = keep.heap /\ kept' = [kept EXCEPT ![list] = keep.slice] /\ stack' = now
  BY DEF Visit, MoreFields
<1>2. /\ stack \in Seq(Frames) /\ Len(stack) \in Nat
      /\ \A k \in 1 .. Len(stack) : FrameOK(memory, stack[k], k - 1)
  BY DEF WalkInv, StackInv
<1>3. top = stack[Len(stack)] /\ Len(stack) \in 1 .. Len(stack) /\ top \in Frames
  BY <1>1, <1>2, FrontOf
<1>4. f \in FieldRefs
  <2>1. top.message \in Messages /\ top.next \in 1 .. Len(FieldsOf[top.message])
    <3>1. FieldsOf[top.message] \in Seq(FieldSet(top.message))
      BY <1>3, PathsAssumption DEF Frames
    <3> QED BY <3>1, <1>1, <1>3 DEF Frames
  <2>2. FieldsOf[top.message] \in Seq(FieldSet(top.message))
    BY <2>1, PathsAssumption
  <2> QED BY <2>1, <2>2 DEF FieldRefs, NextField
<1>5. f.message \in Messages \cup {NoMessage}
  BY <1>4, PathsAssumption
<1>6. /\ top.chain \in Seq(FieldRefs) /\ Len(top.chain) = Len(stack) - 1
      /\ chain \in Seq(FieldRefs) /\ Len(chain) = Len(stack)
  <2>1. top.chain \in Seq(FieldRefs) /\ Len(top.chain) = Len(stack) - 1
    BY <1>2, <1>3 DEF FrameOK, Frames
  <2> QED BY <2>1, <1>2, <1>4
<1>7. /\ WalkInv(path.heap, stack, kept) /\ Grows(memory, path.heap)
      /\ Fits(path.heap, path.slice) /\ path.slice.len = Len(stack)
      /\ Says(path.heap, path.slice, chain) /\ NoList(kept, path.slice)
      /\ \A l \in Lists : \A i \in 1 .. kept[l].len :
           path.heap[kept[l].array][i] = memory[kept[l].array][i]
  BY <1>1, <1>3, <1>4, PathGrows
<1>8. KeptOK(path.heap, cell)
  <2>1. path.slice \in Slices
    BY <1>7 DEF Fits
  <2>2. cell \in KeptCells /\ cell.path = path.slice /\ cell.chain = chain
    BY <2>1, <1>4, <1>6 DEF KeptCells
  <2>3. cell.leaf = Last(cell.chain)
    <3>1. PICK n \in Nat : n = Len(top.chain)
      BY <1>6
    <3>2. Len(chain) = n + 1 /\ chain[n + 1] = f
      <4> HIDE DEF f
      <4> QED BY <1>4, <1>6, <3>1, AppendProperties
    <3> HIDE DEF chain, f, path
    <3> QED BY <3>2 DEF Last
  <2> HIDE DEF cell, path, chain, f
  <2> QED BY <2>2, <2>3, <1>6, <1>7 DEF KeptOK
<1>9. WalkInv(path.heap, now, kept)
  <2>1. WalkInv(path.heap, rest, kept) /\ Len(rest) = Len(stack)
    BY <1>1, <1>7, WalkOn
  <2>2. CASE f.message = NoMessage
    BY <2>1, <2>2
  <2>3. CASE f.message # NoMessage
    <3>1. f.message \in Messages
      BY <2>3, <1>5
    <3> HIDE DEF path, chain, f, rest
    <3>2. WalkInv(path.heap, Append(rest, Frame(f.message, path.slice, chain)), kept)
      BY <2>1, <3>1, <1>6, <1>7, WalkDown
    <3> QED BY <2>3, <3>2
  <2> QED BY <2>2, <2>3
<1>10. /\ WalkInv(keep.heap, now, longer)
       /\ Grows(path.heap, keep.heap)
       /\ \A l \in Lists : \A i \in 1 .. kept[l].len :
            keep.heap[longer[l].array][i]
            = path.heap[kept[l].array][i]
       /\ f \notin wanted => keep.slice = kept[list]
       /\ f \in wanted => /\ keep.slice.len = kept[list].len + 1
                          /\ keep.heap[keep.slice.array][kept[list].len + 1] = cell
  <2>1. IsHeap(path.heap) /\ Sound(path.heap, kept[list]) /\ kept \in [Lists -> Slices]
    BY <1>7 DEF WalkInv, KeptInv
  <2>2. CASE f \notin wanted
    <3>1. keep = [heap |-> path.heap, slice |-> kept[list]]
      BY <2>1, <2>2, AppendNothing
    <3>2. keep.heap = path.heap /\ longer = kept
          /\ keep.slice = kept[list]
      BY <2>1, <3>1
    <3>3. Grows(path.heap, path.heap)
      BY <2>1 DEF Grows, IsHeap
    <3> HIDE DEF keep, path, now
    <3> QED BY <2>2, <3>2, <3>3, <1>9
  <2>3. CASE f \in wanted
    <3>1. keep = AppendTo(path.heap, kept[list], <<cell>>)
      BY <2>3
    <3> HIDE DEF keep, path, now, cell
    <3>2. /\ Appended(path.heap, kept[list], <<cell>>, keep)
          /\ keep.slice.array = kept[list].array \/ keep.slice.array = Len(path.heap) + 1
      BY <2>1, <3>1, AppendOne DEF InNewArray
    <3>3. NoList(kept, cell.path)
      BY <1>7 DEF cell
    <3>4. /\ WalkInv(keep.heap, now, longer)
          /\ \A l \in Lists : \A i \in 1 .. kept[l].len :
               keep.heap[longer[l].array][i]
               = path.heap[kept[l].array][i]
          /\ keep.slice.len = kept[list].len + 1
          /\ keep.heap[keep.slice.array][kept[list].len + 1] = cell
      <4>1. WalkInv(path.heap, now, kept) /\ KeptOK(path.heap, cell)
        BY <1>8, <1>9
      <4> HIDE DEF Lists
      <4> QED BY <3>2, <3>3, <4>1, KeepAppends
    <3> QED BY <2>3, <3>2, <3>4 DEF Appended
  <2> QED BY <2>2, <2>3
<1>11. Grows(memory, keep.heap)
  <2>1. IsHeap(memory) /\ IsHeap(path.heap) /\ IsHeap(keep.heap)
    BY <1>7, <1>10 DEF WalkInv
  <2> HIDE DEF keep, path
  <2>2. Len(memory) \in Nat /\ Len(path.heap) \in Nat /\ Len(keep.heap) \in Nat
    BY <2>1 DEF IsHeap
  <2> QED BY <2>2, <1>7, <1>10 DEF Grows
<1> HIDE DEF keep, now, path, cell, chain, f
<1>12. cell.chain = chain /\ kept \in [Lists -> Slices]
  BY DEF WalkInv, KeptInv, cell
<1>13. /\ kept' = longer /\ longer[list] = keep.slice /\ memory' = keep.heap
       /\ \A l \in Lists : l # list => longer[l] = kept[l]
  BY <1>1, <1>12
<1> HIDE DEF longer
<1>14. /\ f \notin wanted => keep.slice = kept[list]
       /\ f \in wanted => /\ keep.slice.len = kept[list].len + 1
                          /\ keep.heap[keep.slice.array][kept[list].len + 1] = cell
  BY <1>10
<1>15. \A l \in Lists : \A i \in 1 .. kept[l].len :
         keep.heap[longer[l].array][i] = path.heap[kept[l].array][i]
  BY <1>10
<1>16. \A l \in Lists : \A i \in 1 .. kept[l].len :
         path.heap[kept[l].array][i] = memory[kept[l].array][i]
  BY <1>7
<1>17. ASSUME NEW l \in Lists, NEW i \in 1 .. kept[l].len
       PROVE  memory'[kept'[l].array][i] = memory[kept[l].array][i]
  BY <1>13, <1>15, <1>16
<1>18. ASSUME NEW l \in Lists, l # list \/ f \notin wanted PROVE kept'[l].len = kept[l].len
  BY <1>13, <1>14, <1>18
<1>19. ASSUME f \in wanted
       PROVE  /\ kept'[list].len = kept[list].len + 1
              /\ memory'[kept'[list].array][kept[list].len + 1].chain = chain
  BY <1>12, <1>13, <1>14, <1>19
<1> QED BY <1>1, <1>10, <1>11, <1>17, <1>18, <1>19 DEF chain, f, longer

-----------------------------------------------------------------------------
(***************************************************************************)
(* Tie breakers are a sequence.                                            *)
(***************************************************************************)
LEMMA LeastNatural ==
  ASSUME NEW S \in SUBSET Nat, S # {}
  PROVE  \E i \in S : \A j \in S : i <= j
<1> DEFINE less == {ss \in Nat \X Nat : ss[1] < ss[2]}
<1>1. IsWellFoundedOn(less, Nat)
  <2>1. OpToRel(<, Nat) = less
    BY DEF OpToRel
  <2> QED BY <2>1, NatLessThanWellFounded
<1>2. PICK i \in S : \A j \in S : ~(<<j, i>> \in less)
  <2> HIDE DEF less
  <2> QED BY <1>1, WFMin
<1>3. \A j \in S : ~(j < i)
  BY <1>2
<1> QED BY <1>3

FlattenTo(seqs, f, n) ==
  f = [i \in 1 .. n |-> IF i = 1 THEN seqs[i] ELSE f[i - 1] \o seqs[i]]

LEMMA FlattenExists ==
  ASSUME NEW n \in Nat, NEW seqs
  PROVE  \E f : FlattenTo(seqs, f, n)
<1> DEFINE S == {m \in Nat : ~ \E f : FlattenTo(seqs, f, m)}
<1>1. SUFFICES ASSUME S # {} PROVE FALSE
  OBVIOUS
<1>2. PICK m \in S : \A j \in S : m <= j
  BY <1>1, LeastNatural
<1>3. m # 0
  <2>1. FlattenTo(seqs, [i \in 1 .. 0 |-> 0], 0)
    BY DEF FlattenTo
  <2> QED BY <2>1
<1>4. PICK f : FlattenTo(seqs, f, m - 1)
  BY <1>2, <1>3
<1> DEFINE g == [i \in 1 .. m |-> IF i = 1 THEN seqs[i] ELSE f[i - 1] \o seqs[i]]
<1>5. m \in Nat /\ \A i \in 1 .. m - 1 : f[i] = IF i = 1 THEN seqs[i] ELSE f[i - 1] \o seqs[i]
  BY <1>2, <1>4 DEF FlattenTo
<1>6. \A i \in 1 .. m : g[i] = IF i = 1 THEN seqs[i] ELSE g[i - 1] \o seqs[i]
  <2> SUFFICES ASSUME NEW i \in 1 .. m
               PROVE  g[i] = IF i = 1 THEN seqs[i] ELSE g[i - 1] \o seqs[i]
    OBVIOUS
  <2>1. CASE i = 1
    BY <2>1
  <2>2. CASE i # 1
    <3>1. i - 1 \in 1 .. m /\ i - 1 \in 1 .. m - 1
      BY <1>5, <2>2
    <3>2. g[i - 1] = f[i - 1]
      BY <1>5, <3>1
    <3> QED BY <2>2, <3>2
  <2> QED BY <2>1, <2>2
<1>7. FlattenTo(seqs, g, m)
  BY <1>6 DEF FlattenTo
<1> QED BY <1>7

LEMMA FlattenType ==
  ASSUME NEW S, NEW seqs \in Seq(Seq(S))
  PROVE  FlattenSeq(seqs) \in Seq(S)
<1>1. CASE Len(seqs) = 0
  BY <1>1 DEF FlattenSeq
<1>2. CASE Len(seqs) # 0
  <2> DEFINE f == CHOOSE f : FlattenTo(seqs, f, Len(seqs))
  <2>1. FlattenTo(seqs, f, Len(seqs))
    BY FlattenExists
  <2>2. FlattenSeq(seqs) = f[Len(seqs)]
    BY <1>2 DEF FlattenSeq, FlattenTo
  <2> HIDE DEF f
  <2>3. PICK len \in Nat : len = Len(seqs) /\ len >= 1
    BY <1>2
  <2>4. \A i \in 1 .. len : f[i] = IF i = 1 THEN seqs[i] ELSE f[i - 1] \o seqs[i]
    BY <2>1, <2>3 DEF FlattenTo
  <2>5. \A i \in 1 .. len : seqs[i] \in Seq(S)
    BY <2>3
  <2> DEFINE bad == {m \in 1 .. len : f[m] \notin Seq(S)}
  <2>6. bad = {}
    <3>1. SUFFICES ASSUME bad # {} PROVE FALSE
      OBVIOUS
    <3>2. PICK m \in bad : \A j \in bad : m <= j
      <4>1. bad \in SUBSET Nat
        OBVIOUS
      <4> QED BY <3>1, <4>1, LeastNatural
    <3>3. m # 1
      BY <2>4, <2>5
    <3>4. m - 1 \in 1 .. len /\ m - 1 < m
      BY <3>3
    <3>5. f[m - 1] \in Seq(S)
      BY <3>2, <3>4
    <3>6. f[m] = f[m - 1] \o seqs[m]
      BY <2>4, <3>3
    <3> QED BY <2>5, <3>5, <3>6, ConcatProperties
  <2> QED BY <2>2, <2>3, <2>6
<1> QED BY <1>1, <1>2

LEMMA TiesAreSequence ==
  ASSUME plan \in Plans
  PROVE  \E S : TieBreakers \in Seq(S) /\ \A tie \in S : "nodes" \in DOMAIN tie
<1>1. plan.ties \in Seq(Range(plan.ties)) /\ plan.properties \in Seq(Range(plan.properties))
  BY PlansAssumption
<1>2. CASE plan.ties # <<>>
  <2> DEFINE Tie(i) == [column |-> FALSE, nodes |-> NewProtoPath(plan.root, plan.ties[i]).nodes]
             S == {Tie(i) : i \in DOMAIN plan.ties}
  <2>1. TieBreakers = [i \in DOMAIN plan.ties |-> Tie(i)]
    BY <1>2 DEF TieBreakers
  <2>2. PICK n \in Nat : DOMAIN plan.ties = 1 .. n
    BY <1>1
  <2>3. \A i \in 1 .. n : Tie(i) \in S
    BY <2>2
  <2>4. \A tie \in S : "nodes" \in DOMAIN tie
    OBVIOUS
  <2> HIDE DEF Tie, S
  <2>5. TieBreakers \in Seq(S)
    BY <2>1, <2>2, <2>3
  <2> QED BY <2>4, <2>5
<1>3. CASE plan.ties = <<>>
  <2> DEFINE Tie(p) == [column |-> TRUE,
                        nodes |-> NewProtoPath(plan.root, <<"keys", p.name>>).nodes]
             S == {Tie(p) : p \in Range(plan.properties)}
             Each(p) == IF p.primary THEN << Tie(p) >> ELSE <<>>
             all == [i \in DOMAIN plan.properties |-> Each(plan.properties[i])]
  <2>1. TieBreakers = FlattenSeq(all)
    BY <1>3 DEF TieBreakers
  <2>2. PICK n \in Nat : DOMAIN plan.properties = 1 .. n
    BY <1>1
  <2>3. ASSUME NEW i \in 1 .. n PROVE Each(plan.properties[i]) \in Seq(S)
    <3>1. plan.properties[i] \in Range(plan.properties)
      BY <2>2 DEF Range
    <3>2. Tie(plan.properties[i]) \in S
      BY <3>1
    <3> HIDE DEF Tie, S
    <3> QED BY <3>2
  <2>4. all \in Seq(Seq(S))
    <3> HIDE DEF Each, S
    <3> QED BY <2>2, <2>3
  <2>5. TieBreakers \in Seq(S)
    <3> HIDE DEF all, S
    <3> QED BY <2>1, <2>4, FlattenType
  <2>6. \A tie \in S : "nodes" \in DOMAIN tie
    <3>1. \A p : "nodes" \in DOMAIN Tie(p)
      OBVIOUS
    <3> HIDE DEF Tie
    <3> QED BY <3>1
  <2> HIDE DEF S
  <2> QED BY <2>5, <2>6
<1> QED BY <1>2, <1>3

-----------------------------------------------------------------------------
(* What the recursion of ChainsFrom makes of a message. *)
Below(chains, f) == IF f.message = NoMessage THEN <<>> ELSE chains[f.message]

Block(f, below) == << <<f>> >> \o [j \in DOMAIN below |-> <<f>> \o below[j]]

Unfold(chains, m) ==
  FlattenSeq([i \in DOMAIN FieldsOf[m] |->
                Block(FieldsOf[m][i], Below(chains, FieldsOf[m][i]))])

(* What that of validateSortsAnnotations makes of it. *)
SortsIn(sorted, m) ==
  \A f \in FieldSet(m) :
    IF f.message = NoMessage THEN f.list => ~SortAnnotated(f)
    ELSE \A g \in FieldSet(f.message) :
           IF g.message # NoMessage THEN sorted[g.message]
           ELSE f.list => ~SortAnnotated(g)

(* What that of validateSearchesAnnotations makes of it. *)
Identified(valids, id, f) ==
  IF IsSearchable(f) THEN [valid |-> id[f] # NoIdentifier, ids |-> {id[f]}]
  ELSE IF f.message # NoMessage THEN valids[f.message]
  ELSE [valid |-> TRUE, ids |-> {}]

Identify(valids, id, m) ==
  [valid |-> \A f \in FieldSet(m) :
               /\ Identified(valids, id, f).valid
               /\ \A g \in FieldSet(m) \ {f} :
                    Compared(f, g) =>
                      Identified(valids, id, f).ids \cap Identified(valids, id, g).ids = {},
   ids |-> UNION {Identified(valids, id, f).ids : f \in FieldSet(m)}]

(* What the recursions over filters make of a filter: the check of it,     *)
(* whether it can be built, whether it says nothing, whether a row         *)
(* satisfies it, the rows it means, and whether the code is able to        *)
(* compare what it asks for.                                               *)
Checked(checks, m, f) ==
  IF f.is = "field" THEN CheckFieldFilter(m, NewJSONPath(m, f.field), f)
  ELSE IF f.filters = <<>> THEN "ok" ELSE checks[f.filters[1]]

Built(builds, m, f) ==
  IF f.is # "field" THEN \A i \in DOMAIN f.filters : builds[f.filters[i]]
  ELSE LET path == NewJSONPath(m, f.field)
       IN  path.nodes # <<>> /\ (LeadsToField(path) \/ f.type = "value")

Silenced(silent, f) ==
  IF f.is = "field" THEN Unbounded(f)
  ELSE \A i \in DOMAIN f.filters : silent[f.filters[i]]

Held(holds, m, row, f) ==
  \/ SaysNothing(f)
  \/ IF f.is = "field" THEN Meets(NewJSONPath(m, f.field), row, f)
     ELSE IF f.is = "and" THEN \A i \in DOMAIN f.filters : holds[f.filters[i]]
     ELSE \E i \in DOMAIN f.filters : ~SaysNothing(f.filters[i]) /\ holds[f.filters[i]]

MeaningOf(rows, f) ==
  LET within == {rows[g] : g \in Range(f.filters)}
  IN  IF f.is = "field" THEN FilterMeans(f)
      ELSE IF f.is = "and" THEN {row \in plan.states : \A some \in within : row \in some}
      ELSE UNION within

ComparableOf(compares, f) ==
  IF f.is = "field" THEN ComparableField(f)
  ELSE /\ \A i \in DOMAIN f.filters : compares[f.filters[i]]
       /\ f.is = "or" => /\ f.filters # <<>>
                         /\ \A i \in DOMAIN f.filters : ~SaysNothing(f.filters[i])

(* All of them are recursive over what has a number, less ones first.      *)
Chaining        == [is |-> "chains"]
Sorted          == [is |-> "sorts"]
Identifying(id) == [is |-> "identifiers", id |-> id]
Checking(m)     == [is |-> "checks", root |-> m]
Building(m)     == [is |-> "builds", root |-> m]
Silencing       == [is |-> "silent"]
Holding(m, row) == [is |-> "holds", root |-> m, row |-> row]
Meaning         == [is |-> "rows"]
Comparing       == [is |-> "compares"]

OverMessages(of) == of.is \in {"chains", "sorts", "identifiers"}
Elements(of)     == IF OverMessages(of) THEN Messages ELSE FilterTrees
NumberOf(of, x)  == IF OverMessages(of) THEN Nesting[x] ELSE FilterDepth[x]

Step(of, values, x) ==
  CASE of.is = "chains"      -> Unfold(values, x)
    [] of.is = "sorts"       -> SortsIn(values, x)
    [] of.is = "identifiers" -> Identify(values, of.id, x)
    [] of.is = "checks"      -> Checked(values, of.root, x)
    [] of.is = "silent"      -> Silenced(values, x)
    [] of.is = "holds"       -> Held(values, of.root, of.row, x)
    [] of.is = "rows"        -> MeaningOf(values, x)
    [] of.is = "compares"    -> ComparableOf(values, x)
    [] OTHER                 -> Built(values, of.root, x)

Shallow(of, n) == {x \in Elements(of) : NumberOf(of, x) < n}

Recursion(of, values, S) == values = [x \in S |-> Step(of, values, x)]

LEMMA NumbersNat ==
  ASSUME NEW of
  PROVE  \A x \in Elements(of) : NumberOf(of, x) \in Nat /\ NumberOf(of, x) + 1 \in Nat
<1>1. CASE OverMessages(of)
  <2>1. \A m \in Messages : Nesting[m] \in Nat
    BY PathsAssumption
  <2> QED BY <1>1, <2>1 DEF Elements, NumberOf
<1>2. CASE ~OverMessages(of)
  <2>1. \A f \in FilterTrees : FilterDepth[f] \in Nat
    BY FilterTreesAssumption
  <2> QED BY <1>2, <2>1 DEF Elements, NumberOf
<1> QED BY <1>1, <1>2

LEMMA UnfoldsAlike ==
  ASSUME NEW m \in Messages, NEW one, NEW other,
         \A f \in FieldSet(m) : f.message # NoMessage => one[f.message] = other[f.message]
  PROVE  Unfold(one, m) = Unfold(other, m)
<1>1. \A i \in DOMAIN FieldsOf[m] : FieldsOf[m][i] \in FieldSet(m)
  BY DEF FieldSet, Range
<1>2. \A i \in DOMAIN FieldsOf[m] : Below(one, FieldsOf[m][i]) = Below(other, FieldsOf[m][i])
  BY <1>1 DEF Below
<1>3. [i \in DOMAIN FieldsOf[m] |-> Block(FieldsOf[m][i], Below(one, FieldsOf[m][i]))]
      = [i \in DOMAIN FieldsOf[m] |-> Block(FieldsOf[m][i], Below(other, FieldsOf[m][i]))]
  BY <1>2
<1> QED BY <1>3 DEF Unfold

LEMMA IdentifiesAlike ==
  ASSUME NEW m \in Messages, NEW one, NEW other, NEW id,
         \A f \in FieldSet(m) : f.message # NoMessage => one[f.message] = other[f.message]
  PROVE  Identify(one, id, m) = Identify(other, id, m)
<1>1. \A f \in FieldSet(m) : Identified(one, id, f) = Identified(other, id, f)
  BY DEF Identified
<1>2. {Identified(one, id, f).ids : f \in FieldSet(m)}
      = {Identified(other, id, f).ids : f \in FieldSet(m)}
  BY <1>1
<1>3. (\A f \in FieldSet(m) :
         /\ Identified(one, id, f).valid
         /\ \A g \in FieldSet(m) \ {f} :
              Compared(f, g) =>
                Identified(one, id, f).ids \cap Identified(one, id, g).ids = {})
      = (\A f \in FieldSet(m) :
           /\ Identified(other, id, f).valid
           /\ \A g \in FieldSet(m) \ {f} :
                Compared(f, g) =>
                  Identified(other, id, f).ids \cap Identified(other, id, g).ids = {})
  BY <1>1
<1> QED BY <1>2, <1>3 DEF Identify

LEMMA FieldNests ==
  ASSUME NEW m \in Messages, NEW f \in FieldSet(m), f.message # NoMessage
  PROVE  /\ f.message \in Messages /\ Nesting[m] \in Nat /\ Nesting[f.message] \in Nat
         /\ Nesting[f.message] < Nesting[m]
<1>1. f \in FieldRefs
  BY DEF FieldRefs
<1> QED BY <1>1, PathsAssumption

LEMMA SortsAlike ==
  ASSUME NEW m \in Messages, NEW one, NEW other,
         \A a \in Messages : Nesting[a] < Nesting[m] => one[a] = other[a]
  PROVE  SortsIn(one, m) = SortsIn(other, m)
<1>1. ASSUME NEW f \in FieldSet(m), f.message # NoMessage,
             NEW g \in FieldSet(f.message), g.message # NoMessage
      PROVE  one[g.message] = other[g.message]
  <2>1. /\ f.message \in Messages /\ Nesting[m] \in Nat /\ Nesting[f.message] \in Nat
        /\ Nesting[f.message] < Nesting[m]
    BY <1>1, FieldNests
  <2>2. /\ g.message \in Messages /\ Nesting[g.message] \in Nat
        /\ Nesting[g.message] < Nesting[f.message]
    BY <1>1, <2>1, FieldNests
  <2>3. PICK i \in Nat, j \in Nat, k \in Nat :
          i = Nesting[g.message] /\ j = Nesting[f.message] /\ k = Nesting[m]
    BY <2>1, <2>2
  <2>4. i < k
    BY <2>1, <2>2, <2>3
  <2> QED BY <2>2, <2>3, <2>4
<1>2. SortsIn(one, m) <=> SortsIn(other, m)
  BY <1>1 DEF SortsIn
<1> QED BY <1>2 DEF SortsIn

LEMMA FilterParts ==
  ASSUME NEW f \in FilterTrees, f.is # "field"
  PROVE  \A i \in DOMAIN f.filters :
           f.filters[i] \in FilterTrees /\ FilterDepth[f.filters[i]] < FilterDepth[f]
<1>1. f.filters \in Seq(FilterTrees)
  BY FilterTreesAssumption
<1>2. \A i \in DOMAIN f.filters : f.filters[i] \in FilterTrees
  BY <1>1
<1> QED BY <1>2, FilterTreesAssumption

(* A step looks only at what has a smaller number. *)
LEMMA StepsAlike ==
  ASSUME NEW of, NEW x \in Elements(of), NEW one, NEW other,
         \A y \in Elements(of) : NumberOf(of, y) < NumberOf(of, x) => one[y] = other[y]
  PROVE  Step(of, one, x) = Step(of, other, x)
<1>1. CASE OverMessages(of)
  <2>1. x \in Messages
    BY <1>1 DEF Elements
  <2>2. ASSUME NEW f \in FieldSet(x), f.message # NoMessage
        PROVE  one[f.message] = other[f.message]
    <3>1. f.message \in Messages /\ Nesting[f.message] < Nesting[x]
      BY <2>1, <2>2, FieldNests
    <3> QED BY <1>1, <3>1 DEF Elements, NumberOf
  <2>3. Unfold(one, x) = Unfold(other, x)
    BY <2>1, <2>2, UnfoldsAlike
  <2>4. Identify(one, of.id, x) = Identify(other, of.id, x)
    BY <2>1, <2>2, IdentifiesAlike
  <2>5. SortsIn(one, x) = SortsIn(other, x)
    BY <1>1, <2>1, SortsAlike DEF Elements, NumberOf
  <2> QED BY <1>1, <2>3, <2>4, <2>5 DEF Step, OverMessages
<1>2. CASE ~OverMessages(of)
  <2>1. x \in FilterTrees
    BY <1>2 DEF Elements
  <2>2. ASSUME x.is # "field", NEW i \in DOMAIN x.filters
        PROVE  one[x.filters[i]] = other[x.filters[i]]
    <3>1. x.filters[i] \in FilterTrees /\ FilterDepth[x.filters[i]] < FilterDepth[x]
      BY <2>1, <2>2, FilterParts
    <3> QED BY <1>2, <3>1 DEF Elements, NumberOf
  <2>3. Built(one, of.root, x) = Built(other, of.root, x)
    BY <2>2 DEF Built
  <2>4. Checked(one, of.root, x) = Checked(other, of.root, x)
    <3>1. x.is # "field" => x.filters \in Seq(FilterTrees)
      BY <2>1, FilterTreesAssumption
    <3>2. x.is # "field" /\ x.filters # <<>> => 1 \in DOMAIN x.filters
      BY <3>1, EmptySeq
    <3> QED BY <2>2, <3>2 DEF Checked
  <2>5. Held(one, of.root, of.row, x) = Held(other, of.root, of.row, x)
    BY <2>2 DEF Held
  <2>6. MeaningOf(one, x) = MeaningOf(other, x)
    <3>1. CASE x.is = "field"
      BY <3>1 DEF MeaningOf
    <3>2. CASE x.is # "field"
      <4>1. \A g \in Range(x.filters) : one[g] = other[g]
        BY <2>2, <3>2 DEF Range
      <4>2. {one[g] : g \in Range(x.filters)} = {other[g] : g \in Range(x.filters)}
        BY <4>1
      <4> QED BY <3>2, <4>2 DEF MeaningOf
    <3> QED BY <3>1, <3>2
  <2>7. ComparableOf(one, x) = ComparableOf(other, x)
    BY <2>2 DEF ComparableOf
  <2>8. Silenced(one, x) = Silenced(other, x)
    BY <2>2 DEF Silenced
  <2> QED BY <1>2, <2>3, <2>4, <2>5, <2>6, <2>7, <2>8 DEF Step, OverMessages
<1> QED BY <1>1, <1>2

LEMMA RecursionsAgree ==
  ASSUME NEW of, NEW n \in Nat, NEW k \in Nat, NEW one, NEW other,
         Recursion(of, one, Shallow(of, n)), Recursion(of, other, Shallow(of, k)),
         NEW x \in Shallow(of, n) \cap Shallow(of, k)
  PROVE  one[x] = other[x]
<1> DEFINE bad == {d \in Nat : \E a \in Shallow(of, n) \cap Shallow(of, k) :
                                  NumberOf(of, a) = d /\ one[a] # other[a]}
<1>1. SUFFICES ASSUME bad # {} PROVE FALSE
  BY NumbersNat DEF Shallow
<1>2. PICK d \in bad : \A e \in bad : d <= e
  <2>1. bad \in SUBSET Nat
    OBVIOUS
  <2> HIDE DEF bad
  <2> QED BY <1>1, <2>1, LeastNatural
<1>3. PICK a \in Shallow(of, n) \cap Shallow(of, k) : NumberOf(of, a) = d /\ one[a] # other[a]
  OBVIOUS
<1>4. /\ a \in Elements(of) /\ NumberOf(of, a) < n /\ NumberOf(of, a) < k
      /\ one[a] = Step(of, one, a) /\ other[a] = Step(of, other, a)
  BY <1>3 DEF Recursion, Shallow
<1>5. ASSUME NEW y \in Elements(of), NumberOf(of, y) < NumberOf(of, a) PROVE one[y] = other[y]
  <2>1. PICK e \in Nat : e = NumberOf(of, y) /\ e < d
    BY <1>3, <1>5, NumbersNat
  <2>2. y \in Shallow(of, n) \cap Shallow(of, k)
    BY <1>3, <1>4, <2>1 DEF Shallow
  <2>3. e \notin bad
    BY <1>2, <2>1
  <2> QED BY <2>1, <2>2, <2>3
<1> QED BY <1>3, <1>4, <1>5, StepsAlike

LEMMA RecursionExists ==
  ASSUME NEW of, NEW n \in Nat
  PROVE  \E values : Recursion(of, values, Shallow(of, n))
<1> DEFINE bad == {k \in Nat : ~ \E values : Recursion(of, values, Shallow(of, k))}
<1>1. SUFFICES ASSUME bad # {} PROVE FALSE
  OBVIOUS
<1>2. PICK k \in bad : \A j \in bad : k <= j
  <2>1. bad \in SUBSET Nat
    OBVIOUS
  <2> HIDE DEF bad
  <2> QED BY <1>1, <2>1, LeastNatural
<1>3. k # 0
  <2>1. Shallow(of, 0) = {}
    BY NumbersNat DEF Shallow
  <2>2. Recursion(of, [x \in {} |-> 0], Shallow(of, 0))
    BY <2>1 DEF Recursion
  <2> QED BY <2>2
<1>4. PICK values : Recursion(of, values, Shallow(of, k - 1))
  BY <1>2, <1>3
<1> DEFINE more == [x \in Shallow(of, k) |-> Step(of, values, x)]
<1>5. ASSUME NEW x \in Shallow(of, k) PROVE Step(of, values, x) = Step(of, more, x)
  <2>1. x \in Elements(of) /\ NumberOf(of, x) < k
    BY DEF Shallow
  <2>2. ASSUME NEW y \in Elements(of), NumberOf(of, y) < NumberOf(of, x)
        PROVE  values[y] = more[y]
    <3>1. PICK i \in Nat : i = NumberOf(of, y)
      BY NumbersNat
    <3>2. PICK j \in Nat : j = NumberOf(of, x) /\ i < j /\ j < k
      BY <2>1, <2>2, <3>1, NumbersNat
    <3>3. y \in Shallow(of, k) /\ y \in Shallow(of, k - 1)
      BY <3>1, <3>2 DEF Shallow
    <3> QED BY <3>3, <1>4 DEF Recursion
  <2> HIDE DEF more
  <2> QED BY <2>1, <2>2, StepsAlike
<1>6. Recursion(of, more, Shallow(of, k))
  BY <1>5 DEF Recursion
<1> QED BY <1>6

LEMMA WholeRecursion ==
  ASSUME NEW of
  PROVE  \E values : Recursion(of, values, Elements(of))
<1> DEFINE Upto(a) == CHOOSE values : Recursion(of, values, Shallow(of, NumberOf(of, a) + 1))
           all == [a \in Elements(of) |-> Upto(a)[a]]
<1>1. \A a \in Elements(of) : Recursion(of, Upto(a), Shallow(of, NumberOf(of, a) + 1))
  BY NumbersNat, RecursionExists
<1> HIDE DEF Upto
<1>2. ASSUME NEW a \in Elements(of) PROVE all[a] = Step(of, all, a)
  <2>1. PICK n \in Nat : n = NumberOf(of, a) + 1 /\ n - 1 \in Nat
    BY NumbersNat
  <2>2. a \in Shallow(of, n)
    BY <2>1, NumbersNat DEF Shallow
  <2>3. Upto(a)[a] = Step(of, Upto(a), a)
    BY <1>1, <2>1, <2>2 DEF Recursion
  <2>4. ASSUME NEW y \in Elements(of), NumberOf(of, y) < NumberOf(of, a)
        PROVE  Upto(a)[y] = all[y]
    <3>1. PICK k \in Nat : k = NumberOf(of, y) + 1 /\ k - 1 \in Nat
      BY NumbersNat
    <3>2. y \in Shallow(of, n) \cap Shallow(of, k)
      <4>1. NumberOf(of, y) \in Nat /\ NumberOf(of, a) \in Nat
        BY NumbersNat
      <4> QED BY <4>1, <2>1, <2>4, <3>1 DEF Shallow
    <3>3. Recursion(of, Upto(a), Shallow(of, n)) /\ Recursion(of, Upto(y), Shallow(of, k))
      BY <1>1, <2>1, <3>1
    <3>4. Upto(a)[y] = Upto(y)[y]
      BY <3>2, <3>3, RecursionsAgree
    <3> QED BY <3>4
  <2> HIDE DEF all
  <2>5. Step(of, Upto(a), a) = Step(of, all, a)
    BY <2>4, StepsAlike
  <2> QED BY <2>3, <2>5 DEF all
<1>3. all = [a \in Elements(of) |-> Step(of, all, a)]
  BY <1>2
<1> QED BY <1>3 DEF Recursion

LEMMA ChainsUnfold ==
  ASSUME NEW m \in Messages
  PROVE  ChainsFrom[m] = Unfold(ChainsFrom, m)
<1>1. \E chains : chains = [a \in Messages |-> Unfold(chains, a)]
  <2>1. Chaining.is = "chains" /\ Elements(Chaining) = Messages
    BY DEF Chaining, Elements, OverMessages
  <2>2. PICK chains : Recursion(Chaining, chains, Messages)
    BY <2>1, WholeRecursion
  <2>3. \A a \in Messages : Step(Chaining, chains, a) = Unfold(chains, a)
    BY <2>1 DEF Step
  <2> QED BY <2>2, <2>3 DEF Recursion
<1> DEFINE chosen == CHOOSE chains : chains = [a \in Messages |-> Unfold(chains, a)]
<1>2. chosen = [a \in Messages |-> Unfold(chosen, a)]
  BY <1>1
<1>3. ChainsFrom = [a \in Messages |-> chosen[a]]
  BY DEF ChainsFrom, Unfold, Block, Below
<1> HIDE DEF chosen
<1>4. ChainsFrom = chosen
  BY <1>2, <1>3
<1> QED BY <1>2, <1>4

LEMMA SortsUnfold ==
  ASSUME NEW m \in Messages
  PROVE  SortsAnnotated[m] = SortsIn(SortsAnnotated, m)
<1>1. \E sorted : sorted = [a \in Messages |-> SortsIn(sorted, a)]
  <2>1. Sorted.is = "sorts" /\ Elements(Sorted) = Messages
    BY DEF Sorted, Elements, OverMessages
  <2>2. PICK sorted : Recursion(Sorted, sorted, Messages)
    BY <2>1, WholeRecursion
  <2>3. \A a \in Messages : Step(Sorted, sorted, a) = SortsIn(sorted, a)
    BY <2>1 DEF Step
  <2> QED BY <2>2, <2>3 DEF Recursion
<1> DEFINE chosen == CHOOSE sorted : sorted = [a \in Messages |-> SortsIn(sorted, a)]
<1>2. chosen = [a \in Messages |-> SortsIn(chosen, a)]
  BY <1>1
<1>3. SortsAnnotated = chosen
  BY DEF SortsAnnotated, SortsIn
<1> HIDE DEF chosen
<1> QED BY <1>2, <1>3

LEMMA IdentifiersUnfold ==
  ASSUME NEW id, NEW m \in Messages
  PROVE  SearchIdentifiers(id)[m] = Identify(SearchIdentifiers(id), id, m)
<1>1. \E valids : valids = [a \in Messages |-> Identify(valids, id, a)]
  <2>1. /\ Identifying(id).is = "identifiers" /\ Identifying(id).id = id
        /\ Elements(Identifying(id)) = Messages
    BY DEF Identifying, Elements, OverMessages
  <2>2. PICK valids : Recursion(Identifying(id), valids, Messages)
    BY <2>1, WholeRecursion
  <2>3. \A a \in Messages : Step(Identifying(id), valids, a) = Identify(valids, id, a)
    BY <2>1 DEF Step
  <2> QED BY <2>2, <2>3 DEF Recursion
<1> DEFINE chosen == CHOOSE valids : valids = [a \in Messages |-> Identify(valids, id, a)]
<1>2. chosen = [a \in Messages |-> Identify(chosen, id, a)]
  BY <1>1
<1>3. SearchIdentifiers(id) = chosen
  BY DEF SearchIdentifiers, Identify, Identified
<1> HIDE DEF chosen
<1> QED BY <1>2, <1>3

-----------------------------------------------------------------------------
(* A sequence of sequences, flattened, with one more at its end. *)
LEMMA FlattenMore ==
  ASSUME NEW S, NEW seqs \in Seq(Seq(S)), NEW x \in Seq(S)
  PROVE  FlattenSeq(Append(seqs, x)) = FlattenSeq(seqs) \o x
<1>1. PICK n \in Nat : n = Len(seqs)
  OBVIOUS
<1>2. PICK more \in Seq(Seq(S)) : /\ more = Append(seqs, x) /\ Len(more) = n + 1
                                  /\ more[n + 1] = x /\ \A i \in 1 .. n : more[i] = seqs[i]
  <2> DEFINE T == Seq(S)
  <2>1. seqs \in Seq(T) /\ x \in T
    OBVIOUS
  <2> HIDE DEF T
  <2>2. /\ Append(seqs, x) \in Seq(T) /\ Len(Append(seqs, x)) = n + 1
        /\ Append(seqs, x)[n + 1] = x /\ \A i \in 1 .. n : Append(seqs, x)[i] = seqs[i]
    BY <1>1, <2>1, AppendProperties
  <2> QED BY <2>2 DEF T
<1> DEFINE f == CHOOSE h : FlattenTo(more, h, n + 1)
           g == CHOOSE h : FlattenTo(seqs, h, n)
<1>3. FlattenTo(more, f, n + 1) /\ FlattenSeq(more) = f[n + 1]
  <2>1. FlattenTo(more, f, n + 1)
    BY FlattenExists
  <2>2. Len(more) # 0 /\ Len(more) = n + 1
    BY <1>2
  <2> QED BY <2>1, <2>2 DEF FlattenSeq, FlattenTo
<1> HIDE DEF f
<1>4. \A i \in 1 .. n + 1 : f[i] = IF i = 1 THEN more[i] ELSE f[i - 1] \o more[i]
  BY <1>3 DEF FlattenTo
<1>5. CASE n = 0
  <2>1. seqs = <<>>
    BY <1>1, <1>5, EmptySeq
  <2>2. FlattenSeq(seqs) = <<>>
    BY <2>1 DEF FlattenSeq
  <2>3. f[1] = x
    BY <1>2, <1>4, <1>5
  <2> QED BY <1>2, <1>3, <1>5, <2>2, <2>3
<1>6. CASE n # 0
  <2>1. FlattenTo(seqs, g, n) /\ FlattenSeq(seqs) = g[n]
    <3>1. FlattenTo(seqs, g, n)
      BY FlattenExists
    <3> QED BY <3>1, <1>1, <1>6 DEF FlattenSeq, FlattenTo
  <2> HIDE DEF g
  <2>2. \A i \in 1 .. n : g[i] = IF i = 1 THEN seqs[i] ELSE g[i - 1] \o seqs[i]
    BY <2>1 DEF FlattenTo
  <2> DEFINE bad == {i \in 1 .. n : f[i] # g[i]}
  <2>3. bad = {}
    <3>1. SUFFICES ASSUME bad # {} PROVE FALSE
      OBVIOUS
    <3>2. PICK i \in bad : \A j \in bad : i <= j
      <4>1. bad \in SUBSET Nat
        OBVIOUS
      <4> HIDE DEF bad
      <4> QED BY <3>1, <4>1, LeastNatural
    <3>3. i \in 1 .. n /\ f[i] # g[i]
      BY <3>2
    <3>4. i # 1
      BY <3>3, <1>2, <1>4, <2>2
    <3>5. i - 1 \in 1 .. n /\ f[i - 1] = g[i - 1]
      BY <3>2, <3>3, <3>4
    <3> QED BY <3>3, <3>4, <3>5, <1>2, <1>4, <2>2
  <2>4. n \in 1 .. n /\ n + 1 \in 1 .. n + 1 /\ n + 1 # 1
    BY <1>6
  <2>5. f[n + 1] = f[n] \o x
    <3>1. f[n + 1] = f[(n + 1) - 1] \o more[n + 1]
      BY <2>4, <1>4
    <3>2. (n + 1) - 1 = n /\ more[n + 1] = x
      BY <1>2
    <3> QED BY <3>1, <3>2
  <2>6. f[n] = g[n]
    BY <2>3, <2>4
  <2> QED BY <1>2, <1>3, <2>1, <2>5, <2>6
<1> QED BY <1>5, <1>6

-----------------------------------------------------------------------------
(* Chains below a chain. *)
Chains == Seq(FieldRefs)

Under(chain, chains) == [j \in DOMAIN chains |-> chain \o chains[j]]

LEMMA ConcatIs ==
  ASSUME NEW S, NEW a \in Seq(S), NEW b \in Seq(S), NEW c \in Seq(S),
         Len(c) = Len(a) + Len(b),
         \A i \in 1 .. Len(a) : c[i] = a[i], \A i \in 1 .. Len(b) : c[Len(a) + i] = b[i]
  PROVE  c = a \o b
<1>1. PICK n \in Nat : n = Len(a)
  OBVIOUS
<1>2. PICK k \in Nat : k = Len(b)
  OBVIOUS
<1>3. a \o b \in Seq(S) /\ Len(a \o b) = n + k /\ Len(c) = n + k
  BY <1>1, <1>2, ConcatProperties
<1>4. ASSUME NEW i \in 1 .. n + k PROVE c[i] = (a \o b)[i]
  <2>1. (a \o b)[i] = IF i <= n THEN a[i] ELSE b[i - n]
    BY <1>1, <1>2, ConcatProperties
  <2>2. CASE i <= n
    <3>1. i \in 1 .. n
      BY <2>2
    <3> QED BY <2>1, <2>2, <3>1, <1>1
  <2>3. CASE ~(i <= n)
    <3>1. i - n \in 1 .. k /\ n + (i - n) = i
      BY <2>3
    <3>2. c[n + (i - n)] = b[i - n]
      BY <3>1, <1>1, <1>2
    <3> QED BY <2>1, <2>3, <3>1, <3>2
  <2> QED BY <2>2, <2>3
<1> QED BY <1>3, <1>4, SeqEqual

LEMMA UnderType ==
  ASSUME NEW chain \in Chains, NEW chains \in Seq(Chains)
  PROVE  Under(chain, chains) \in Seq(Chains)
<1>1. PICK n \in Nat : n = Len(chains) /\ DOMAIN chains = 1 .. n
  OBVIOUS
<1>2. \A j \in 1 .. n : chain \o chains[j] \in Chains
  <2> SUFFICES ASSUME NEW j \in 1 .. n PROVE chain \o chains[j] \in Chains
    OBVIOUS
  <2>1. chains[j] \in Seq(FieldRefs)
    BY <1>1 DEF Chains
  <2> QED BY <2>1, ConcatProperties DEF Chains
<1> QED BY <1>1, <1>2 DEF Under

LEMMA UnderConcat ==
  ASSUME NEW chain \in Chains, NEW one \in Seq(Chains), NEW other \in Seq(Chains)
  PROVE  Under(chain, one \o other) = Under(chain, one) \o Under(chain, other)
<1>1. PICK n \in Nat : n = Len(one) /\ DOMAIN one = 1 .. n
  OBVIOUS
<1>2. PICK k \in Nat : k = Len(other) /\ DOMAIN other = 1 .. k
  OBVIOUS
<1>3. /\ one \o other \in Seq(Chains) /\ DOMAIN (one \o other) = 1 .. n + k
      /\ \A i \in 1 .. n : (one \o other)[i] = one[i]
      /\ \A i \in 1 .. k : (one \o other)[n + i] = other[i]
  BY <1>1, <1>2, ConcatProperties
<1>4. PICK left \in Seq(Chains) : left = Under(chain, one) /\ Len(left) = n
                                  /\ \A i \in 1 .. n : left[i] = chain \o one[i]
  <2>1. Under(chain, one) \in Seq(Chains)
    BY UnderType
  <2>2. DOMAIN Under(chain, one) = 1 .. n /\ \A i \in 1 .. n : Under(chain, one)[i] = chain \o one[i]
    BY <1>1 DEF Under
  <2> QED BY <2>1, <2>2
<1>5. PICK right \in Seq(Chains) : right = Under(chain, other) /\ Len(right) = k
                                   /\ \A i \in 1 .. k : right[i] = chain \o other[i]
  <2>1. Under(chain, other) \in Seq(Chains)
    BY UnderType
  <2>2. DOMAIN Under(chain, other) = 1 .. k
        /\ \A i \in 1 .. k : Under(chain, other)[i] = chain \o other[i]
    BY <1>2 DEF Under
  <2> QED BY <2>1, <2>2
<1>6. PICK both \in Seq(Chains) : /\ both = Under(chain, one \o other) /\ Len(both) = n + k
                                  /\ \A i \in 1 .. n + k : both[i] = chain \o (one \o other)[i]
  <2>1. PICK s \in Nat : s = n + k
    OBVIOUS
  <2>2. Under(chain, one \o other) \in Seq(Chains)
    BY <1>3, UnderType
  <2>3. DOMAIN Under(chain, one \o other) = 1 .. s
        /\ \A i \in 1 .. s : Under(chain, one \o other)[i] = chain \o (one \o other)[i]
    BY <1>3, <2>1 DEF Under
  <2>4. Len(Under(chain, one \o other)) = s
    BY <2>2, <2>3
  <2> QED BY <2>1, <2>2, <2>3, <2>4
<1>7. ASSUME NEW i \in 1 .. n PROVE both[i] = left[i]
  <2>1. i \in 1 .. n + k
    OBVIOUS
  <2> QED BY <2>1, <1>3, <1>4, <1>6
<1>8. ASSUME NEW i \in 1 .. k PROVE both[n + i] = right[i]
  <2>1. n + i \in 1 .. n + k
    OBVIOUS
  <2> QED BY <2>1, <1>3, <1>5, <1>6
<1>9. both = left \o right
  <2>1. Len(both) = Len(left) + Len(right) /\ Len(left) = n /\ Len(right) = k
    BY <1>4, <1>5, <1>6
  <2>2. /\ \A i \in 1 .. Len(left) : both[i] = left[i]
        /\ \A i \in 1 .. Len(right) : both[Len(left) + i] = right[i]
    BY <2>1, <1>7, <1>8
  <2>3. left \in Seq(Chains) /\ right \in Seq(Chains) /\ both \in Seq(Chains)
    BY <1>4, <1>5, <1>6
  <2> QED BY <2>1, <2>2, <2>3, ConcatIs
<1> QED BY <1>4, <1>5, <1>6, <1>9

LEMMA BlockType ==
  ASSUME NEW f \in FieldRefs, NEW below \in Seq(Chains)
  PROVE  /\ <<f>> \in Chains /\ Block(f, below) = << <<f>> >> \o Under(<<f>>, below)
         /\ Block(f, below) \in Seq(Chains)
<1>1. <<f>> \in Chains /\ << <<f>> >> \in Seq(Chains)
  BY DEF Chains
<1>2. Under(<<f>>, below) \in Seq(Chains)
  BY <1>1, UnderType
<1>3. Block(f, below) = << <<f>> >> \o Under(<<f>>, below)
  BY DEF Block, Under
<1> QED BY <1>1, <1>2, <1>3, ConcatProperties

LEMMA ConcatAssociates ==
  ASSUME NEW S, NEW a \in Seq(S), NEW b \in Seq(S), NEW c \in Seq(S)
  PROVE  (a \o b) \o c = a \o (b \o c)
  OBVIOUS

LEMMA UnderBlock ==
  ASSUME NEW chain \in Chains, NEW f \in FieldRefs, NEW below \in Seq(Chains)
  PROVE  Under(chain, Block(f, below)) = << Append(chain, f) >> \o Under(Append(chain, f), below)
<1>1. /\ <<f>> \in Chains /\ << <<f>> >> \in Seq(Chains) /\ Under(<<f>>, below) \in Seq(Chains)
      /\ Block(f, below) = << <<f>> >> \o Under(<<f>>, below)
  BY BlockType, UnderType
<1>2. Under(chain, Block(f, below)) = Under(chain, << <<f>> >>) \o Under(chain, Under(<<f>>, below))
  BY <1>1, UnderConcat
<1>3. chain \o <<f>> = Append(chain, f)
  BY DEF Chains
<1>4. Under(chain, << <<f>> >>) = << Append(chain, f) >>
  <2>1. PICK one : one = << <<f>> >>
    OBVIOUS
  <2>2. DOMAIN one = 1 .. 1 /\ one[1] = <<f>>
    BY <2>1
  <2>3. \A j \in 1 .. 1 : chain \o one[j] = Append(chain, f)
    <3>1. chain \o one[1] = Append(chain, f)
      BY <2>2, <1>3
    <3>2. \A j \in 1 .. 1 : j = 1
      OBVIOUS
    <3> QED BY <3>1, <3>2
  <2>4. Under(chain, one) = [j \in 1 .. 1 |-> Append(chain, f)]
    BY <2>2, <2>3 DEF Under
  <2> QED BY <2>1, <2>4
<1>5. Under(chain, Under(<<f>>, below)) = Under(Append(chain, f), below)
  <2>1. DOMAIN Under(<<f>>, below) = DOMAIN below
    BY DEF Under
  <2>2. ASSUME NEW j \in DOMAIN below
        PROVE  chain \o Under(<<f>>, below)[j] = Append(chain, f) \o below[j]
    <3>1. Under(<<f>>, below)[j] = <<f>> \o below[j]
      BY DEF Under
    <3>2. below[j] \in Seq(FieldRefs) /\ chain \in Seq(FieldRefs) /\ <<f>> \in Seq(FieldRefs)
      BY DEF Chains
    <3>3. (chain \o <<f>>) \o below[j] = chain \o (<<f>> \o below[j])
      BY <3>2, ConcatAssociates
    <3> QED BY <3>1, <3>3, <1>3
  <2>3. [j \in DOMAIN below |-> chain \o Under(<<f>>, below)[j]]
        = [j \in DOMAIN below |-> Append(chain, f) \o below[j]]
    BY <2>2
  <2> QED BY <2>1, <2>3 DEF Under
<1> QED BY <1>2, <1>4, <1>5

-----------------------------------------------------------------------------
(* The chains through the first n fields of a message. *)
Blocks(m, n) ==
  [i \in 1 .. n |-> Block(FieldsOf[m][i], Below(ChainsFrom, FieldsOf[m][i]))]

Done(m, n) == FlattenSeq(Blocks(m, n))

LEMMA FieldsAre ==
  ASSUME NEW m \in Messages
  PROVE  /\ FieldsOf[m] \in Seq(FieldRefs) /\ Len(FieldsOf[m]) \in Nat
         /\ DOMAIN FieldsOf[m] = 1 .. Len(FieldsOf[m])
         /\ \A i \in 1 .. Len(FieldsOf[m]) :
              FieldsOf[m][i] \in FieldSet(m) /\ FieldsOf[m][i] \in FieldRefs
<1>1. FieldsOf[m] \in Seq(FieldSet(m))
  BY PathsAssumption
<1>2. FieldSet(m) \subseteq FieldRefs
  BY DEF FieldRefs
<1> QED BY <1>1, <1>2

LEMMA BlocksType ==
  ASSUME NEW m \in Messages, NEW n \in Nat, n <= Len(FieldsOf[m]),
         \A f \in FieldSet(m) : Below(ChainsFrom, f) \in Seq(Chains)
  PROVE  /\ Blocks(m, n) \in Seq(Seq(Chains)) /\ Len(Blocks(m, n)) = n
         /\ Done(m, n) \in Seq(Chains)
<1>1. PICK len \in Nat : len = Len(FieldsOf[m]) /\ n <= len
  BY FieldsAre
<1>2. ASSUME NEW i \in 1 .. n
      PROVE  Block(FieldsOf[m][i], Below(ChainsFrom, FieldsOf[m][i])) \in Seq(Chains)
  <2>1. i \in 1 .. len
    BY <1>1
  <2>2. FieldsOf[m][i] \in FieldSet(m) /\ FieldsOf[m][i] \in FieldRefs
    BY <1>1, <2>1, FieldsAre
  <2> QED BY <2>2, BlockType
<1>3. Blocks(m, n) \in Seq(Seq(Chains)) /\ Len(Blocks(m, n)) = n
  <2> DEFINE T == Seq(Chains)
  <2>1. \A i \in 1 .. n : Block(FieldsOf[m][i], Below(ChainsFrom, FieldsOf[m][i])) \in T
    BY <1>2
  <2> HIDE DEF T
  <2>2. Blocks(m, n) \in Seq(T) /\ Len(Blocks(m, n)) = n
    BY <2>1 DEF Blocks
  <2> QED BY <2>2 DEF T
<1> QED BY <1>3, FlattenType DEF Done

LEMMA DoneAll ==
  ASSUME NEW m \in Messages
  PROVE  ChainsFrom[m] = Done(m, Len(FieldsOf[m]))
<1>1. ChainsFrom[m] = Unfold(ChainsFrom, m)
  BY ChainsUnfold
<1>2. DOMAIN FieldsOf[m] = 1 .. Len(FieldsOf[m])
  BY FieldsAre
<1>3. Unfold(ChainsFrom, m) = Done(m, Len(FieldsOf[m]))
  BY <1>2 DEF Unfold, Done, Blocks
<1> QED BY <1>1, <1>3

LEMMA ChainsType ==
  ASSUME NEW m \in Messages
  PROVE  ChainsFrom[m] \in Seq(Chains)
<1> DEFINE bad == {d \in Nat : \E a \in Messages : Nesting[a] = d /\ ChainsFrom[a] \notin Seq(Chains)}
<1>1. \A a \in Messages : Nesting[a] \in Nat
  BY PathsAssumption
<1>2. SUFFICES ASSUME bad # {} PROVE FALSE
  BY <1>1
<1>3. PICK d \in bad : \A e \in bad : d <= e
  <2>1. bad \in SUBSET Nat
    OBVIOUS
  <2> HIDE DEF bad
  <2> QED BY <1>2, <2>1, LeastNatural
<1>4. PICK a \in Messages : Nesting[a] = d /\ ChainsFrom[a] \notin Seq(Chains)
  BY <1>3
<1>5. ASSUME NEW f \in FieldSet(a) PROVE Below(ChainsFrom, f) \in Seq(Chains)
  <2>1. CASE f.message = NoMessage
    BY <2>1 DEF Below
  <2>2. CASE f.message # NoMessage
    <3>1. f.message \in Messages /\ Nesting[f.message] \in Nat /\ Nesting[f.message] < d
      BY <2>2, <1>4, FieldNests
    <3>2. Nesting[f.message] \notin bad
      BY <1>3, <3>1
    <3>3. ChainsFrom[f.message] \in Seq(Chains)
      BY <3>1, <3>2
    <3> QED BY <2>2, <3>3 DEF Below
  <2> QED BY <2>1, <2>2
<1>6. Done(a, Len(FieldsOf[a])) \in Seq(Chains)
  <2>1. Len(FieldsOf[a]) \in Nat /\ Len(FieldsOf[a]) <= Len(FieldsOf[a])
    BY FieldsAre
  <2> HIDE DEF bad
  <2> QED BY <2>1, <1>5, BlocksType
<1> QED BY <1>4, <1>6, DoneAll

LEMMA BelowType ==
  ASSUME NEW f \in FieldRefs
  PROVE  Below(ChainsFrom, f) \in Seq(Chains)
<1>1. f.message \in Messages \cup {NoMessage}
  BY PathsAssumption
<1> QED BY <1>1, ChainsType DEF Below

LEMMA DoneNothing ==
  ASSUME NEW m \in Messages
  PROVE  Done(m, 0) = <<>>
<1>1. Blocks(m, 0) = <<>>
  BY DEF Blocks
<1> QED BY <1>1 DEF Done, FlattenSeq

LEMMA DoneMore ==
  ASSUME NEW m \in Messages, NEW n \in Nat, n < Len(FieldsOf[m])
  PROVE  LET f == FieldsOf[m][n + 1]
         IN  /\ f \in FieldRefs /\ Done(m, n) \in Seq(Chains)
             /\ Done(m, n + 1) = Done(m, n) \o Block(f, Below(ChainsFrom, f))
<1> DEFINE f == FieldsOf[m][n + 1]
<1>1. PICK len \in Nat : len = Len(FieldsOf[m]) /\ n < len
  BY FieldsAre
<1>2. f \in FieldRefs
  <2>1. n + 1 \in 1 .. len
    BY <1>1
  <2> QED BY <1>1, <2>1, FieldsAre
<1>3. \A g \in FieldSet(m) : Below(ChainsFrom, g) \in Seq(Chains)
  BY BelowType DEF FieldRefs
<1>4. /\ Blocks(m, n) \in Seq(Seq(Chains)) /\ Len(Blocks(m, n)) = n
      /\ Done(m, n) \in Seq(Chains)
  BY <1>1, <1>3, BlocksType
<1>5. PICK block \in Seq(Chains) : block = Block(f, Below(ChainsFrom, f))
  BY <1>2, BelowType, BlockType
<1>6. Blocks(m, n + 1) = Append(Blocks(m, n), block)
  <2> DEFINE T == Seq(Chains)
             less == Blocks(m, n)
             more == Blocks(m, n + 1)
  <2>1. n + 1 \in Nat /\ n + 1 <= Len(FieldsOf[m])
    BY <1>1
  <2>2. Blocks(m, n + 1) \in Seq(Seq(Chains)) /\ Len(Blocks(m, n + 1)) = n + 1
    BY <2>1, <1>3, BlocksType
  <2>3. less \in Seq(T) /\ more \in Seq(T) /\ block \in T /\ Len(less) = n /\ Len(more) = n + 1
    BY <1>4, <1>5, <2>2
  <2>4. (\A i \in 1 .. n : more[i] = less[i]) /\ more[n + 1] = block
    BY <1>5 DEF Blocks
  <2> HIDE DEF T, less, more
  <2>5. /\ Append(less, block) \in Seq(T) /\ Len(Append(less, block)) = n + 1
        /\ Append(less, block)[n + 1] = block
        /\ \A i \in 1 .. n : Append(less, block)[i] = less[i]
    BY <2>3, AppendProperties
  <2>6. \A i \in 1 .. n + 1 : i \in 1 .. n \/ i = n + 1
    OBVIOUS
  <2>7. \A i \in 1 .. Len(more) : more[i] = Append(less, block)[i]
    BY <2>3, <2>4, <2>5, <2>6
  <2>8. more = Append(less, block)
    BY <2>3, <2>5, <2>7, SeqEqual
  <2> QED BY <2>8 DEF less, more
<1>7. Done(m, n + 1) = Done(m, n) \o block
  BY <1>4, <1>5, <1>6, FlattenMore DEF Done
<1> QED BY <1>2, <1>4, <1>5, <1>7

-----------------------------------------------------------------------------
(* The wanted chains. *)
Wanting(chain, wanted) == IF Last(chain) \in wanted THEN << chain >> ELSE <<>>

LEMMA ThoseMore ==
  ASSUME NEW chains \in Seq(Chains), NEW chain \in Chains, NEW wanted
  PROVE  /\ Those(chains, wanted) \in Seq(Chains)
         /\ Those(Append(chains, chain), wanted) = Those(chains, wanted) \o Wanting(chain, wanted)
<1> DEFINE T == Seq(Chains)
           each(s) == [i \in DOMAIN s |-> Wanting(s[i], wanted)]
<1>1. PICK n \in Nat : n = Len(chains) /\ DOMAIN chains = 1 .. n
  OBVIOUS
<1>2. PICK more \in Seq(Chains) : /\ more = Append(chains, chain) /\ Len(more) = n + 1
                                  /\ DOMAIN more = 1 .. n + 1 /\ more[n + 1] = chain
                                  /\ \A i \in 1 .. n : more[i] = chains[i]
  <2> HIDE DEF T, each
  <2>1. PICK s \in Nat : s = n + 1
    OBVIOUS
  <2>2. /\ Append(chains, chain) \in Seq(Chains) /\ Len(Append(chains, chain)) = s
        /\ Append(chains, chain)[s] = chain
        /\ \A i \in 1 .. n : Append(chains, chain)[i] = chains[i]
    BY <1>1, <2>1, AppendProperties
  <2>3. DOMAIN Append(chains, chain) = 1 .. s
    BY <2>1, <2>2
  <2> QED BY <2>1, <2>2, <2>3
<1>3. Those(chains, wanted) = FlattenSeq(each(chains))
      /\ Those(more, wanted) = FlattenSeq(each(more))
  BY DEF Those, Wanting
<1>4. \A c \in Chains : Wanting(c, wanted) \in T
  BY DEF Wanting
<1> HIDE DEF T
<1>5. /\ each(chains) \in Seq(T) /\ Len(each(chains)) = n
      /\ \A i \in 1 .. n : each(chains)[i] = Wanting(chains[i], wanted)
  BY <1>1, <1>4
<1>6. /\ each(more) \in Seq(T) /\ Len(each(more)) = n + 1
      /\ \A i \in 1 .. n + 1 : each(more)[i] = Wanting(more[i], wanted)
  <2>1. PICK s \in Nat : s = n + 1 /\ DOMAIN more = 1 .. s
    BY <1>2
  <2> QED BY <1>2, <1>4, <2>1
<1> HIDE DEF each
<1>7. each(more) = Append(each(chains), Wanting(chain, wanted))
  <2>1. PICK less \in Seq(T) : less = each(chains) /\ Len(less) = n
    BY <1>5
  <2>2. PICK last \in T : last = Wanting(chain, wanted)
    BY <1>4
  <2>3. /\ Append(less, last) \in Seq(T) /\ Len(Append(less, last)) = n + 1
        /\ Append(less, last)[n + 1] = last
        /\ \A i \in 1 .. n : Append(less, last)[i] = less[i]
    BY <2>1, <2>2, AppendProperties
  <2>4. \A i \in 1 .. n + 1 : i \in 1 .. n \/ i = n + 1
    OBVIOUS
  <2>5. \A i \in 1 .. Len(each(more)) : each(more)[i] = Append(less, last)[i]
    BY <1>2, <1>5, <1>6, <2>1, <2>2, <2>3, <2>4
  <2>6. each(more) = Append(less, last)
    BY <1>6, <2>3, <2>5, SeqEqual
  <2> QED BY <2>1, <2>2, <2>6
<1>8. FlattenSeq(each(more)) = FlattenSeq(each(chains)) \o Wanting(chain, wanted)
  BY <1>4, <1>5, <1>7, FlattenMore DEF T
<1>9. Those(chains, wanted) \in Seq(Chains)
  BY <1>3, <1>5, FlattenType DEF T
<1> QED BY <1>2, <1>3, <1>8, <1>9

-----------------------------------------------------------------------------
(***************************************************************************)
(* The invariant of the service.                                           *)
(***************************************************************************)
Places == {"idle", "validate", "build", "run", "done"}

CallerOK(caller) ==
  /\ DOMAIN caller = {"at", "request", "sorts", "order", "answer"}
  /\ caller.at \in Places /\ Sound(memory, caller.sorts)
  /\ caller.request \in plan.requests \cup {Nothing}
  /\ caller.at \in {"validate", "build", "run"} => caller.request.is = "list"
  /\ caller.request.is = "get" =>
       /\ caller.at = "done"
       /\ caller.answer = Get(plan.properties, plan.states, plan.events, plan.authRows,
                              plan.claim, caller.request.keys)

CallersInv == DOMAIN callers = Callers /\ \A c \in Callers : CallerOK(callers[c])

ListerInv ==
  /\ plan \in Plans
  /\ lister \in {"new", "sorts", "filters", "ready", "bad request", "bad annotations",
                 "bad sorts", "bad filters"}
  /\ lister \notin {"new", "bad request", "bad annotations"} =>
       MapsRequest(plan.properties, plan.fields)

QueryInv == ListerInv /\ WalkInv(memory, stack, kept) /\ CallersInv

LEMMA InitQuery == Init => QueryInv
<1> SUFFICES ASSUME Init PROVE QueryInv
  OBVIOUS
<1>1. ListerInv
  BY DEF Init, ListerInv
<1>2. WalkInv(memory, stack, kept)
  <2>1. memory = <<>> /\ stack = <<>> /\ kept = [list \in Lists |-> NilSlice]
    BY DEF Init, WalkInit, Lists
  <2>2. IsHeap(memory)
    <3>1. <<>> \in Seq(Seq({}))
      OBVIOUS
    <3> QED BY <2>1, <3>1 DEF IsHeap
  <2>3. StackInv(memory, stack)
    BY <2>1 DEF StackInv
  <2>4. \A l \in Lists : kept[l] = NilSlice
    BY <2>1
  <2>5. Sound(memory, NilSlice) /\ NilSlice.len = 0 /\ NilSlice.array = 0 /\ NilSlice \in Slices
    BY <2>1 DEF Sound, NilSlice, Slices, Capacity
  <2>6. KeptInv(memory, kept)
    BY <2>1, <2>4, <2>5 DEF KeptInv
  <2>7. Apart(memory, stack, kept)
    BY <2>1, <2>4, <2>5 DEF Apart
  <2> QED BY <2>2, <2>3, <2>6, <2>7 DEF WalkInv
<1>3. CallersInv
  <2>1. Sound(memory, NilSlice)
    BY DEF Init, WalkInit, Sound, NilSlice, Slices, Capacity
  <2>2. CallerOK(Idle)
    <3>1. /\ DOMAIN Idle = {"at", "request", "sorts", "order", "answer"}
          /\ Idle.at = "idle" /\ Idle.request = Nothing /\ Idle.sorts = NilSlice
          /\ Nothing.is = "nothing"
      BY DEF Idle, Nothing
    <3> QED BY <2>1, <3>1 DEF CallerOK, Places
  <2> QED BY <2>2 DEF CallersInv, Init
<1> QED BY <1>1, <1>2, <1>3 DEF QueryInv

LEMMA CallersStay ==
  ASSUME QueryInv, IsHeap(memory'), Grows(memory, memory'), UNCHANGED <<plan, callers>>
  PROVE  CallersInv'
<1>1. ASSUME NEW c \in Callers PROVE CallerOK(callers[c])'
  <2>1. CallerOK(callers[c]) /\ IsHeap(memory)
    BY DEF QueryInv, CallersInv, WalkInv
  <2>2. Sound(memory, callers[c].sorts)
    BY <2>1 DEF CallerOK
  <2>3. Sound(memory', callers[c].sorts)
    BY <2>1, <2>2, StillSound
  <2> QED BY <2>1, <2>3 DEF CallerOK
<1> QED BY <1>1 DEF QueryInv, CallersInv

LEMMA SameHeap ==
  ASSUME QueryInv, UNCHANGED memory
  PROVE  IsHeap(memory') /\ Grows(memory, memory')
  BY DEF QueryInv, WalkInv, IsHeap, Grows

(* The steps of building the lister. *)
LEMMA BuildingKeeps ==
  ASSUME QueryInv,
         Construct \/ FindSort \/ SortsFound \/ FindFilter \/ RefuseDefault \/ Leave \/ FiltersFound
  PROVE  QueryInv'
<1> plan \in Plans /\ plan.root \in Messages /\ plan' = plan /\ callers' = callers
  BY PlansAssumption DEF QueryInv, ListerInv, Construct, FindSort, SortsFound, FindFilter,
     RefuseDefault, Leave, FiltersFound
<1>1. ListerInv'
  BY DEF QueryInv, ListerInv, Construct, FindSort, SortsFound, FindFilter,
     RefuseDefault, Leave, FiltersFound
<1>2. WalkInv(memory', stack', kept') /\ Grows(memory, memory')
  <2>1. WalkInv(memory, stack, kept)
    BY DEF QueryInv
  <2>2. WalkInv(memory, <<Frame(plan.root, NilSlice, <<>>)>>, kept) /\ WalkInv(memory, <<>>, kept)
    BY <2>1, WalkStarts
  <2>3. CASE Construct
    BY <2>1, <2>2, <2>3, SameHeap DEF Construct, StartWalk
  <2>4. CASE FindSort
    BY <2>1, <2>4, VisitKeeps DEF FindSort, Lists
  <2>5. CASE SortsFound
    BY <2>2, <2>5, SameHeap DEF SortsFound, StartWalk
  <2>6. CASE FindFilter
    BY <2>1, <2>6, VisitKeeps DEF FindFilter, Lists
  <2>7. CASE RefuseDefault
    BY <2>2, <2>7, SameHeap DEF RefuseDefault
  <2>8. CASE Leave
    <3>1. Len(stack) > 1 /\ stack' = Front(stack) /\ UNCHANGED <<memory, kept>>
      BY <2>8 DEF Leave, LeaveMessage
    <3> QED BY <2>1, <3>1, WalkUp, SameHeap
  <2>9. CASE FiltersFound
    BY <2>2, <2>9, SameHeap DEF FiltersFound
  <2> QED BY <2>3, <2>4, <2>5, <2>6, <2>7, <2>8, <2>9
<1>3. CallersInv'
  BY <1>2, CallersStay DEF WalkInv
<1> QED BY <1>1, <1>2, <1>3 DEF QueryInv

LEMMA TiesAppended ==
  ASSUME QueryInv
  PROVE  LET r == AppendTo(memory, kept["sorts"], TieBreakers)
         IN  /\ WalkInv(r.heap, stack, kept) /\ Grows(memory, r.heap)
             /\ Sound(r.heap, r.slice)
             /\ \A m \in Lists : \A i \in 1 .. kept[m].len :
                  r.heap[kept[m].array][i] = memory[kept[m].array][i]
<1> DEFINE r == AppendTo(memory, kept["sorts"], TieBreakers)
<1>1. PICK S : TieBreakers \in Seq(S)
  BY TiesAreSequence DEF QueryInv, ListerInv
<1>2. PICK ties \in Seq(S) : ties = TieBreakers
  BY <1>1
<1>3. /\ WalkInv(memory, stack, kept) /\ IsHeap(memory) /\ Sound(memory, kept["sorts"])
      /\ "sorts" \in Lists
  BY DEF QueryInv, WalkInv, KeptInv, Lists
<1>4. r = AppendTo(memory, kept["sorts"], ties)
  BY <1>2
<1>5. CASE ties = <<>>
  <2>1. r = [heap |-> memory, slice |-> kept["sorts"]]
    BY <1>3, <1>4, <1>5, AppendNothing
  <2>2. r.heap = memory /\ r.slice = kept["sorts"]
    BY <2>1
  <2>3. Grows(memory, memory)
    BY <1>3 DEF Grows, IsHeap
  <2>4. /\ WalkInv(r.heap, stack, kept) /\ Grows(memory, r.heap) /\ Sound(r.heap, r.slice)
        /\ \A m \in Lists : \A i \in 1 .. kept[m].len :
             r.heap[kept[m].array][i] = memory[kept[m].array][i]
    <3> HIDE DEF r
    <3> QED BY <1>3, <2>2, <2>3
  <2> QED BY <2>4
<1>6. CASE ties # <<>>
  <2>1. /\ Appended(memory, kept["sorts"], ties, r)
        /\ r.slice.array = kept["sorts"].array \/ r.slice.array = Len(memory) + 1
    <3>1. kept["sorts"].len \in Nat /\ Capacity(memory, kept["sorts"]) \in Nat
          /\ Len(ties) \in Nat
      BY <1>2, <1>3, CapacityNat
    <3>2. CASE kept["sorts"].len + Len(ties) <= Capacity(memory, kept["sorts"])
      BY <1>3, <1>4, <1>6, <3>2, AppendInPlace
    <3>3. CASE kept["sorts"].len + Len(ties) > Capacity(memory, kept["sorts"])
      BY <1>3, <1>4, <1>6, <3>3, AppendFresh DEF InNewArray
    <3> QED BY <3>1, <3>2, <3>3
  <2>2. /\ WalkInv(r.heap, stack, kept) /\ Grows(memory, r.heap) /\ Sound(r.heap, r.slice)
        /\ \A m \in Lists : \A i \in 1 .. kept[m].len :
             r.heap[kept[m].array][i] = memory[kept[m].array][i]
    <3> HIDE DEF r
    <3>1. /\ WalkInv(r.heap, stack, kept)
          /\ \A m \in Lists : \A i \in 1 .. kept[m].len :
               r.heap[kept[m].array][i] = memory[kept[m].array][i]
      <4>1. PICK l \in Lists : l = "sorts"
        BY <1>3
      <4>2. WalkInv(memory, stack, kept)
        BY <1>3
      <4>3. Appended(memory, kept[l], ties, r)
        BY <2>1, <4>1
      <4>4. r.slice.array = kept[l].array \/ r.slice.array = Len(memory) + 1
        BY <2>1, <4>1
      <4>5. Appends(memory, kept, l, ties, r)
        BY <4>3, <4>4 DEF Appends
      <4> QED BY <4>2, <4>5, OthersAppend
    <3> QED BY <2>1, <3>1 DEF Appended
  <2> QED BY <2>2
<1> QED BY <1>5, <1>6

(* The steps of callers.  One of them begins, and may write to memory. *)
LEMMA OneCaller ==
  ASSUME QueryInv, NEW c \in Callers, NEW caller,
         UNCHANGED <<stack, kept, plan, lister>>,
         callers' = [callers EXCEPT ![c] = caller], CallerOK(caller)',
         WalkInv(memory', stack, kept), Grows(memory, memory')
  PROVE  QueryInv'
<1>1. ListerInv'
  BY DEF QueryInv, ListerInv
<1>2. IsHeap(memory) /\ IsHeap(memory')
  BY DEF QueryInv, WalkInv
<1>3. DOMAIN callers = Callers /\ \A d \in Callers : CallerOK(callers[d])
  BY DEF QueryInv, CallersInv
<1>4. ASSUME NEW d \in Callers PROVE CallerOK(callers[d])'
  <2>1. CASE d = c
    <3>1. callers'[d] = caller
      BY <2>1, <1>3
    <3> QED BY <3>1 DEF CallerOK
  <2>2. CASE d # c
    <3>1. callers'[d] = callers[d]
      BY <2>2, <1>3
    <3>2. Sound(memory', callers[d].sorts)
      BY <1>2, <1>3, StillSound DEF CallerOK
    <3> QED BY <1>3, <3>1, <3>2 DEF CallerOK
  <2> QED BY <2>1, <2>2
<1>5. CallersInv'
  BY <1>3, <1>4 DEF CallersInv
<1> QED BY <1>1, <1>5 DEF QueryInv

LEMMA CallersKeep ==
  ASSUME QueryInv, NEW c \in Callers,
         AskToList(c) \/ Validate(c) \/ Build(c) \/ Run(c) \/ Fail(c) \/ AskToGet(c)
  PROVE  QueryInv'
<1> DEFINE caller == callers[c]
<1>1. /\ CallerOK(caller) /\ WalkInv(memory, stack, kept) /\ IsHeap(memory)
      /\ Grows(memory, memory)
  BY DEF QueryInv, CallersInv, WalkInv, IsHeap, Grows
<1>2. CASE AskToList(c)
  <2> DEFINE r == AppendTo(memory, kept["sorts"], TieBreakers)
  <2>1. PICK req \in plan.requests : req.is = "list" /\ Begin(c, req)
    BY <1>2 DEF AskToList
  <2>2. /\ memory' = r.heap
        /\ callers' = [callers EXCEPT ![c] =
             [Idle EXCEPT !.at = "validate", !.request = req, !.sorts = r.slice]]
    BY <2>1 DEF Begin
  <2>3. WalkInv(r.heap, stack, kept) /\ Grows(memory, r.heap) /\ Sound(r.heap, r.slice)
    BY TiesAppended
  <2> HIDE DEF r
  <2>4. PICK now : now = [Idle EXCEPT !.at = "validate", !.request = req, !.sorts = r.slice]
    OBVIOUS
  <2>5. /\ DOMAIN now = {"at", "request", "sorts", "order", "answer"}
        /\ now.at = "validate" /\ now.request = req /\ now.sorts = r.slice
    BY <2>4 DEF Idle
  <2>6. UNCHANGED <<stack, kept, plan, lister>>
    BY <1>2 DEF AskToList
  <2>7. CallerOK(now)'
    BY <2>1, <2>2, <2>3, <2>5, <2>6 DEF CallerOK, Places
  <2> QED BY <2>2, <2>3, <2>4, <2>6, <2>7, OneCaller
<1>3. CASE Validate(c) \/ Build(c) \/ Run(c) \/ Fail(c)
  <2>1. UNCHANGED <<memory, stack, kept, plan, lister>> /\ caller.at \in {"validate", "build", "run"}
    BY <1>3 DEF Validate, Build, Run, Fail
  <2>2. caller.request.is = "list"
    BY <1>1, <2>1 DEF CallerOK
  <2>3. ASSUME NEW at \in {"build", "run"}, NEW order,
               callers' = [callers EXCEPT ![c].at = at, ![c].order = order]
        PROVE  QueryInv'
    <3>1. PICK now : now = [caller EXCEPT !.at = at, !.order = order]
      OBVIOUS
    <3>2. callers' = [callers EXCEPT ![c] = now]
      BY <2>3, <3>1
    <3>3. /\ DOMAIN now = {"at", "request", "sorts", "order", "answer"}
          /\ now.at = at /\ now.request = caller.request /\ now.sorts = caller.sorts
      BY <1>1, <3>1 DEF CallerOK
    <3>4. CallerOK(now)'
      BY <1>1, <2>1, <2>2, <3>3 DEF CallerOK, Places
    <3> QED BY <1>1, <2>1, <3>2, <3>4, OneCaller
  <2>4. ASSUME NEW answer, Answer(c, answer) PROVE QueryInv'
    <3>1. PICK now : now = [caller EXCEPT !.at = "done", !.answer = answer]
      OBVIOUS
    <3>2. callers' = [callers EXCEPT ![c] = now]
      BY <2>4, <3>1 DEF Answer
    <3>3. /\ DOMAIN now = {"at", "request", "sorts", "order", "answer"}
          /\ now.at = "done" /\ now.request = caller.request /\ now.sorts = caller.sorts
      BY <1>1, <3>1 DEF CallerOK
    <3>4. CallerOK(now)'
      BY <1>1, <2>1, <2>2, <3>3 DEF CallerOK, Places
    <3> QED BY <1>1, <2>1, <3>2, <3>4, OneCaller
  <2>5. ASSUME Goes(c, "build") PROVE QueryInv'
    <3>1. callers' = [callers EXCEPT ![c].at = "build", ![c].order = caller.order]
      <4>1. DOMAIN callers = Callers /\ DOMAIN caller = {"at", "request", "sorts", "order", "answer"}
        BY <1>1 DEF QueryInv, CallersInv, CallerOK
      <4>2. [caller EXCEPT !.at = "build"] = [caller EXCEPT !.at = "build", !.order = caller.order]
        BY <4>1
      <4>3. PICK now : now = [caller EXCEPT !.at = "build"]
        OBVIOUS
      <4>4. callers' = [callers EXCEPT ![c] = now]
        BY <2>5, <4>3 DEF Goes
      <4>5. now = [caller EXCEPT !.at = "build", !.order = caller.order]
        BY <4>2, <4>3
      <4> QED BY <4>4, <4>5
    <3> QED BY <2>3, <3>1
  <2>6. CASE Validate(c)
    BY <2>4, <2>5, <2>6 DEF Validate
  <2>7. CASE Build(c)
    <3>1. PICK order :
            \/ Answer(c, [is |-> "unbuilt"])
            \/ Answer(c, [is |-> "panic"])
            \/ callers' = [callers EXCEPT ![c].at = "run", ![c].order = order]
      BY <2>7 DEF Build
    <3> QED BY <2>3, <2>4, <3>1
  <2>8. CASE Run(c) \/ Fail(c)
    BY <2>4, <2>8 DEF Run, Fail
  <2> QED BY <1>3, <2>6, <2>7, <2>8
<1>4. CASE AskToGet(c)
  <2> DEFINE got(req) == Get(plan.properties, plan.states, plan.events, plan.authRows,
                             plan.claim, req.keys)
  <2>1. PICK req \in plan.requests :
          /\ req.is = "get"
          /\ callers' = [callers EXCEPT ![c] =
               [Idle EXCEPT !.at = "done", !.request = req, !.answer = got(req)]]
    BY <1>4 DEF AskToGet
  <2>2. UNCHANGED <<memory, stack, kept, plan, lister>>
    BY <1>4 DEF AskToGet
  <2>3. PICK answer : answer = got(req)
    OBVIOUS
  <2>4. PICK now : now = [Idle EXCEPT !.at = "done", !.request = req, !.answer = answer]
    OBVIOUS
  <2>5. /\ DOMAIN now = {"at", "request", "sorts", "order", "answer"}
        /\ now.at = "done" /\ now.request = req /\ now.sorts = NilSlice /\ now.answer = answer
    BY <2>4 DEF Idle
  <2>6. callers' = [callers EXCEPT ![c] = now]
    BY <2>1, <2>3, <2>4
  <2>7. Sound(memory, NilSlice)
    BY <1>1 DEF IsHeap, Sound, NilSlice, Slices, Capacity
  <2>8. CallerOK(now)'
    <3>1. Sound(memory, now.sorts) /\ now.answer = got(now.request)
      BY <2>3, <2>5, <2>7
    <3> QED BY <2>1, <2>2, <2>5, <3>1 DEF CallerOK, Places
  <2> QED BY <1>1, <2>2, <2>6, <2>8, OneCaller
<1> QED BY <1>2, <1>3, <1>4

LEMMA NextQuery == QueryInv /\ [Next]_vars => QueryInv'
<1> SUFFICES ASSUME QueryInv, [Next]_vars PROVE QueryInv'
  OBVIOUS
<1>1. CASE Construct \/ FindSort \/ SortsFound \/ FindFilter \/ RefuseDefault \/ Leave
           \/ FiltersFound
  BY <1>1, BuildingKeeps
<1>2. CASE \E c \in Callers : AskToList(c) \/ Validate(c) \/ Build(c) \/ Run(c) \/ Fail(c) \/ AskToGet(c)
  BY <1>2, CallersKeep
<1>3. CASE UNCHANGED vars
  <2>1. UNCHANGED <<memory, stack, kept, plan, lister, callers>>
    BY <1>3 DEF vars
  <2>2. ListerInv' /\ WalkInv(memory, stack, kept)'
    BY <2>1 DEF QueryInv, ListerInv
  <2>3. CallersInv'
    BY <2>1, SameHeap, CallersStay
  <2> QED BY <2>2, <2>3 DEF QueryInv
<1> QED BY <1>1, <1>2, <1>3 DEF Next

LEMMA QueryInvariant == Spec => []QueryInv
<1>1. Init => QueryInv
  BY InitQuery
<1>2. QueryInv /\ [Next]_vars => QueryInv'
  BY NextQuery
<1> QED BY <1>1, <1>2, PTL DEF Spec

-----------------------------------------------------------------------------
(* Slices lie within their arrays. *)
LEMMA TypesFromInv == QueryInv => QueryTypeOK
<1> SUFFICES ASSUME QueryInv PROVE QueryTypeOK
  OBVIOUS
<1>1. /\ IsHeap(memory) /\ StackInv(memory, stack) /\ KeptInv(memory, kept)
  BY DEF QueryInv, WalkInv
<1>2. Len(memory) \in Nat
  BY <1>1 DEF IsHeap
<1>3. \A slice : Sound(memory, slice) => SliceOK(slice)
  BY DEF Sound, SliceOK
<1>4. ASSUME NEW i \in DOMAIN stack PROVE SliceOK(stack[i].path)
  <2>1. i \in 1 .. Len(stack) /\ FrameOK(memory, stack[i], i - 1) /\ i - 1 \in Nat
    BY <1>1 DEF StackInv
  <2>2. CASE i - 1 = 0
    BY <2>1, <2>2, <1>2 DEF FrameOK, NilSlice, SliceOK, Capacity
  <2>3. CASE i - 1 > 0
    BY <2>1, <2>3, <1>1, <1>3, FitsNumbers DEF FrameOK
  <2> QED BY <2>1, <2>2, <2>3
<1>5. ASSUME NEW list \in DOMAIN kept
      PROVE  SliceOK(kept[list]) /\ \A i \in DOMAIN Kept(list) : SliceOK(Kept(list)[i].path)
  <2>1. list \in Lists /\ Sound(memory, kept[list])
    BY <1>1 DEF KeptInv
  <2>2. /\ DOMAIN Kept(list) = 1 .. kept[list].len
        /\ \A i \in 1 .. kept[list].len : Kept(list)[i] = memory[kept[list].array][i]
    BY <1>1, <2>1, CellsOf DEF Kept
  <2>3. ASSUME NEW i \in 1 .. kept[list].len PROVE SliceOK(Kept(list)[i].path)
    <3>1. KeptOK(memory, Kept(list)[i])
      BY <1>1, <2>1, <2>2 DEF KeptInv
    <3> QED BY <3>1, <1>1, <1>3, FitsNumbers DEF KeptOK
  <2> QED BY <1>3, <2>1, <2>2, <2>3
<1>6. ASSUME NEW c \in Callers
      PROVE  /\ callers[c].at \in {"idle", "validate", "build", "run", "done"}
             /\ callers[c].at \in {"validate", "build", "run"} => callers[c].request.is = "list"
             /\ SliceOK(callers[c].sorts)
  BY <1>3 DEF QueryInv, CallersInv, CallerOK, Places
<1>7. /\ plan \in Plans
      /\ lister \in {"new", "sorts", "filters", "ready", "bad request", "bad annotations",
                     "bad sorts", "bad filters"}
  BY DEF QueryInv, ListerInv
<1> QED BY <1>4, <1>5, <1>6, <1>7 DEF QueryTypeOK

(* The query service keeps its types: no slice that the walk of lister.go    *)
(* or a caller holds reaches beyond the end of its array.                   *)
THEOREM QueryTypes == Spec => []QueryTypeOK
  BY QueryInvariant, TypesFromInv, PTL

LEMMA PathsFromInv == QueryInv => KeptPathsTrue
<1> SUFFICES ASSUME QueryInv, NEW list \in DOMAIN kept, NEW i \in DOMAIN Kept(list),
                    Len(Kept(list)[i].chain) \in {1, 2, 3, 5}
             PROVE  LET cell == Kept(list)[i]
                    IN  [n \in DOMAIN KeptNodes(cell) |-> KeptNodes(cell)[n].field] = cell.chain
  BY DEF KeptPathsTrue
<1>1. IsHeap(memory) /\ KeptInv(memory, kept)
  BY DEF QueryInv, WalkInv
<1>2. list \in Lists /\ Sound(memory, kept[list])
  BY <1>1 DEF KeptInv
<1>3. /\ DOMAIN Kept(list) = 1 .. kept[list].len
      /\ \A j \in 1 .. kept[list].len : Kept(list)[j] = memory[kept[list].array][j]
  BY <1>1, <1>2, CellsOf DEF Kept
<1>4. PICK cell : cell = Kept(list)[i]
  OBVIOUS
<1>5. KeptOK(memory, cell) /\ Len(cell.chain) \in {1, 2, 3, 5}
  BY <1>1, <1>2, <1>3, <1>4 DEF KeptInv
<1>6. /\ cell.chain \in Seq(FieldRefs) /\ Fits(memory, cell.path)
      /\ cell.path.len = Len(cell.chain) /\ Says(memory, cell.path, cell.chain)
  BY <1>5 DEF KeptOK, KeptCells
<1>7. PICK chain \in Seq(FieldRefs) : chain = cell.chain
  BY <1>6
<1>8. PICK len \in Nat : len = Len(chain) /\ chain = [n \in 1 .. len |-> chain[n]]
  BY <1>7
<1>9. Sound(memory, cell.path) /\ cell.path.len = len
  BY <1>1, <1>6, <1>7, <1>8, FitsNumbers
<1>10. DOMAIN KeptNodes(cell) = 1 .. len
       /\ \A n \in 1 .. len : KeptNodes(cell)[n] = memory[cell.path.array][n]
  <2>1. PICK path : path = cell.path
    OBVIOUS
  <2>2. Sound(memory, path) /\ path.len = len
    BY <1>9, <2>1
  <2>3. PICK S : /\ Cells(memory, path) \in Seq(S) /\ Len(Cells(memory, path)) = path.len
                 /\ \A n \in 1 .. path.len : Cells(memory, path)[n] = memory[path.array][n]
    BY <1>1, <2>2, CellsOf
  <2>4. DOMAIN Cells(memory, path) = 1 .. len
    BY <2>2, <2>3
  <2> QED BY <2>1, <2>2, <2>3, <2>4 DEF KeptNodes
<1>11. ASSUME NEW n \in 1 .. len PROVE KeptNodes(cell)[n].field = chain[n]
  <2>1. KeptNodes(cell)[n] = FieldNode(chain[n].name, chain[n])
    BY <1>6, <1>7, <1>9, <1>10 DEF Says
  <2> QED BY <2>1 DEF FieldNode
<1>12. [n \in DOMAIN KeptNodes(cell) |-> KeptNodes(cell)[n].field] = cell.chain
  BY <1>7, <1>8, <1>10, <1>11
<1> QED BY <1>4, <1>12

(* A kept path of 1, 2, 3 or 5 fields names the fields that led to it when   *)
(* WalkPathNodes found it, though the walk has appended to prefixes of it.   *)
THEOREM KeptPathsStayTrue == Spec => []KeptPathsTrue
  BY QueryInvariant, PathsFromInv, PTL

-----------------------------------------------------------------------------
(***************************************************************************)
(* The trail of the walk: which chains were visited before the message of  *)
(* each frame, visited[k] before that of frames[k].                        *)
(***************************************************************************)
(* The chains through the first n fields of a message that chain leads to. *)
Through(chain, m, n) == Under(chain, Done(m, n))

(* The frame has visited the field that the inner frame is about. *)
Nested(frame, before, inner, visited) ==
  LET n == frame.next - 2
      f == FieldsOf[frame.message][n + 1]
  IN  /\ n \in Nat /\ inner.message = f.message /\ inner.chain = Append(frame.chain, f)
      /\ visited = Append(before \o Through(frame.chain, frame.message, n), inner.chain)

Trail(frames, visited, root) ==
  /\ frames \in Seq(Frames) /\ frames # <<>>
  /\ frames[1].message = root /\ frames[1].chain = <<>> /\ visited[1] = <<>>
  /\ \A k \in 1 .. Len(frames) :
       visited[k] \in Seq(Chains) /\ frames[k].next - 1 <= Len(FieldsOf[frames[k].message])
  /\ \A k \in 1 .. Len(frames) - 1 :
       Nested(frames[k], visited[k], frames[k + 1], visited[k + 1])

(* All the chains that were visited. *)
Ends(frames, visited) ==
  LET top == frames[Len(frames)]
  IN  visited[Len(frames)] \o Through(top.chain, top.message, top.next - 1)

LEMMA ChainsAssociate ==
  \A p, q, r \in Seq(Chains) : p \o (q \o r) = (p \o q) \o r
  OBVIOUS

LEMMA ThroughMore ==
  ASSUME NEW m \in Messages, NEW n \in Nat, n < Len(FieldsOf[m]),
         NEW chain \in Chains, NEW before \in Seq(Chains)
  PROVE  LET f    == FieldsOf[m][n + 1]
             next == Append(chain, f)
         IN  /\ f \in FieldRefs /\ next \in Chains
             /\ Under(next, Below(ChainsFrom, f)) \in Seq(Chains)
             /\ before \o Through(chain, m, n) \in Seq(Chains)
             /\ before \o Through(chain, m, n + 1)
                = Append(before \o Through(chain, m, n), next) \o Under(next, Below(ChainsFrom, f))
<1>1. PICK f \in FieldRefs : f = FieldsOf[m][n + 1]
  BY DoneMore
<1>2. PICK below \in Seq(Chains) : below = Below(ChainsFrom, f)
  BY BelowType
<1>3. PICK done \in Seq(Chains) : done = Done(m, n) /\ Done(m, n + 1) = done \o Block(f, below)
  BY <1>1, <1>2, DoneMore
<1>4. PICK next \in Chains : next = Append(chain, f)
  BY AppendProperties DEF Chains
<1>5. PICK u \in Seq(Chains) : u = Through(chain, m, n) /\ u = Under(chain, done)
  BY <1>3, UnderType DEF Through
<1>6. PICK w \in Seq(Chains) : w = Under(next, below)
  BY UnderType
<1>7. Through(chain, m, n + 1) = u \o (<<next>> \o w)
  <2>1. Block(f, below) \in Seq(Chains)
    BY BlockType
  <2>2. Under(chain, done \o Block(f, below)) = Under(chain, done) \o Under(chain, Block(f, below))
    BY <2>1, UnderConcat
  <2>3. Under(chain, Block(f, below)) = <<next>> \o w
    BY <1>4, <1>6, UnderBlock
  <2> QED BY <2>2, <2>3, <1>3, <1>5 DEF Through
<1>8. before \o (u \o (<<next>> \o w)) = Append(before \o u, next) \o w
  <2> DEFINE T == Seq(Chains)
             Join(p, q) == p \o q
  <2>1. \A p, q, r \in T : Join(p, Join(q, r)) = Join(Join(p, q), r)
    BY ChainsAssociate
  <2>2. \A p, q \in T : Join(p, q) \in T
    BY ConcatProperties
  <2>3. <<next>> \in T /\ before \in T /\ u \in T /\ w \in T
    BY <1>4, <1>5, <1>6
  <2>4. \A p \in T : Join(p, <<next>>) = Append(p, next)
    BY <1>4
  <2> HIDE DEF T, Join
  <2>5. PICK one \in T : one = <<next>>
    BY <2>3
  <2>6. Join(before, Join(u, Join(one, w))) = Join(Join(before, u), Join(one, w))
    BY <2>1, <2>2, <2>3, <2>5
  <2>7. Join(Join(before, u), Join(one, w)) = Join(Join(Join(before, u), one), w)
    BY <2>1, <2>2, <2>3, <2>5
  <2>8. Join(Join(before, u), one) = Append(Join(before, u), next)
    BY <2>2, <2>3, <2>4, <2>5
  <2>9. Join(before, Join(u, Join(one, w))) = Join(Append(Join(before, u), next), w)
    BY <2>6, <2>7, <2>8
  <2> QED BY <2>5, <2>9 DEF Join
<1>9. before \o u \in Seq(Chains)
  BY <1>5, ConcatProperties
<1> QED BY <1>1, <1>2, <1>4, <1>5, <1>6, <1>7, <1>8, <1>9

LEMMA TrailStarts ==
  ASSUME NEW root \in Messages
  PROVE  LET frames == <<Frame(root, NilSlice, <<>>)>>
         IN  \E visited : Trail(frames, visited, root) /\ Ends(frames, visited) = <<>>
<1> DEFINE frame == Frame(root, NilSlice, <<>>)
           visited == [k \in 1 .. 1 |-> <<>>]
<1>1. /\ frame \in Frames /\ frame.message = root /\ frame.chain = <<>> /\ frame.next = 1
  BY DEF Frame, Frames, NilSlice, Slices
<1>2. visited[1] = <<>> /\ <<>> \in Seq(Chains)
  OBVIOUS
<1> HIDE DEF frame, visited
<1>3. PICK frames : frames = <<frame>>
  OBVIOUS
<1>4. /\ frames \in Seq(Frames) /\ Len(frames) = 1 /\ frames[1] = frame /\ frames # <<>>
      /\ \A k \in 1 .. Len(frames) : k = 1
  BY <1>1, <1>3
<1>5. Len(FieldsOf[root]) \in Nat
  BY FieldsAre
<1>6. Trail(frames, visited, root)
  <2>1. \A k \in 1 .. Len(frames) :
          visited[k] \in Seq(Chains) /\ frames[k].next - 1 <= Len(FieldsOf[frames[k].message])
    <3>1. visited[1] \in Seq(Chains) /\ frames[1].next - 1 <= Len(FieldsOf[frames[1].message])
      BY <1>1, <1>2, <1>4, <1>5
    <3> QED BY <3>1, <1>4
  <2>2. 1 .. Len(frames) - 1 = {}
    BY <1>4
  <2> QED BY <2>1, <2>2, <1>1, <1>2, <1>4 DEF Trail
<1>7. Through(<<>>, root, 0) = <<>>
  BY DoneNothing DEF Through, Under
<1>8. Ends(frames, visited) = <<>>
  BY <1>1, <1>2, <1>4, <1>7 DEF Ends
<1> QED BY <1>3, <1>6, <1>8 DEF frame

LEMMA TrailEnds ==
  ASSUME NEW frames, NEW visited, NEW root \in Messages, Trail(frames, visited, root),
         Len(frames) = 1, ~(frames[1].next <= Len(FieldsOf[root]))
  PROVE  Ends(frames, visited) = ChainsFrom[root]
<1>1. PICK len \in Nat : len = Len(FieldsOf[root])
  BY FieldsAre
<1>2. /\ frames[1].message = root /\ frames[1].chain = <<>> /\ visited[1] = <<>>
      /\ frames[1] \in Frames /\ frames[1].next - 1 <= len
  BY <1>1 DEF Trail
<1>3. frames[1].next - 1 = len
  BY <1>1, <1>2 DEF Frames
<1>4. PICK chains \in Seq(Chains) : chains = ChainsFrom[root] /\ chains = Done(root, len)
  BY <1>1, ChainsType, DoneAll
<1>5. Through(<<>>, root, len) = chains
  <2>1. PICK n \in Nat : n = Len(chains) /\ DOMAIN chains = 1 .. n
    OBVIOUS
  <2>2. ASSUME NEW j \in 1 .. n PROVE <<>> \o chains[j] = chains[j]
    <3>1. chains[j] \in Seq(FieldRefs)
      BY <2>1 DEF Chains
    <3> QED BY <3>1
  <2>3. PICK u \in Seq(Chains) : u = Under(<<>>, chains) /\ Len(u) = n
                                 /\ \A j \in 1 .. n : u[j] = chains[j]
    <3>1. Under(<<>>, chains) \in Seq(Chains)
      <4>1. <<>> \in Chains
        BY DEF Chains
      <4> QED BY <4>1, UnderType
    <3>2. DOMAIN Under(<<>>, chains) = 1 .. n /\ \A j \in 1 .. n : Under(<<>>, chains)[j] = chains[j]
      BY <2>1, <2>2 DEF Under
    <3> QED BY <3>1, <3>2
  <2>4. u = chains
    BY <2>1, <2>3, SeqEqual
  <2> QED BY <2>3, <2>4, <1>4 DEF Through
<1>6. <<>> \o chains = chains
  OBVIOUS
<1> QED BY <1>2, <1>3, <1>4, <1>5, <1>6 DEF Ends

(* The walk goes on to the next field of the message it is in. *)
Moved(frames, rest) ==
  LET len == Len(frames)
  IN  /\ rest \in Seq(Frames) /\ Len(rest) = len
      /\ \A k \in 1 .. len - 1 : rest[k] = frames[k]
      /\ rest[len].message = frames[len].message /\ rest[len].chain = frames[len].chain
      /\ rest[len].next = frames[len].next + 1

(* The chain to the field that the walk is at. *)
Here(frames) ==
  LET top == frames[Len(frames)]
  IN  [field |-> FieldsOf[top.message][top.next],
       chain |-> Append(top.chain, FieldsOf[top.message][top.next])]

InMessage(frames) ==
  LET top == frames[Len(frames)] IN top.next <= Len(FieldsOf[top.message])

LEMMA MovesOn ==
  ASSUME NEW frames \in Seq(Frames), frames # <<>>
  PROVE  Moved(frames, Append(Front(frames), [Last(frames) EXCEPT !.next = @ + 1]))
<1>1. PICK n \in Nat : Len(frames) = n + 1 /\ n = Len(frames) - 1
  BY FrontOf
<1>2. PICK front \in Seq(Frames) : /\ front = Front(frames) /\ Len(front) = n
                                   /\ \A i \in 1 .. n : front[i] = frames[i]
  BY <1>1, FrontOf
<1>3. PICK top \in Frames : top = Last(frames) /\ top = frames[n + 1]
  <2>1. Last(frames) = frames[n + 1] /\ n + 1 \in 1 .. Len(frames)
    BY <1>1, FrontOf
  <2> QED BY <2>1
<1>4. PICK next \in Frames : /\ next = [top EXCEPT !.next = @ + 1] /\ next.next = top.next + 1
                             /\ next.message = top.message /\ next.chain = top.chain
  <2>1. top.next + 1 \in Nat \ {0}
    BY DEF Frames
  <2>2. [top EXCEPT !.next = @ + 1] \in Frames
    BY <2>1 DEF Frames
  <2>3. DOMAIN top = {"message", "next", "path", "chain"}
    BY DEF Frames
  <2> QED BY <2>2, <2>3
<1>5. PICK rest \in Seq(Frames) : /\ rest = Append(front, next) /\ Len(rest) = n + 1
                                  /\ rest[n + 1] = next
                                  /\ \A i \in 1 .. n : rest[i] = front[i]
  <2>1. Append(front, next) \in Seq(Frames) /\ Len(Append(front, next)) = n + 1
        /\ Append(front, next)[n + 1] = next
        /\ \A i \in 1 .. n : Append(front, next)[i] = front[i]
    BY <1>2, <1>4, AppendProperties
  <2> QED BY <2>1
<1>6. rest = Append(Front(frames), [Last(frames) EXCEPT !.next = @ + 1])
  BY <1>2, <1>3, <1>4, <1>5
<1>7. /\ Len(rest) = Len(frames) /\ \A k \in 1 .. Len(frames) - 1 : rest[k] = frames[k]
      /\ rest[Len(frames)] = next /\ frames[Len(frames)] = top
  BY <1>1, <1>2, <1>3, <1>5
<1> QED BY <1>4, <1>5, <1>6, <1>7 DEF Moved

LEMMA TrailMovesOn ==
  ASSUME NEW frames, NEW visited, NEW root, Trail(frames, visited, root), InMessage(frames),
         NEW rest, Moved(frames, rest)
  PROVE  LET f    == Here(frames).field
             next == Here(frames).chain
         IN  /\ Trail(rest, visited, root) /\ f \in FieldRefs /\ next \in Chains
             /\ Ends(frames, visited) \in Seq(Chains)
             /\ Ends(rest, visited)
                = Append(Ends(frames, visited), next) \o Under(next, Below(ChainsFrom, f))
<1> DEFINE top == frames[Len(frames)]
<1>1. /\ top.next <= Len(FieldsOf[top.message])
      /\ rest \in Seq(Frames) /\ Len(rest) = Len(frames)
      /\ \A k \in 1 .. Len(frames) - 1 : rest[k] = frames[k]
      /\ rest[Len(frames)].message = top.message /\ rest[Len(frames)].chain = top.chain
      /\ rest[Len(frames)].next = top.next + 1
  BY DEF Moved, InMessage
<1> HIDE DEF top
<1>2. frames \in Seq(Frames) /\ frames # <<>>
  BY DEF Trail
<1>3. PICK len \in Nat : len = Len(frames) /\ len >= 1 /\ len \in 1 .. len
  BY <1>2
<1>4. /\ top \in Frames /\ top.message \in Messages /\ top.chain \in Chains
      /\ visited[len] \in Seq(Chains)
  <2>1. top \in Frames
    BY <1>2, <1>3 DEF top
  <2>2. visited[len] \in Seq(Chains)
    BY <1>3 DEF Trail
  <2> QED BY <2>1, <2>2 DEF Frames, Chains
<1>5. PICK n \in Nat : n = top.next - 1 /\ top.next = n + 1 /\ n < Len(FieldsOf[top.message])
  <2>1. top.next \in Nat \ {0} /\ Len(FieldsOf[top.message]) \in Nat
    BY <1>4, FieldsAre DEF Frames
  <2> QED BY <1>1, <2>1
<1>6. PICK f \in FieldRefs : f = FieldsOf[top.message][n + 1]
  BY <1>4, <1>5, ThroughMore
<1>7. PICK next \in Chains : next = Append(top.chain, f)
  BY <1>4, <1>5, <1>6, ThroughMore
<1>8. /\ Under(next, Below(ChainsFrom, f)) \in Seq(Chains)
      /\ visited[len] \o Through(top.chain, top.message, n) \in Seq(Chains)
      /\ visited[len] \o Through(top.chain, top.message, n + 1)
         = Append(visited[len] \o Through(top.chain, top.message, n), next)
           \o Under(next, Below(ChainsFrom, f))
  <2>1. PICK before \in Seq(Chains) : before = visited[len]
    BY <1>4
  <2>2. PICK m \in Messages : m = top.message
    BY <1>4
  <2>3. PICK chain \in Chains : chain = top.chain
    BY <1>4
  <2>4. n < Len(FieldsOf[m]) /\ f = FieldsOf[m][n + 1] /\ next = Append(chain, f)
    BY <1>5, <1>6, <1>7, <2>2, <2>3
  <2>5. /\ Under(next, Below(ChainsFrom, f)) \in Seq(Chains)
        /\ before \o Through(chain, m, n) \in Seq(Chains)
        /\ before \o Through(chain, m, n + 1)
           = Append(before \o Through(chain, m, n), next) \o Under(next, Below(ChainsFrom, f))
    BY <2>4, ThroughMore
  <2> QED BY <2>1, <2>2, <2>3, <2>5
<1>9. Ends(frames, visited) = visited[len] \o Through(top.chain, top.message, n)
  BY <1>3, <1>5 DEF Ends, top
<1>10. Ends(rest, visited) = visited[len] \o Through(top.chain, top.message, n + 1)
  <2>1. rest[len].next - 1 = n + 1
    BY <1>1, <1>3, <1>5
  <2> QED BY <2>1, <1>1, <1>3 DEF Ends
<1>11. Trail(rest, visited, root)
  <2>1. rest # <<>>
    BY <1>1, <1>3
  <2>2. \A k \in 1 .. len : rest[k].message = frames[k].message /\ rest[k].chain = frames[k].chain
    <3> SUFFICES ASSUME NEW k \in 1 .. len
                 PROVE  rest[k].message = frames[k].message /\ rest[k].chain = frames[k].chain
      OBVIOUS
    <3>1. k \in 1 .. len - 1 \/ k = len
      BY <1>3
    <3> QED BY <3>1, <1>1, <1>3 DEF top
  <2>3. rest[1].message = root /\ rest[1].chain = <<>> /\ visited[1] = <<>>
    BY <2>2, <1>3 DEF Trail
  <2>4. ASSUME NEW k \in 1 .. len
        PROVE  visited[k] \in Seq(Chains) /\ rest[k].next - 1 <= Len(FieldsOf[rest[k].message])
    <3>1. CASE k = len
      BY <3>1, <1>1, <1>3, <1>4, <1>5, <2>2
    <3>2. CASE k # len
      <4>1. k \in 1 .. len - 1
        BY <3>2, <1>3
      <4> QED BY <4>1, <1>1, <1>3 DEF Trail
    <3> QED BY <3>1, <3>2
  <2>5. ASSUME NEW k \in 1 .. len - 1
        PROVE  Nested(rest[k], visited[k], rest[k + 1], visited[k + 1])
    <3>1. k + 1 \in 1 .. len
      BY <1>3
    <3>2. rest[k] = frames[k] /\ rest[k + 1].message = frames[k + 1].message
          /\ rest[k + 1].chain = frames[k + 1].chain
      BY <3>1, <2>2, <1>1, <1>3
    <3>3. Nested(frames[k], visited[k], frames[k + 1], visited[k + 1])
      BY <1>3 DEF Trail
    <3> QED BY <3>2, <3>3 DEF Nested
  <2> QED BY <2>1, <2>3, <2>4, <2>5, <1>1, <1>3 DEF Trail
<1>12. Here(frames).field = f /\ Here(frames).chain = next
  BY <1>5, <1>6, <1>7 DEF Here, top
<1> QED BY <1>8, <1>9, <1>10, <1>11, <1>12

(* The walk goes into the message of the field it has just visited. *)
Entered(frames, frame) ==
  /\ frame \in Frames /\ frame.next = 1 /\ frame.message = Here(frames).field.message
  /\ frame.chain = Here(frames).chain

LEMMA TrailGoesDown ==
  ASSUME NEW frames, NEW visited, NEW root, Trail(frames, visited, root),
         Ends(frames, visited) \in Seq(Chains),
         NEW rest, Trail(rest, visited, root), Moved(frames, rest),
         NEW frame, Entered(frames, frame)
  PROVE  \E more : /\ Trail(Append(rest, frame), more, root)
                   /\ Ends(Append(rest, frame), more) = Append(Ends(frames, visited), frame.chain)
<1> DEFINE top == frames[Len(frames)]
           f   == FieldsOf[top.message][top.next]
<1>1. /\ Len(rest) = Len(frames) /\ rest[Len(frames)].message = top.message
      /\ rest[Len(frames)].chain = top.chain /\ rest[Len(frames)].next = top.next + 1
      /\ frame \in Frames /\ frame.message = f.message /\ frame.next = 1
      /\ frame.chain = Append(top.chain, f) /\ frame.chain \in Chains
  BY DEF Moved, Entered, Here, Frames, Chains
<1> HIDE DEF top, f
<1>2. PICK len \in Nat : len = Len(frames) /\ len >= 1 /\ rest \in Seq(Frames) /\ Len(rest) = len
  BY <1>1 DEF Trail
<1>3. PICK now \in Seq(Frames) : /\ now = Append(rest, frame) /\ Len(now) = len + 1
                                 /\ now[len + 1] = frame
                                 /\ \A k \in 1 .. len : now[k] = rest[k]
  <2>1. Append(rest, frame) \in Seq(Frames) /\ Len(Append(rest, frame)) = len + 1
        /\ Append(rest, frame)[len + 1] = frame
        /\ \A k \in 1 .. len : Append(rest, frame)[k] = rest[k]
    BY <1>1, <1>2, AppendProperties
  <2> QED BY <2>1
<1>4. PICK ends \in Seq(Chains) : ends = Append(Ends(frames, visited), frame.chain)
  <2>1. Append(Ends(frames, visited), frame.chain) \in Seq(Chains)
    BY <1>1, AppendProperties
  <2> QED BY <2>1
<1> DEFINE more == [k \in 1 .. len + 1 |-> IF k = len + 1 THEN ends ELSE visited[k]]
<1>5. len + 1 \in 1 .. len + 1 /\ more[len + 1] = ends /\ \A k \in 1 .. len : more[k] = visited[k]
  BY <1>2
<1> HIDE DEF more
<1>6. frame.message \in Messages /\ Len(FieldsOf[frame.message]) \in Nat
  BY <1>1, FieldsAre DEF Frames
<1>7. ASSUME NEW k \in 1 .. len
      PROVE  Nested(now[k], more[k], now[k + 1], more[k + 1])
  <2>1. CASE k = len
    <3>1. PICK last \in Frames : last = rest[len]
      BY <1>2
    <3>2. top \in Frames
      BY <1>2 DEF Trail, top
    <3>3. last.next - 2 = top.next - 1 /\ top.next - 1 \in Nat /\ (last.next - 2) + 1 = top.next
      <4>1. PICK t \in Nat : t = top.next /\ t - 1 \in Nat
        BY <3>2 DEF Frames
      <4>2. last.next = t + 1
        BY <4>1, <3>1, <1>1, <1>2
      <4> QED BY <4>1, <4>2
    <3>4. ends = Append(visited[len] \o Through(last.chain, last.message, last.next - 2), frame.chain)
      BY <1>1, <1>2, <1>4, <3>1, <3>3 DEF Ends, top
    <3>5. FieldsOf[last.message][(last.next - 2) + 1] = f /\ last.chain = top.chain
      BY <1>1, <1>2, <3>1, <3>3 DEF f
    <3>6. Nested(last, visited[len], frame, ends)
      BY <1>1, <3>3, <3>4, <3>5 DEF Nested
    <3> QED BY <2>1, <3>1, <3>6, <1>2, <1>3, <1>5
  <2>2. CASE k # len
    <3>1. k \in 1 .. len - 1 /\ k + 1 \in 1 .. len
      BY <2>2, <1>2
    <3>2. Nested(rest[k], visited[k], rest[k + 1], visited[k + 1])
      BY <3>1, <1>2 DEF Trail
    <3> QED BY <3>1, <3>2, <1>3, <1>5
  <2> QED BY <2>1, <2>2
<1>8. ASSUME NEW k \in 1 .. len + 1
      PROVE  more[k] \in Seq(Chains) /\ now[k].next - 1 <= Len(FieldsOf[now[k].message])
  <2>1. CASE k = len + 1
    BY <2>1, <1>1, <1>3, <1>4, <1>5, <1>6
  <2>2. CASE k # len + 1
    <3>1. k \in 1 .. len
      BY <2>2, <1>2
    <3>2. visited[k] \in Seq(Chains) /\ rest[k].next - 1 <= Len(FieldsOf[rest[k].message])
      BY <3>1, <1>2 DEF Trail
    <3> QED BY <3>1, <3>2, <1>3, <1>5
  <2> QED BY <2>1, <2>2
<1>9. now[1].message = root /\ now[1].chain = <<>> /\ more[1] = <<>>
  <2>1. 1 \in 1 .. len
    BY <1>2
  <2> QED BY <2>1, <1>3, <1>5 DEF Trail
<1>10. Trail(now, more, root)
  <2>1. now # <<>> /\ Len(now) - 1 = len
    BY <1>2, <1>3
  <2> QED BY <2>1, <1>3, <1>7, <1>8, <1>9 DEF Trail
<1>11. Ends(now, more) = ends
  <2>1. Ends(now, more) = ends \o Through(frame.chain, frame.message, 0)
    <3>1. Len(now) = len + 1 /\ now[len + 1] = frame /\ more[len + 1] = ends
      BY <1>3, <1>5
    <3>2. Ends(now, more) = ends \o Through(frame.chain, frame.message, frame.next - 1)
      BY <3>1 DEF Ends
    <3>3. frame.next - 1 = 0
      BY <1>1
    <3> QED BY <3>2, <3>3
  <2>2. Through(frame.chain, frame.message, 0) = <<>>
    <3>1. Done(frame.message, 0) = <<>>
      BY <1>6, DoneNothing
    <3>2. Under(frame.chain, <<>>) = <<>>
      BY DEF Under
    <3> QED BY <3>1, <3>2 DEF Through
  <2>3. ends \o <<>> = ends
    BY <1>4
  <2> QED BY <2>1, <2>2, <2>3
<1> QED BY <1>3, <1>4, <1>10, <1>11

(* The walk goes back to the message it came from, from the end of another. *)
LEMMA TrailGoesUp ==
  ASSUME NEW frames, NEW visited, NEW root, Trail(frames, visited, root), Len(frames) > 1,
         ~InMessage(frames)
  PROVE  Trail(Front(frames), visited, root) /\ Ends(Front(frames), visited) = Ends(frames, visited)
<1> DEFINE top == frames[Len(frames)]
<1>1. ~(top.next <= Len(FieldsOf[top.message]))
  BY DEF InMessage
<1>2. frames \in Seq(Frames) /\ frames # <<>>
  BY DEF Trail
<1>3. PICK len \in Nat : Len(frames) = len + 1 /\ len >= 1 /\ len = Len(frames) - 1
  <2>1. PICK all \in Nat : all = Len(frames) /\ all > 1
    BY <1>2
  <2>2. all - 1 \in Nat /\ all = (all - 1) + 1 /\ all - 1 >= 1
    BY <2>1
  <2> QED BY <2>1, <2>2
<1>4. PICK rest \in Seq(Frames) : /\ rest = Front(frames) /\ Len(rest) = len
                                  /\ \A k \in 1 .. len : rest[k] = frames[k]
  BY <1>2, <1>3, FrontOf
<1>5. Trail(rest, visited, root)
  <2>1. rest # <<>> /\ 1 \in 1 .. len
    BY <1>3, <1>4
  <2>2. rest[1].message = root /\ rest[1].chain = <<>> /\ visited[1] = <<>>
    BY <2>1, <1>4 DEF Trail
  <2>3. ASSUME NEW k \in 1 .. len
        PROVE  visited[k] \in Seq(Chains) /\ rest[k].next - 1 <= Len(FieldsOf[rest[k].message])
    <3>1. k \in 1 .. Len(frames)
      BY <1>3
    <3> QED BY <3>1, <1>4 DEF Trail
  <2>4. ASSUME NEW k \in 1 .. len - 1
        PROVE  Nested(rest[k], visited[k], rest[k + 1], visited[k + 1])
    <3>1. k \in 1 .. Len(frames) - 1 /\ k \in 1 .. len /\ k + 1 \in 1 .. len
      BY <1>3
    <3> QED BY <3>1, <1>4 DEF Trail
  <2> QED BY <2>1, <2>2, <2>3, <2>4, <1>4 DEF Trail
<1>6. PICK last \in Frames : last = frames[len] /\ last = rest[len]
  BY <1>2, <1>3, <1>4
<1>7. PICK before \in Seq(Chains) : before = visited[len]
  BY <1>3 DEF Trail
<1>8. Nested(last, before, top, visited[len + 1])
  <2>1. len \in 1 .. Len(frames) - 1
    BY <1>3
  <2>2. Nested(frames[len], visited[len], frames[len + 1], visited[len + 1])
    BY <2>1 DEF Trail
  <2> QED BY <2>2, <1>3, <1>6, <1>7
<1>9. top \in Frames /\ top.message \in Messages /\ top.next - 1 <= Len(FieldsOf[top.message])
  <2>1. top \in Frames /\ top.next - 1 <= Len(FieldsOf[top.message])
    BY <1>2, <1>3 DEF Trail
  <2> QED BY <2>1 DEF Frames
<1>10. PICK n \in Nat : /\ n = last.next - 2 /\ last.next - 1 = n + 1
                       /\ n < Len(FieldsOf[last.message])
  <2>1. last.next - 2 \in Nat
    BY <1>8 DEF Nested
  <2>2. last.next - 1 <= Len(FieldsOf[last.message]) /\ Len(FieldsOf[last.message]) \in Nat
    <3>1. last.message \in Messages
      BY <1>6 DEF Frames
    <3>2. len \in 1 .. Len(frames)
      BY <1>3
    <3>3. frames[len].next - 1 <= Len(FieldsOf[frames[len].message])
      BY <3>2 DEF Trail
    <3> QED BY <3>1, <3>3, <1>6, FieldsAre
  <2>3. last.next \in Nat
    BY <1>6 DEF Frames
  <2> QED BY <2>1, <2>2, <2>3
<1>11. PICK m \in Messages : m = last.message
  BY <1>6 DEF Frames
<1>12. PICK chain \in Chains : chain = last.chain
  BY <1>6 DEF Frames, Chains
<1>13. PICK f \in FieldRefs : f = FieldsOf[m][n + 1]
  BY <1>10, <1>11, ThroughMore
<1>14. PICK next \in Chains : next = Append(chain, f) /\ next = top.chain /\ top.message = f.message
  <2>1. Append(chain, f) \in Chains
    BY <1>10, <1>11, <1>13, ThroughMore
  <2> QED BY <2>1, <1>8, <1>10, <1>11, <1>12, <1>13 DEF Nested
<1>15. visited[len + 1] = Append(before \o Through(chain, m, n), next)
  BY <1>8, <1>10, <1>11, <1>12, <1>14 DEF Nested
<1>16. before \o Through(chain, m, n + 1)
       = Append(before \o Through(chain, m, n), next) \o Under(next, Below(ChainsFrom, f))
  <2>1. n < Len(FieldsOf[m]) /\ f = FieldsOf[m][n + 1] /\ next = Append(chain, f)
    BY <1>10, <1>11, <1>13, <1>14
  <2> QED BY <2>1, ThroughMore
<1>17. Below(ChainsFrom, f) = Done(top.message, top.next - 1)
  <2>1. f.message # NoMessage
    BY <1>9, <1>14, PathsAssumption
  <2>2. top.next - 1 = Len(FieldsOf[top.message])
    <3>1. top.next \in Nat /\ Len(FieldsOf[top.message]) \in Nat
      BY <1>9, FieldsAre DEF Frames
    <3> QED BY <3>1, <1>1, <1>9
  <2> QED BY <2>1, <2>2, <1>9, <1>14, DoneAll DEF Below
<1>18. Ends(frames, visited) = visited[len + 1] \o Under(next, Below(ChainsFrom, f))
  BY <1>3, <1>14, <1>17 DEF Ends, Through
<1>19. Ends(rest, visited) = before \o Through(chain, m, n + 1)
  BY <1>4, <1>6, <1>7, <1>10, <1>11, <1>12 DEF Ends
<1> QED BY <1>4, <1>5, <1>15, <1>16, <1>18, <1>19

-----------------------------------------------------------------------------
(***************************************************************************)
(* What the walk has found.                                                *)
(***************************************************************************)
FoundIn(heap, slice) == [i \in 1 .. slice.len |-> heap[slice.array][i].chain]

(* One more cell, for the chain. *)
OneMore(heap, slice, more, longer, chain) ==
  /\ slice.len \in Nat /\ longer.len = slice.len + 1
  /\ \A i \in 1 .. slice.len : /\ heap[slice.array][i].chain \in Chains
                               /\ more[longer.array][i] = heap[slice.array][i]
  /\ chain \in Chains /\ more[longer.array][slice.len + 1].chain = chain

LEMMA FoundMore ==
  ASSUME NEW heap, NEW slice, NEW more, NEW longer, NEW chain,
         OneMore(heap, slice, more, longer, chain)
  PROVE  FoundIn(more, longer) = FoundIn(heap, slice) \o << chain >>
<1>1. /\ slice.len \in Nat /\ longer.len = slice.len + 1
      /\ \A i \in 1 .. slice.len : /\ heap[slice.array][i].chain \in Chains
                                   /\ more[longer.array][i] = heap[slice.array][i]
      /\ chain \in Chains /\ more[longer.array][slice.len + 1].chain = chain
  BY DEF OneMore
<1>2. PICK n \in Nat : n = slice.len /\ longer.len = n + 1
  BY <1>1
<1>3. PICK one \in Seq(Chains) : /\ one = FoundIn(heap, slice) /\ Len(one) = n
                                 /\ \A i \in 1 .. n : one[i] = heap[slice.array][i].chain
  <2>1. \A i \in 1 .. n : heap[slice.array][i].chain \in Chains
    BY <1>1, <1>2
  <2>2. FoundIn(heap, slice) = [i \in 1 .. n |-> heap[slice.array][i].chain]
    BY <1>2 DEF FoundIn
  <2>3. FoundIn(heap, slice) \in Seq(Chains) /\ Len(FoundIn(heap, slice)) = n
    BY <2>1, <2>2
  <2> QED BY <2>2, <2>3
<1>4. PICK other \in Seq(Chains) : other = << chain >> /\ Len(other) = 1 /\ other[1] = chain
  <2>1. << chain >> \in Seq(Chains) /\ Len(<< chain >>) = 1 /\ << chain >>[1] = chain
    BY <1>1
  <2> QED BY <2>1
<1>5. PICK both \in Seq(Chains) : /\ both = FoundIn(more, longer) /\ Len(both) = n + 1
                                  /\ both[n + 1] = chain
                                  /\ \A i \in 1 .. n : both[i] = heap[slice.array][i].chain
  <2>1. PICK s \in Nat : s = n + 1 /\ s \in 1 .. s
    OBVIOUS
  <2>2. \A i \in 1 .. s : i \in 1 .. n \/ i = s
    BY <2>1
  <2>3. \A i \in 1 .. s : more[longer.array][i].chain \in Chains
    BY <1>1, <1>2, <2>1, <2>2
  <2>4. FoundIn(more, longer) = [i \in 1 .. s |-> more[longer.array][i].chain]
    BY <1>2, <2>1 DEF FoundIn
  <2>5. FoundIn(more, longer) \in Seq(Chains) /\ Len(FoundIn(more, longer)) = s
    BY <2>3, <2>4
  <2>6. \A i \in 1 .. n : i \in 1 .. s
    BY <2>1
  <2>7. \A i \in 1 .. n : FoundIn(more, longer)[i] = heap[slice.array][i].chain
    BY <1>1, <1>2, <2>4, <2>6
  <2>8. FoundIn(more, longer)[s] = chain
    BY <1>1, <1>2, <2>1, <2>4
  <2> QED BY <2>1, <2>5, <2>7, <2>8
<1>6. /\ Len(both) = Len(one) + Len(other)
      /\ \A i \in 1 .. Len(one) : both[i] = one[i]
      /\ \A i \in 1 .. Len(other) : both[Len(one) + i] = other[i]
  <2>1. \A i \in 1 .. Len(other) : i = 1
    BY <1>4
  <2>2. both[Len(one) + 1] = other[1]
    BY <1>3, <1>4, <1>5
  <2> QED BY <2>1, <2>2, <1>3, <1>4, <1>5
<1>7. both = one \o other
  BY <1>6, ConcatIs
<1> QED BY <1>3, <1>4, <1>5, <1>7

LEMMA FoundSame ==
  ASSUME NEW heap, NEW slice, NEW more, NEW other, other.len = slice.len,
         \A i \in 1 .. slice.len : more[other.array][i] = heap[slice.array][i]
  PROVE  FoundIn(more, other) = FoundIn(heap, slice)
  BY DEF FoundIn

LEMMA FoundType ==
  ASSUME NEW heap, NEW lists, KeptInv(heap, lists), NEW l \in Lists
  PROVE  /\ lists[l].len \in Nat /\ FoundIn(heap, lists[l]) \in Seq(Chains)
         /\ \A i \in 1 .. lists[l].len : heap[lists[l].array][i].chain \in Chains
<1>1. PICK n \in Nat : n = lists[l].len
  BY DEF KeptInv, Slices
<1>2. \A i \in 1 .. n : heap[lists[l].array][i].chain \in Chains
  BY <1>1 DEF KeptInv, KeptOK, KeptCells, Chains
<1> QED BY <1>1, <1>2 DEF FoundIn

(* A visit appends the field's chain to what was visited, and to what was    *)
(* found if the callback wants it.                                           *)
LEMMA VisitFinds ==
  ASSUME WalkInv(memory, stack, kept), NEW list \in Lists, NEW wanted, Visit(list, wanted),
         NEW root, NEW visited, Trail(stack, visited, root),
         FoundIn(memory, kept[list]) = Those(Ends(stack, visited), wanted)
  PROVE  /\ \E more : /\ Trail(stack', more, root)
                      /\ FoundIn(memory', kept'[list]) = Those(Ends(stack', more), wanted)
         /\ \A l \in Lists : l # list => FoundIn(memory', kept'[l]) = FoundIn(memory, kept[l])
<1> DEFINE path == AppendTo(memory, Last(stack).path, <<FieldNode(NextField.name, NextField)>>)
<1>1. /\ stack \in Seq(Frames) /\ stack # <<>>
      /\ Last(stack) = stack[Len(stack)] /\ Len(stack) \in 1 .. Len(stack)
  <2>1. stack \in Seq(Frames) /\ stack # <<>>
    BY DEF Trail
  <2> QED BY <2>1, FrontOf
<1>2. PICK rest : /\ rest = Append(Front(stack), [Last(stack) EXCEPT !.next = @ + 1])
                   /\ Moved(stack, rest)
  BY <1>1, MovesOn
<1>3. InMessage(stack) /\ NextField = Here(stack).field
  BY <1>1 DEF Visit, MoreFields, InMessage, NextField, Here
<1>4. PICK f : f = NextField /\ f = Here(stack).field
  BY <1>3
<1>5. PICK chain : chain = Here(stack).chain /\ chain = Append(Last(stack).chain, f)
  BY <1>1, <1>4 DEF Here
<1>6. /\ f \in FieldRefs /\ chain \in Chains
      /\ Trail(rest, visited, root) /\ Ends(stack, visited) \in Seq(Chains)
      /\ Ends(rest, visited)
         = Append(Ends(stack, visited), chain) \o Under(chain, Below(ChainsFrom, f))
  BY <1>2, <1>3, <1>4, <1>5, TrailMovesOn
<1>7. stack' = IF f.message = NoMessage THEN rest
               ELSE Append(rest, Frame(f.message, path.slice, chain))
  BY <1>2, <1>4, <1>5 DEF Visit
<1>8. WalkInv(memory', stack', kept')
  BY VisitKeeps
<1>9. \E more : /\ Trail(stack', more, root)
                 /\ Ends(stack', more) = Append(Ends(stack, visited), chain)
  <2>1. CASE f.message = NoMessage
    <3>1. Under(chain, Below(ChainsFrom, f)) = <<>>
      BY <2>1 DEF Below, Under
    <3>2. Append(Ends(stack, visited), chain) \o <<>> = Append(Ends(stack, visited), chain)
      <4>1. Append(Ends(stack, visited), chain) \in Seq(Chains)
        BY <1>6, AppendProperties
      <4> QED BY <4>1
    <3>3. Ends(rest, visited) = Append(Ends(stack, visited), chain)
      BY <1>6, <3>1, <3>2
    <3> QED BY <1>6, <1>7, <2>1, <3>3
  <2>2. CASE f.message # NoMessage
    <3>1. PICK frame : frame = Frame(f.message, path.slice, chain)
      OBVIOUS
    <3>2. stack' = Append(rest, frame)
      BY <1>7, <2>2, <3>1
    <3>3. frame \in Frames
      <4>1. stack' \in Seq(Frames)
        BY <1>8 DEF WalkInv, StackInv
      <4>2. Append(rest, frame)[Len(rest) + 1] = frame /\ Len(Append(rest, frame)) = Len(rest) + 1
            /\ Len(rest) \in Nat
        BY AppendProperties
      <4> QED BY <3>2, <4>1, <4>2
    <3>4. frame.message = f.message /\ frame.next = 1 /\ frame.chain = chain
      BY <3>1 DEF Frame
    <3>5. Entered(stack, frame)
      BY <1>4, <1>5, <3>3, <3>4 DEF Entered
    <3>6. \E more : /\ Trail(Append(rest, frame), more, root)
                    /\ Ends(Append(rest, frame), more)
                       = Append(Ends(stack, visited), frame.chain)
      <4>1. /\ Trail(stack, visited, root) /\ Ends(stack, visited) \in Seq(Chains)
            /\ Trail(rest, visited, root) /\ Moved(stack, rest) /\ Entered(stack, frame)
        BY <1>2, <1>6, <3>5
      <4> QED BY <4>1, TrailGoesDown
    <3> QED BY <3>2, <3>4, <3>6
  <2> QED BY <2>1, <2>2
<1>10. Last(chain) = f
  <2>1. Last(stack).chain \in Seq(FieldRefs)
    <3>1. Last(stack) \in Frames
      BY <1>1
    <3> QED BY <3>1 DEF Frames
  <2> QED BY <2>1, <1>5, <1>6 DEF Last
<1>11. /\ \A l \in Lists : \A i \in 1 .. kept[l].len :
             memory'[kept'[l].array][i] = memory[kept[l].array][i]
       /\ \A l \in Lists : l # list \/ f \notin wanted => kept'[l].len = kept[l].len
       /\ f \in wanted => /\ kept'[list].len = kept[list].len + 1
                          /\ memory'[kept'[list].array][kept[list].len + 1].chain = chain
  BY <1>4, <1>5, VisitKeeps
<1>12. \A l \in Lists : l # list \/ f \notin wanted =>
         FoundIn(memory', kept'[l]) = FoundIn(memory, kept[l])
  BY <1>11, FoundSame
<1>13. FoundIn(memory', kept'[list]) = FoundIn(memory, kept[list]) \o Wanting(chain, wanted)
  <2>1. /\ kept[list].len \in Nat /\ FoundIn(memory, kept[list]) \in Seq(Chains)
        /\ \A i \in 1 .. kept[list].len : memory[kept[list].array][i].chain \in Chains
    BY FoundType DEF WalkInv
  <2>2. CASE f \in wanted
    <3>1. FoundIn(memory', kept'[list]) = FoundIn(memory, kept[list]) \o << chain >>
      <4>1. OneMore(memory, kept[list], memory', kept'[list], chain)
        BY <1>6, <1>11, <2>1, <2>2 DEF OneMore
      <4> QED BY <4>1, FoundMore
    <3> QED BY <3>1, <2>2, <1>10 DEF Wanting
  <2>3. CASE f \notin wanted
    <3>1. FoundIn(memory', kept'[list]) = FoundIn(memory, kept[list])
      BY <1>12, <2>3
    <3>2. FoundIn(memory, kept[list]) \o <<>> = FoundIn(memory, kept[list])
      BY <2>1
    <3> QED BY <3>1, <3>2, <2>3, <1>10 DEF Wanting
  <2> QED BY <2>2, <2>3
<1>14. Those(Append(Ends(stack, visited), chain), wanted)
       = Those(Ends(stack, visited), wanted) \o Wanting(chain, wanted)
  BY <1>6, ThoseMore
<1> QED BY <1>9, <1>12, <1>13, <1>14

-----------------------------------------------------------------------------
(***************************************************************************)
(* What has been found while the service is built, and after that.         *)
(***************************************************************************)
Finding(list) == FoundIn(memory, kept[list])

Walking(list, wanted) ==
  \E visited : /\ Trail(stack, visited, plan.root)
               /\ Finding(list) = Those(Ends(stack, visited), wanted)

FoundInv ==
  /\ lister = "new" => Finding("sorts") = <<>>
  /\ lister \in {"new", "sorts"} => Finding("filters") = <<>>
  /\ lister = "sorts" => Walking("sorts", DefaultSorts)
  /\ lister \in {"filters", "ready"} =>
       Finding("sorts") = Those(ChainsFrom[plan.root], DefaultSorts)
  /\ lister = "filters" => Walking("filters", Filtering)
  /\ lister = "ready" => Finding("filters") = Those(ChainsFrom[plan.root], Filtering)

LEMMA InitFound == Init => FoundInv
<1> SUFFICES ASSUME Init PROVE FoundInv
  OBVIOUS
<1>1. lister = "new" /\ kept["sorts"].len = 0 /\ kept["filters"].len = 0
  BY DEF Init, WalkInit, NilSlice
<1>2. Finding("sorts") = <<>> /\ Finding("filters") = <<>>
  BY <1>1 DEF Finding, FoundIn
<1> QED BY <1>1, <1>2 DEF FoundInv

LEMMA FoundStays ==
  ASSUME UNCHANGED kept,
         \A l \in Lists : \A i \in 1 .. kept[l].len :
           memory'[kept[l].array][i] = memory[kept[l].array][i]
  PROVE  Finding("sorts")' = Finding("sorts") /\ Finding("filters")' = Finding("filters")
<1>1. \A l \in Lists : FoundIn(memory', kept[l]) = FoundIn(memory, kept[l])
  BY FoundSame
<1> QED BY <1>1 DEF Finding, Lists

(* A walk that begins has found nothing yet. *)
LEMMA WalkingStarts ==
  ASSUME NEW list, Finding(list)' = <<>>, NEW wanted,
         StartWalk(plan.root), plan.root \in Messages, plan' = plan
  PROVE  Walking(list, wanted)'
<1>1. stack' = <<Frame(plan.root, NilSlice, <<>>)>>
  BY DEF StartWalk
<1>2. PICK visited : Trail(stack', visited, plan.root) /\ Ends(stack', visited) = <<>>
  BY <1>1, TrailStarts
<1>3. Those(<<>>, wanted) = <<>>
  BY DEF Those, FlattenSeq
<1> QED BY <1>2, <1>3 DEF Walking

(* A walk that ends has found everything. *)
LEMMA WalkingEnds ==
  ASSUME NEW list, NEW wanted, Walking(list, wanted), WalkEnds, plan.root \in Messages
  PROVE  Finding(list) = Those(ChainsFrom[plan.root], wanted)
<1>1. PICK visited : /\ Trail(stack, visited, plan.root)
                     /\ Finding(list) = Those(Ends(stack, visited), wanted)
  BY DEF Walking
<1>2. Len(stack) = 1 /\ stack[1].message = plan.root /\ stack # <<>>
  BY <1>1 DEF WalkEnds, Trail
<1>3. ~(stack[1].next <= Len(FieldsOf[plan.root]))
  BY <1>2 DEF WalkEnds, MoreFields, Last
<1>4. Ends(stack, visited) = ChainsFrom[plan.root]
  BY <1>1, <1>2, <1>3, TrailEnds
<1> QED BY <1>1, <1>4

LEMMA WalkingLeaves ==
  ASSUME NEW list, NEW wanted, Walking(list, wanted), LeaveMessage, plan' = plan,
         Finding(list)' = Finding(list)
  PROVE  Walking(list, wanted)'
<1>1. PICK visited : /\ Trail(stack, visited, plan.root)
                     /\ Finding(list) = Those(Ends(stack, visited), wanted)
  BY DEF Walking
<1>2. Len(stack) > 1 /\ ~MoreFields /\ stack' = Front(stack)
  BY DEF LeaveMessage
<1>3. ~InMessage(stack)
  <2>1. stack # <<>>
    BY <1>1 DEF Trail
  <2> QED BY <1>2, <2>1 DEF MoreFields, InMessage, Last
<1>4. Trail(stack', visited, plan.root) /\ Ends(stack', visited) = Ends(stack, visited)
  BY <1>1, <1>2, <1>3, TrailGoesUp
<1> QED BY <1>1, <1>4 DEF Walking

LEMMA WalkingVisits ==
  ASSUME WalkInv(memory, stack, kept), NEW list \in Lists, NEW wanted, Visit(list, wanted),
         Walking(list, wanted), plan' = plan
  PROVE  /\ Walking(list, wanted)'
         /\ \A l \in Lists : l # list => Finding(l)' = Finding(l)
<1>1. PICK visited : /\ Trail(stack, visited, plan.root)
                     /\ FoundIn(memory, kept[list]) = Those(Ends(stack, visited), wanted)
  BY DEF Walking, Finding
<1>2. PICK root : root = plan.root
  OBVIOUS
<1>3. /\ \E more : /\ Trail(stack', more, root)
                   /\ FoundIn(memory', kept'[list]) = Those(Ends(stack', more), wanted)
      /\ \A l \in Lists : l # list => FoundIn(memory', kept'[l]) = FoundIn(memory, kept[l])
  BY <1>1, <1>2, VisitFinds
<1> QED BY <1>2, <1>3 DEF Walking, Finding

LEMMA BuildingFinds ==
  ASSUME QueryInv, FoundInv,
         Construct \/ FindSort \/ SortsFound \/ FindFilter \/ RefuseDefault \/ Leave \/ FiltersFound
  PROVE  FoundInv'
<1> plan \in Plans /\ plan.root \in Messages /\ plan' = plan
  BY PlansAssumption DEF QueryInv, ListerInv, Construct, FindSort, SortsFound, FindFilter,
     RefuseDefault, Leave, FiltersFound
<1>1. WalkInv(memory, stack, kept) /\ "sorts" \in Lists /\ "filters" \in Lists
  BY DEF QueryInv, Lists
<1>2. UNCHANGED <<memory, kept>> =>
        Finding("sorts")' = Finding("sorts") /\ Finding("filters")' = Finding("filters")
  BY DEF Finding
<1>3. CASE Construct
  <2>1. UNCHANGED <<memory, kept>> /\ lister = "new"
    BY <1>3 DEF Construct
  <2>2. Finding("sorts")' = <<>> /\ Finding("filters")' = <<>>
    BY <1>2, <2>1 DEF FoundInv
  <2>3. CASE lister' = "sorts"
    <3>1. StartWalk(plan.root)
      BY <1>3, <2>3 DEF Construct
    <3>2. Walking("sorts", DefaultSorts)'
      BY <2>2, <3>1, WalkingStarts
    <3> QED BY <2>2, <2>3, <3>2 DEF FoundInv
  <2>4. CASE lister' # "sorts"
    <3>1. lister' \in {"bad request", "bad annotations"}
      BY <1>3, <2>4 DEF Construct
    <3> QED BY <3>1 DEF FoundInv
  <2> QED BY <2>3, <2>4
<1>4. CASE FindSort
  <2>1. Visit("sorts", DefaultSorts) /\ lister = "sorts" /\ lister' = "sorts"
    BY <1>4 DEF FindSort
  <2>2. Walking("sorts", DefaultSorts) /\ Finding("filters") = <<>>
    BY <2>1 DEF FoundInv
  <2>3. Walking("sorts", DefaultSorts)' /\ Finding("filters")' = Finding("filters")
    BY <1>1, <2>1, <2>2, WalkingVisits
  <2> QED BY <2>1, <2>2, <2>3 DEF FoundInv
<1>5. CASE SortsFound
  <2>1. UNCHANGED <<memory, kept>> /\ lister = "sorts" /\ WalkEnds
    BY <1>5 DEF SortsFound
  <2>2. Walking("sorts", DefaultSorts) /\ Finding("filters") = <<>>
    BY <2>1 DEF FoundInv
  <2>3. Finding("sorts")' = Those(ChainsFrom[plan.root], DefaultSorts) /\ Finding("filters")' = <<>>
    BY <1>2, <2>1, <2>2, WalkingEnds
  <2>4. CASE lister' = "filters"
    <3>1. StartWalk(plan.root)
      BY <1>5, <2>4 DEF SortsFound
    <3>2. Walking("filters", Filtering)'
      BY <2>3, <3>1, WalkingStarts
    <3> QED BY <2>3, <2>4, <3>2 DEF FoundInv
  <2>5. CASE lister' # "filters"
    <3>1. lister' = "bad sorts"
      BY <1>5, <2>5 DEF SortsFound
    <3> QED BY <3>1 DEF FoundInv
  <2> QED BY <2>4, <2>5
<1>6. CASE FindFilter
  <2>1. Visit("filters", Filtering) /\ lister = "filters" /\ lister' = "filters"
    BY <1>6 DEF FindFilter
  <2>2. Walking("filters", Filtering) /\ Finding("sorts") = Those(ChainsFrom[plan.root], DefaultSorts)
    BY <2>1 DEF FoundInv
  <2>3. Walking("filters", Filtering)' /\ Finding("sorts")' = Finding("sorts")
    BY <1>1, <2>1, <2>2, WalkingVisits
  <2> QED BY <2>1, <2>2, <2>3 DEF FoundInv
<1>7. CASE RefuseDefault
  BY <1>7 DEF RefuseDefault, FoundInv
<1>8. CASE Leave
  <2>1. /\ LeaveMessage /\ UNCHANGED <<memory, kept>> /\ lister' = lister
        /\ lister \in {"sorts", "filters"}
    BY <1>8 DEF Leave, LeaveMessage
  <2>2. CASE lister = "sorts"
    <3>1. Walking("sorts", DefaultSorts)'
      BY <1>2, <2>1, <2>2, WalkingLeaves DEF FoundInv
    <3> QED BY <3>1, <1>2, <2>1, <2>2 DEF FoundInv
  <2>3. CASE lister = "filters"
    <3>1. Walking("filters", Filtering)'
      BY <1>2, <2>1, <2>3, WalkingLeaves DEF FoundInv
    <3> QED BY <3>1, <1>2, <2>1, <2>3 DEF FoundInv
  <2> QED BY <2>1, <2>2, <2>3
<1>9. CASE FiltersFound
  <2>1. UNCHANGED <<memory, kept>> /\ lister = "filters" /\ WalkEnds /\ lister' = "ready"
    BY <1>9 DEF FiltersFound
  <2>2. Walking("filters", Filtering) /\ Finding("sorts") = Those(ChainsFrom[plan.root], DefaultSorts)
    BY <2>1 DEF FoundInv
  <2>3. Finding("filters") = Those(ChainsFrom[plan.root], Filtering)
    BY <2>1, <2>2, WalkingEnds
  <2> QED BY <1>2, <2>1, <2>2, <2>3 DEF FoundInv
<1> QED BY <1>3, <1>4, <1>5, <1>6, <1>7, <1>8, <1>9

(* Callers leave the lists as they are. *)
LEMMA CallersFind ==
  ASSUME QueryInv, FoundInv, NEW c \in Callers,
         AskToList(c) \/ Validate(c) \/ Build(c) \/ Run(c) \/ Fail(c) \/ AskToGet(c)
  PROVE  FoundInv'
<1>1. UNCHANGED <<stack, kept, plan, lister>>
  BY DEF AskToList, Validate, Build, Run, Fail, AskToGet
<1>2. \A l \in Lists : \A i \in 1 .. kept[l].len :
        memory'[kept[l].array][i] = memory[kept[l].array][i]
  <2>1. CASE AskToList(c)
    <3>1. memory' = AppendTo(memory, kept["sorts"], TieBreakers).heap
      BY <2>1 DEF AskToList, Begin
    <3> QED BY <3>1, TiesAppended
  <2>2. CASE Validate(c) \/ Build(c) \/ Run(c) \/ Fail(c) \/ AskToGet(c)
    BY <2>2 DEF Validate, Build, Run, Fail, AskToGet
  <2> QED BY <2>1, <2>2
<1>3. Finding("sorts")' = Finding("sorts") /\ Finding("filters")' = Finding("filters")
  BY <1>1, <1>2, FoundStays
<1>4. \A list \in Lists : \A wanted : Finding(list)' = Finding(list) /\ Walking(list, wanted)
         => Walking(list, wanted)'
  BY <1>1 DEF Walking
<1> QED BY <1>1, <1>3, <1>4 DEF FoundInv, Lists

LEMMA FoundInvariant == Spec => [](QueryInv /\ FoundInv)
<1>1. Init => QueryInv /\ FoundInv
  BY InitQuery, InitFound
<1>2. QueryInv /\ FoundInv /\ [Next]_vars => FoundInv'
  <2> SUFFICES ASSUME QueryInv, FoundInv, [Next]_vars PROVE FoundInv'
    OBVIOUS
  <2>1. CASE UNCHANGED vars
    BY <2>1 DEF vars, FoundInv, Finding, Walking
  <2>2. CASE \E c \in Callers : AskToList(c) \/ Validate(c) \/ Build(c) \/ Run(c) \/ Fail(c) \/ AskToGet(c)
    BY <2>2, CallersFind
  <2> QED BY <2>1, <2>2, BuildingFinds DEF Next
<1>3. QueryInv /\ [Next]_vars => QueryInv'
  BY NextQuery
<1> QED BY <1>1, <1>2, <1>3, PTL DEF Spec

LEMMA FoundAll == QueryInv /\ FoundInv => WalkFindsAll
<1> SUFFICES ASSUME QueryInv, FoundInv PROVE WalkFindsAll
  OBVIOUS
<1>1. ASSUME NEW list \in Lists PROVE Found(list) = Finding(list)
  <2>1. IsHeap(memory) /\ Sound(memory, kept[list])
    BY DEF QueryInv, WalkInv, KeptInv
  <2>2. /\ Len(Cells(memory, kept[list])) = kept[list].len
        /\ DOMAIN Cells(memory, kept[list]) = 1 .. kept[list].len
        /\ \A i \in 1 .. kept[list].len :
             Cells(memory, kept[list])[i] = memory[kept[list].array][i]
    BY <2>1, CellsOf
  <2> QED BY <2>2 DEF Found, Kept, Finding, FoundIn
<1>2. Found("sorts") = Finding("sorts") /\ Found("filters") = Finding("filters")
  BY <1>1 DEF Lists
<1> QED BY <1>2 DEF FoundInv, WalkFindsAll

(* Once the service is built, WalkPathNodes has found every field that is    *)
(* annotated as a default sort or filter, at every place of the message      *)
(* where it is, once, in the order of the descriptors.                       *)
THEOREM WalkFindsEverything == Spec => []WalkFindsAll
  BY FoundInvariant, FoundAll, PTL

-----------------------------------------------------------------------------
(***************************************************************************)
(* The tie breakers behind the default sorts.  base is the list that all   *)
(* callers share, slice what append made of it for one of them.            *)
(***************************************************************************)
Tied(heap, base, ties, slice) ==
  /\ slice.len = base.len + Len(ties)
  /\ \A i \in 1 .. base.len : heap[slice.array][i] = heap[base.array][i]
  /\ \A i \in 1 .. Len(ties) : heap[slice.array][base.len + i] = ties[i]

(* Cells are as before, or are tie breakers behind the list. *)
TiesWritten(heap, more, base, ties) ==
  \A a \in 1 .. Len(heap) : \A i \in 1 .. Len(heap[a]) :
    \/ more[a][i] = heap[a][i]
    \/ \E k \in 1 .. Len(ties) : a = base.array /\ i = base.len + k /\ more[a][i] = ties[k]

(* Whoever appends the same tie breakers in the same place changes nothing. *)
LEMMA TiedStays ==
  ASSUME NEW heap, IsHeap(heap), NEW more, NEW base, Sound(heap, base),
         NEW S, NEW ties \in Seq(S), NEW slice, Sound(heap, slice),
         Tied(heap, base, ties, slice), TiesWritten(heap, more, base, ties)
  PROVE  Tied(more, base, ties, slice)
<1>1. PICK n \in Nat, k \in Nat : n = base.len /\ k = Len(ties)
  BY DEF Sound, Slices
<1>2. slice.len = n + k
  BY <1>1 DEF Tied
<1>3. ASSUME NEW s, Sound(heap, s), NEW i \in 1 .. s.len
      PROVE  s.array \in 1 .. Len(heap) /\ i \in 1 .. Len(heap[s.array])
  <2>1. s.len \in Nat /\ s.array # 0
    BY <1>3, CapacityNat
  <2>2. s.array \in 1 .. Len(heap) /\ s.len <= Len(heap[s.array])
    BY <1>3, <2>1, CapacityNat DEF Sound
  <2>3. Len(heap[s.array]) \in Nat
    BY <1>3, <2>1, <2>2, CapacityNat
  <2> QED BY <2>1, <2>2, <2>3
<1>4. ASSUME NEW a \in 1 .. Len(heap), NEW i \in 1 .. Len(heap[a])
      PROVE  \/ more[a][i] = heap[a][i]
             \/ \E m \in 1 .. k : i = n + m /\ more[a][i] = ties[m]
  <2>1. \/ more[a][i] = heap[a][i]
        \/ \E m \in 1 .. Len(ties) :
             a = base.array /\ i = base.len + m /\ more[a][i] = ties[m]
    BY DEF TiesWritten
  <2> QED BY <1>1, <2>1
<1>5. ASSUME NEW i \in 1 .. n
      PROVE  more[slice.array][i] = more[base.array][i]
  <2>1. i \in 1 .. slice.len /\ i \in 1 .. base.len
    BY <1>1, <1>2
  <2>2. \A j \in 1 .. k : i # n + j
    OBVIOUS
  <2>3. /\ slice.array \in 1 .. Len(heap) /\ i \in 1 .. Len(heap[slice.array])
        /\ base.array \in 1 .. Len(heap) /\ i \in 1 .. Len(heap[base.array])
    BY <1>3, <2>1
  <2>4. more[slice.array][i] = heap[slice.array][i] /\ more[base.array][i] = heap[base.array][i]
    BY <1>4, <2>2, <2>3
  <2> QED BY <2>1, <2>4 DEF Tied
<1>6. ASSUME NEW i \in 1 .. k
      PROVE  more[slice.array][n + i] = ties[i]
  <2>1. PICK j \in 1 .. slice.len : j = n + i /\ \A m \in 1 .. k : j = n + m => m = i
    BY <1>2
  <2>2. slice.array \in 1 .. Len(heap) /\ j \in 1 .. Len(heap[slice.array])
    BY <1>3
  <2>3. heap[slice.array][j] = ties[i]
    BY <1>1, <2>1 DEF Tied
  <2>4. \/ more[slice.array][j] = heap[slice.array][j]
        \/ \E m \in 1 .. k : j = n + m /\ more[slice.array][j] = ties[m]
    BY <1>4, <2>2
  <2> QED BY <2>1, <2>3, <2>4
<1> QED BY <1>1, <1>2, <1>5, <1>6 DEF Tied

LEMMA TiesLaid ==
  ASSUME NEW heap, IsHeap(heap), NEW base, Sound(heap, base), NEW S, NEW ties \in Seq(S)
  PROVE  LET r == AppendTo(heap, base, ties)
         IN  /\ Tied(r.heap, base, ties, r.slice)
             /\ TiesWritten(heap, r.heap, base, ties)
<1> DEFINE r == AppendTo(heap, base, ties)
<1>1. PICK n \in Nat, k \in Nat : n = base.len /\ k = Len(ties)
  BY DEF Sound, Slices
<1>2. \A a \in 1 .. Len(heap) : Len(heap[a]) \in Nat
  BY DEF IsHeap
<1>3. CASE ties = <<>>
  <2>1. r.heap = heap /\ r.slice = base
    BY <1>3, AppendNothing
  <2>2. k = 0 /\ base.len = n + 0
    BY <1>1, <1>3
  <2>3. TiesWritten(heap, heap, base, ties)
    BY DEF TiesWritten
  <2>4. Tied(heap, base, ties, base)
    BY <1>1, <2>2 DEF Tied
  <2> QED BY <2>1, <2>3, <2>4
<1>4. CASE ties # <<>> /\ n + k <= Capacity(heap, base)
  <2>1. Appended(heap, base, ties, r) /\ r.slice.array = base.array
    BY <1>1, <1>4, AppendInPlace
  <2>2. base.array \in 1 .. Len(heap)
    <3>1. k >= 1 /\ Capacity(heap, base) \in Nat
      BY <1>1, <1>4, CapacityNat
    <3> QED BY <1>4, <3>1, CapacityNat
  <2>3. ASSUME NEW i \in 1 .. n PROVE r.heap[base.array][i] = heap[base.array][i]
    <3> HIDE DEF r
    <3> QED BY <1>1, <2>1 DEF Appended
  <2>4. Tied(r.heap, base, ties, r.slice)
    <3> HIDE DEF r
    <3> QED BY <1>1, <2>1, <2>3 DEF Tied, Appended
  <2>5. TiesWritten(heap, r.heap, base, ties)
    <3> HIDE DEF r
    <3> SUFFICES ASSUME NEW a \in 1 .. Len(heap), NEW i \in 1 .. Len(heap[a]),
                        r.heap[a][i] # heap[a][i]
                 PROVE  \E m \in 1 .. k : /\ a = base.array /\ i = n + m
                                          /\ r.heap[a][i] = ties[m]
      BY <1>1 DEF TiesWritten
    <3>1. a = base.array /\ i > n /\ i <= n + k /\ i \in Nat
      BY <1>1, <1>2, <2>1 DEF Appended, OnlyAppends
    <3>2. PICK m \in 1 .. k : i = n + m
      <4>1. i - n \in 1 .. k /\ i = n + (i - n)
        BY <3>1
      <4> QED BY <4>1
    <3>3. r.heap[a][n + m] = ties[m]
      BY <1>1, <2>1, <3>1 DEF Appended
    <3> QED BY <3>1, <3>2, <3>3
  <2> QED BY <2>4, <2>5
<1>5. CASE ties # <<>> /\ n + k > Capacity(heap, base)
  <2>1. Appended(heap, base, ties, r) /\ InNewArray(heap, base, r)
    BY <1>1, <1>5, AppendFresh
  <2>2. TiesWritten(heap, r.heap, base, ties)
    <3> HIDE DEF r
    <3> QED BY <2>1 DEF InNewArray, TiesWritten
  <2>3. ASSUME NEW i \in 1 .. n PROVE r.heap[base.array][i] = heap[base.array][i]
    <3> HIDE DEF r
    <3>1. base.array \in 1 .. Len(heap)
      BY <1>1, CapacityNat
    <3> QED BY <2>1, <3>1 DEF InNewArray
  <2>4. Tied(r.heap, base, ties, r.slice)
    <3> HIDE DEF r
    <3>1. /\ r.slice.len = base.len + Len(ties)
          /\ \A i \in 1 .. base.len : r.heap[r.slice.array][i] = r.heap[base.array][i]
          /\ \A i \in 1 .. Len(ties) : r.heap[r.slice.array][base.len + i] = ties[i]
      BY <1>1, <2>1, <2>3 DEF Appended
    <3> QED BY <3>1 DEF Tied
  <2> QED BY <2>2, <2>4
<1>6. n + k <= Capacity(heap, base) \/ n + k > Capacity(heap, base)
  BY CapacityNat
<1> QED BY <1>3, <1>4, <1>5, <1>6

-----------------------------------------------------------------------------
(***************************************************************************)
(* The order of a listing without sorts of its own.                        *)
(***************************************************************************)
AsOrdered ==
  LET defaults == Those(ChainsFrom[plan.root], DefaultSorts)
      Nodes(chain) == [i \in DOMAIN chain |-> FieldNode(chain[i].name, chain[i])]
  IN  [i \in DOMAIN defaults |-> [column |-> FALSE, nodes |-> Nodes(defaults[i])]]
      \o TieBreakers

(* Those are of the chains, and are wanted. *)
LEMMA ThoseAmong ==
  ASSUME NEW chains \in Seq(Chains), NEW wanted
  PROVE  Those(chains, wanted) \in
           Seq({c \in Chains : \E i \in DOMAIN chains : c = chains[i] /\ Last(c) \in wanted})
<1> DEFINE W == {c \in Chains : \E i \in DOMAIN chains : c = chains[i] /\ Last(c) \in wanted}
           each == [i \in DOMAIN chains |-> Wanting(chains[i], wanted)]
<1>1. PICK n \in Nat : n = Len(chains) /\ DOMAIN chains = 1 .. n
  OBVIOUS
<1>2. Those(chains, wanted) = FlattenSeq(each)
  BY DEF Those, Wanting
<1>3. ASSUME NEW i \in 1 .. n PROVE Wanting(chains[i], wanted) \in Seq(W)
  <2>1. chains[i] \in Chains
    BY <1>1
  <2>2. CASE Last(chains[i]) \in wanted
    <3>1. chains[i] \in W
      BY <1>1, <2>1, <2>2
    <3> HIDE DEF W
    <3> QED BY <2>2, <3>1 DEF Wanting
  <2>3. CASE Last(chains[i]) \notin wanted
    <3> HIDE DEF W
    <3> QED BY <2>3 DEF Wanting
  <2> QED BY <2>2, <2>3
<1> HIDE DEF W
<1>4. each \in Seq(Seq(W))
  BY <1>1, <1>3
<1> HIDE DEF each
<1>5. Those(chains, wanted) \in Seq(W)
  BY <1>2, <1>4, FlattenType
<1> QED BY <1>5 DEF W

(* A cell that the walk has kept is ordered by as what it was kept for. *)
LEMMA KeptOrders ==
  ASSUME IsHeap(memory), NEW cell, KeptOK(memory, cell), Len(cell.chain) \in {1, 2, 3, 5}
  PROVE  Ordering(cell) =
           [column |-> FALSE,
            nodes |-> [n \in DOMAIN cell.chain |-> FieldNode(cell.chain[n].name, cell.chain[n])]]
<1>1. /\ cell.chain \in Seq(FieldRefs) /\ Fits(memory, cell.path)
      /\ cell.path.len = Len(cell.chain) /\ Says(memory, cell.path, cell.chain)
  BY DEF KeptOK, KeptCells
<1>2. PICK chain \in Seq(FieldRefs) : chain = cell.chain
  BY <1>1
<1>3. PICK len \in Nat : len = Len(chain) /\ DOMAIN chain = 1 .. len
  OBVIOUS
<1>4. PICK path : path = cell.path
  OBVIOUS
<1>5. Sound(memory, path) /\ path.len = len
  BY <1>1, <1>2, <1>3, <1>4, FitsNumbers
<1>6. PICK S : /\ Cells(memory, path) \in Seq(S) /\ Len(Cells(memory, path)) = path.len
               /\ \A n \in 1 .. path.len : Cells(memory, path)[n] = memory[path.array][n]
  BY <1>5, CellsOf
<1>7. PICK nodes \in Seq(S) : nodes = KeptNodes(cell)
  BY <1>4, <1>6 DEF KeptNodes
<1>8. /\ nodes = [n \in 1 .. len |-> nodes[n]]
      /\ \A n \in 1 .. len : nodes[n] = memory[path.array][n]
  BY <1>4, <1>5, <1>6, <1>7 DEF KeptNodes
<1>9. \A n \in 1 .. len : nodes[n] = FieldNode(chain[n].name, chain[n])
  BY <1>1, <1>2, <1>4, <1>5, <1>8 DEF Says
<1>10. nodes = [n \in DOMAIN chain |-> FieldNode(chain[n].name, chain[n])]
  BY <1>3, <1>8, <1>9
<1>11. "nodes" \notin DOMAIN cell
  BY DEF KeptOK, KeptCells
<1> QED BY <1>2, <1>7, <1>10, <1>11 DEF Ordering

(* Tie breakers have nodes already. *)
LEMMA TieOrders ==
  ASSUME plan \in Plans, NEW i \in 1 .. Len(TieBreakers)
  PROVE  Ordering(TieBreakers[i]) = TieBreakers[i]
<1>1. PICK S : TieBreakers \in Seq(S) /\ \A tie \in S : "nodes" \in DOMAIN tie
  BY TiesAreSequence
<1>2. PICK ties \in Seq(S) : ties = TieBreakers
  BY <1>1
<1>3. ties[i] \in S
  BY <1>2
<1> QED BY <1>1, <1>2, <1>3 DEF Ordering

LEMMA TiedOrders ==
  ASSUME QueryInv, FoundInv, ShortSorts, lister = "ready",
         NEW slice, Sound(memory, slice), Tied(memory, kept["sorts"], TieBreakers, slice)
  PROVE  LET cells == Cells(memory, slice)
         IN  [i \in DOMAIN cells |-> Ordering(cells[i])] = AsOrdered
<1>1. /\ plan \in Plans /\ plan.root \in Messages /\ IsHeap(memory) /\ "sorts" \in Lists
      /\ kept["sorts"].len \in Nat
      /\ \A i \in 1 .. kept["sorts"].len : KeptOK(memory, memory[kept["sorts"].array][i])
  BY PlansAssumption DEF QueryInv, ListerInv, WalkInv, KeptInv, Lists, Slices
<1>2. PICK base : base = kept["sorts"]
  OBVIOUS
<1>3. PICK n \in Nat : n = base.len
  BY <1>1, <1>2
<1>4. PICK S : TieBreakers \in Seq(S)
  BY <1>1, TiesAreSequence
<1>5. PICK ties \in Seq(S) : ties = TieBreakers
  BY <1>4
<1>6. PICK k \in Nat : k = Len(ties) /\ DOMAIN ties = 1 .. k
  OBVIOUS
<1>7. /\ slice.len = n + k
      /\ \A i \in 1 .. n : memory[slice.array][i] = memory[base.array][i]
      /\ \A i \in 1 .. k : memory[slice.array][n + i] = ties[i]
  BY <1>2, <1>3, <1>5, <1>6 DEF Tied
<1>8. PICK C : /\ Cells(memory, slice) \in Seq(C) /\ Len(Cells(memory, slice)) = slice.len
               /\ \A i \in 1 .. slice.len : Cells(memory, slice)[i] = memory[slice.array][i]
  BY <1>1, CellsOf
<1>9. PICK cells \in Seq(C) :
        /\ cells = Cells(memory, slice) /\ Len(cells) = n + k
        /\ \A i \in 1 .. slice.len : cells[i] = memory[slice.array][i]
  BY <1>7, <1>8
<1>10. PICK m \in Nat : m = n + k /\ DOMAIN cells = 1 .. m
  BY <1>9
<1> DEFINE all == ChainsFrom[plan.root]
           W == {c \in Chains : \E i \in DOMAIN all : c = all[i] /\ Last(c) \in DefaultSorts}
<1>11. PICK defaults \in Seq(W) :
         defaults = Those(ChainsFrom[plan.root], DefaultSorts) /\ DOMAIN defaults = 1 .. n
  <2>1. all \in Seq(Chains)
    BY <1>1, ChainsType
  <2>2. Those(all, DefaultSorts) \in Seq(W)
    BY <2>1, ThoseAmong
  <2>3. Those(all, DefaultSorts) = FoundIn(memory, base)
    BY <1>2 DEF FoundInv, Finding
  <2> QED BY <1>3, <2>2, <2>3 DEF FoundIn
<1>12. ASSUME NEW c \in W PROVE c \in Chains /\ Len(c) \in {1, 2, 3, 5}
  BY <1>1, <1>12 DEF ShortSorts
<1>13. ASSUME NEW i \in 1 .. n
       PROVE  defaults[i] = memory[base.array][i].chain /\ defaults[i] \in W
  <2>1. defaults = FoundIn(memory, base)
    BY <1>2, <1>11 DEF FoundInv, Finding
  <2>2. defaults[i] \in W
    BY <1>11
  <2> QED BY <1>3, <2>1, <2>2 DEF FoundIn
<1> HIDE DEF W
<1> DEFINE Sorting(chain) ==
      [column |-> FALSE, nodes |-> [i \in DOMAIN chain |-> FieldNode(chain[i].name, chain[i])]]
<1>14. ASSUME NEW i \in 1 .. n PROVE Ordering(cells[i]) = Sorting(defaults[i])
  <2>1. i \in 1 .. slice.len
    BY <1>7
  <2>2. PICK cell : cell = memory[base.array][i]
    OBVIOUS
  <2>3. cells[i] = cell /\ KeptOK(memory, cell) /\ defaults[i] = cell.chain
    BY <1>1, <1>2, <1>3, <1>7, <1>9, <1>13, <2>1, <2>2
  <2>4. Len(cell.chain) \in {1, 2, 3, 5}
    BY <1>12, <1>13, <2>3
  <2> QED BY <1>1, <2>3, <2>4, KeptOrders
<1>15. ASSUME NEW i \in 1 .. k PROVE Ordering(cells[n + i]) = ties[i]
  <2>1. n + i \in 1 .. slice.len
    BY <1>7
  <2>2. cells[n + i] = ties[i]
    BY <1>7, <1>9, <2>1
  <2> QED BY <1>1, <1>5, <1>6, <2>2, TieOrders
<1> DEFINE sorting == [i \in 1 .. n |-> Sorting(defaults[i])]
           order == [i \in 1 .. m |-> Ordering(cells[i])]
<1>16. AsOrdered = sorting \o ties
  BY <1>5, <1>11 DEF AsOrdered
<1>17. order = sorting \o ties
  <2> DEFINE Q == {order[i] : i \in 1 .. m} \cup {sorting[i] : i \in 1 .. n} \cup S
  <2>1. /\ \A i \in 1 .. n : sorting[i] = Ordering(cells[i])
        /\ \A i \in 1 .. k : ties[i] = Ordering(cells[n + i])
    BY <1>14, <1>15
  <2> HIDE DEF Sorting
  <2>2. /\ \A i \in 1 .. n : i \in 1 .. m
        /\ \A i \in 1 .. k : n + i \in 1 .. m
    BY <1>10
  <2>3. /\ \A i \in 1 .. n : order[i] = sorting[i]
        /\ \A i \in 1 .. k : order[n + i] = ties[i]
    BY <2>1, <2>2
  <2>4. order \in Seq(Q) /\ sorting \in Seq(Q) /\ ties \in Seq(Q)
    OBVIOUS
  <2>5. Len(order) = m /\ Len(sorting) = n
    OBVIOUS
  <2> HIDE DEF order, sorting, Q
  <2>6. PICK whole \in Seq(Q), first \in Seq(Q), last \in Seq(Q) :
          whole = order /\ first = sorting /\ last = ties
    BY <2>4
  <2>7. /\ Len(whole) = Len(first) + Len(last)
        /\ \A i \in 1 .. Len(first) : whole[i] = first[i]
        /\ \A i \in 1 .. Len(last) : whole[Len(first) + i] = last[i]
    BY <1>6, <1>10, <2>3, <2>5, <2>6
  <2>8. whole = first \o last
    BY <2>7, ConcatIs
  <2> QED BY <2>6, <2>8
<1> QED BY <1>9, <1>10, <1>16, <1>17

(* A request has its sorts until it is answered, and their order once built. *)
OrderOK(caller) ==
  /\ caller.at = "idle" \/ lister = "ready"
  /\ caller.at # "done" => caller.answer = Nothing
  /\ caller.at \in {"validate", "build", "run"} =>
       Tied(memory, kept["sorts"], TieBreakers, caller.sorts)
  /\ caller.at = "run" \/ caller.answer.is = "rows" =>
       (caller.request.sorts = <<>> => caller.order = AsOrdered)

OrderInv == \A c \in Callers : OrderOK(callers[c])

LEMMA InitOrder == Init => OrderInv
<1> SUFFICES ASSUME Init, NEW c \in Callers PROVE OrderOK(callers[c])
  BY DEF OrderInv
<1>1. callers[c] = Idle
  BY DEF Init
<1> QED BY <1>1 DEF Idle, Nothing, OrderOK

(* While the service is built, nobody has asked for anything. *)
LEMMA BuildingOrders ==
  ASSUME OrderInv,
         Construct \/ FindSort \/ SortsFound \/ FindFilter \/ RefuseDefault \/ Leave \/ FiltersFound
  PROVE  OrderInv'
<1>1. callers' = callers /\ lister # "ready"
  BY DEF Construct, FindSort, SortsFound, FindFilter, RefuseDefault, Leave, FiltersFound
<1> SUFFICES ASSUME NEW c \in Callers PROVE OrderOK(callers[c])'
  BY DEF OrderInv
<1>2. callers'[c].at = "idle" /\ callers'[c].answer = Nothing
  BY <1>1 DEF OrderInv, OrderOK
<1> QED BY <1>2 DEF OrderOK, Nothing

(* The others keep what they have while one of them takes its step. *)
LEMMA OneOrders ==
  ASSUME QueryInv, OrderInv, NEW c \in Callers, NEW caller,
         UNCHANGED <<kept, plan, lister>>,
         callers' = [callers EXCEPT ![c] = caller], OrderOK(caller)',
         memory' = memory \/ memory' = AppendTo(memory, kept["sorts"], TieBreakers).heap
  PROVE  OrderInv'
<1>1. /\ plan \in Plans /\ IsHeap(memory) /\ Sound(memory, kept["sorts"])
      /\ DOMAIN callers = Callers /\ \A d \in Callers : Sound(memory, callers[d].sorts)
  BY DEF QueryInv, ListerInv, WalkInv, KeptInv, Lists, CallersInv, CallerOK
<1>2. TieBreakers' = TieBreakers /\ AsOrdered' = AsOrdered
  BY DEF TieBreakers, AsOrdered
<1>3. PICK S : TieBreakers \in Seq(S)
  BY <1>1, TiesAreSequence
<1>4. PICK ties \in Seq(S) : ties = TieBreakers
  BY <1>3
<1>5. PICK base : base = kept["sorts"]
  OBVIOUS
<1>6. ASSUME NEW slice, Sound(memory, slice), Tied(memory, base, ties, slice)
      PROVE  Tied(memory', base, ties, slice)
  <2>1. CASE memory' = memory
    BY <1>6, <2>1
  <2>2. CASE memory' = AppendTo(memory, base, ties).heap
    <3>1. TiesWritten(memory, memory', base, ties)
      BY <1>1, <1>5, <2>2, TiesLaid
    <3>2. PICK more : more = memory'
      OBVIOUS
    <3>3. Tied(more, base, ties, slice)
      BY <1>1, <1>5, <1>6, <3>1, <3>2, TiedStays
    <3> QED BY <3>2, <3>3
  <2> QED BY <1>4, <1>5, <2>1, <2>2
<1> SUFFICES ASSUME NEW d \in Callers PROVE OrderOK(callers[d])'
  BY DEF OrderInv
<1>7. CASE d = c
  <2>1. callers'[d] = caller
    BY <1>1, <1>7
  <2> QED BY <2>1 DEF OrderOK
<1>8. CASE d # c
  <2>1. PICK other : other = callers[d] /\ callers'[d] = other
    BY <1>1, <1>8
  <2>2. OrderOK(other) /\ Sound(memory, other.sorts)
    BY <1>1, <2>1 DEF OrderInv
  <2>3. other.at \in {"validate", "build", "run"} =>
          Tied(memory, kept["sorts"], TieBreakers, other.sorts)'
    <3> SUFFICES ASSUME other.at \in {"validate", "build", "run"}
                 PROVE  Tied(memory', base, ties, other.sorts)
      BY <1>2, <1>4, <1>5
    <3>1. Tied(memory, base, ties, other.sorts)
      BY <1>4, <1>5, <2>2 DEF OrderOK
    <3> QED BY <1>6, <2>2, <3>1
  <2> QED BY <1>2, <2>1, <2>2, <2>3 DEF OrderOK
<1> QED BY <1>7, <1>8

(* A request without sorts is ordered as it should be. *)
LEMMA DefaultOrder ==
  ASSUME QueryInv, FoundInv, ShortSorts, OrderInv, NEW c \in Callers,
         callers[c].at \in {"validate", "build", "run"}, callers[c].request.sorts = <<>>
  PROVE  OrderOf(c) = AsOrdered
<1>1. CallerOK(callers[c]) /\ OrderOK(callers[c])
  BY DEF QueryInv, CallersInv, OrderInv
<1>2. Sound(memory, callers[c].sorts)
  BY <1>1 DEF CallerOK
<1>3. lister = "ready" /\ Tied(memory, kept["sorts"], TieBreakers, callers[c].sorts)
  BY <1>1 DEF OrderOK
<1> QED BY <1>2, <1>3, TiedOrders DEF OrderOf

LEMMA CallersOrder ==
  ASSUME QueryInv, FoundInv, ShortSorts, OrderInv, NEW c \in Callers,
         AskToList(c) \/ Validate(c) \/ Build(c) \/ Run(c) \/ Fail(c) \/ AskToGet(c)
  PROVE  OrderInv'
<1>1. UNCHANGED <<kept, plan, lister>>
  BY DEF AskToList, Validate, Build, Run, Fail, AskToGet
<1>2. PICK caller : caller = callers[c]
  OBVIOUS
<1>3. /\ CallerOK(caller) /\ OrderOK(caller) /\ plan \in Plans /\ IsHeap(memory)
      /\ Sound(memory, kept["sorts"]) /\ DOMAIN callers = Callers
  BY <1>2 DEF QueryInv, ListerInv, CallersInv, WalkInv, KeptInv, Lists, OrderInv
<1>4. TieBreakers' = TieBreakers /\ AsOrdered' = AsOrdered
  BY <1>1 DEF TieBreakers, AsOrdered
<1>5. CASE AskToList(c)
  <2> DEFINE r == AppendTo(memory, kept["sorts"], TieBreakers)
  <2>1. PICK req \in plan.requests : Begin(c, req)
    BY <1>5 DEF AskToList
  <2>2. PICK slice : slice = r.slice
    OBVIOUS
  <2>3. PICK now : now = [Idle EXCEPT !.at = "validate", !.request = req, !.sorts = slice]
    OBVIOUS
  <2>4. memory' = r.heap /\ callers' = [callers EXCEPT ![c] = now]
    BY <2>1, <2>2, <2>3 DEF Begin
  <2>5. now.at = "validate" /\ now.sorts = slice /\ now.answer = Nothing
    BY <2>3 DEF Idle
  <2>6. Tied(memory', kept["sorts"], TieBreakers, slice)
    <3>1. PICK S : TieBreakers \in Seq(S)
      BY <1>3, TiesAreSequence
    <3>2. Tied(r.heap, kept["sorts"], TieBreakers, r.slice)
      BY <1>3, <3>1, TiesLaid
    <3> QED BY <2>2, <2>4, <3>2
  <2>7. lister = "ready"
    BY <1>5 DEF AskToList
  <2>8. OrderOK(now)'
    <3> HIDE DEF r
    <3> QED BY <1>1, <1>4, <2>5, <2>6, <2>7 DEF OrderOK, Nothing
  <2> QED BY <1>1, <2>4, <2>8, OneOrders
<1>6. CASE Validate(c) \/ Build(c) \/ Run(c) \/ Fail(c)
  <2>1. memory' = memory /\ caller.at \in {"validate", "build", "run"}
    BY <1>2, <1>6 DEF Validate, Build, Run, Fail
  <2>2. /\ lister = "ready" /\ caller.answer = Nothing
        /\ Tied(memory, kept["sorts"], TieBreakers, caller.sorts)
    BY <1>3, <2>1 DEF OrderOK
  <2>3. ASSUME Goes(c, "build") PROVE OrderInv'
    <3>1. PICK now : now = [caller EXCEPT !.at = "build"]
      OBVIOUS
    <3>2. callers' = [callers EXCEPT ![c] = now]
      BY <1>2, <2>3, <3>1 DEF Goes
    <3>3. now.at = "build" /\ now.answer = Nothing /\ now.sorts = caller.sorts
      BY <1>3, <2>2, <3>1 DEF CallerOK
    <3>4. OrderOK(now)'
      BY <1>1, <1>4, <2>1, <2>2, <3>3 DEF OrderOK, Nothing
    <3> QED BY <1>1, <2>1, <3>2, <3>4, OneOrders
  <2>4. ASSUME NEW answer, Answer(c, answer),
               answer.is = "rows" => caller.at = "run"
        PROVE  OrderInv'
    <3>1. PICK now : now = [caller EXCEPT !.at = "done", !.answer = answer]
      OBVIOUS
    <3>2. callers' = [callers EXCEPT ![c] = now]
      BY <1>2, <2>4, <3>1 DEF Answer
    <3>3. /\ now.at = "done" /\ now.answer = answer /\ now.request = caller.request
          /\ now.order = caller.order
      BY <1>3, <3>1 DEF CallerOK
    <3>4. OrderOK(now)'
      BY <1>1, <1>3, <1>4, <2>2, <2>4, <3>3 DEF OrderOK
    <3> QED BY <1>1, <2>1, <3>2, <3>4, OneOrders
  <2>5. CASE Validate(c)
    <3>1. PICK check : \/ Goes(c, "build")
                       \/ Answer(c, [is |-> "invalid", how |-> check])
      BY <2>5 DEF Validate
    <3> QED BY <2>3, <2>4, <3>1
  <2>6. CASE Build(c)
    <3>1. PICK order :
            /\ order = OrderOf(c)
            /\ \/ Answer(c, [is |-> "unbuilt"])
               \/ Answer(c, [is |-> "panic"])
               \/ callers' = [callers EXCEPT ![c].at = "run", ![c].order = order]
      BY <2>6 DEF Build
    <3>2. CASE callers' = [callers EXCEPT ![c].at = "run", ![c].order = order]
      <4>1. PICK now : now = [caller EXCEPT !.at = "run", !.order = order]
        OBVIOUS
      <4>2. callers' = [callers EXCEPT ![c] = now]
        BY <1>2, <3>2, <4>1
      <4>3. /\ now.at = "run" /\ now.answer = Nothing /\ now.sorts = caller.sorts
            /\ now.request = caller.request /\ now.order = order
        BY <1>3, <2>2, <4>1 DEF CallerOK
      <4>4. ASSUME caller.request.sorts = <<>> PROVE order = AsOrdered
        BY <1>2, <2>1, <3>1, <4>4, DefaultOrder
      <4>5. OrderOK(now)'
        BY <1>1, <1>4, <2>1, <2>2, <4>3, <4>4 DEF OrderOK, Nothing
      <4> QED BY <1>1, <2>1, <4>2, <4>5, OneOrders
    <3> QED BY <2>4, <3>1, <3>2
  <2>7. CASE Run(c)
    <3>1. PICK results : Answer(c, [is |-> "rows", results |-> results])
      BY <2>7 DEF Run
    <3>2. caller.at = "run"
      BY <1>2, <2>7 DEF Run
    <3> QED BY <2>4, <3>1, <3>2
  <2>8. CASE Fail(c)
    BY <2>4, <2>8 DEF Fail
  <2> QED BY <1>6, <2>5, <2>6, <2>7, <2>8
<1>7. CASE AskToGet(c)
  <2> DEFINE got(req) == Get(plan.properties, plan.states, plan.events, plan.authRows,
                             plan.claim, req.keys)
  <2>1. PICK req \in plan.requests :
          callers' = [callers EXCEPT ![c] =
            [Idle EXCEPT !.at = "done", !.request = req, !.answer = got(req)]]
    BY <1>7 DEF AskToGet
  <2>2. PICK answer : answer = got(req)
    OBVIOUS
  <2>3. PICK now : now = [Idle EXCEPT !.at = "done", !.request = req, !.answer = answer]
    OBVIOUS
  <2>4. answer = got(req) /\ callers' = [callers EXCEPT ![c] = now]
    BY <2>1, <2>2, <2>3
  <2>5. now.at = "done" /\ now.answer = answer
    BY <2>3 DEF Idle
  <2>6. answer.is # "rows"
    BY <2>4 DEF Get, Error
  <2>7. lister = "ready" /\ memory' = memory
    BY <1>7 DEF AskToGet
  <2>8. OrderOK(now)'
    BY <1>1, <2>5, <2>6, <2>7 DEF OrderOK
  <2> QED BY <1>1, <2>4, <2>7, <2>8, OneOrders
<1> QED BY <1>5, <1>6, <1>7

LEMMA OrderFromInv == OrderInv => SortsEndInTieBreaker
  BY DEF OrderInv, OrderOK, SortsEndInTieBreaker, AsOrdered

LEMMA OrderInvariant ==
  ASSUME ShortSorts
  PROVE  Spec => []OrderInv
<1>1. Init => QueryInv /\ FoundInv /\ OrderInv
  BY InitQuery, InitFound, InitOrder
<1>2. QueryInv /\ FoundInv /\ OrderInv /\ [Next]_vars => OrderInv'
  <2> SUFFICES ASSUME QueryInv, FoundInv, OrderInv, [Next]_vars PROVE OrderInv'
    OBVIOUS
  <2>1. CASE UNCHANGED vars
    BY <2>1 DEF vars, OrderInv, OrderOK, TieBreakers, AsOrdered
  <2>2. CASE \E c \in Callers : AskToList(c) \/ Validate(c) \/ Build(c) \/ Run(c) \/ Fail(c) \/ AskToGet(c)
    BY <2>2, CallersOrder
  <2> QED BY <2>1, <2>2, BuildingOrders DEF Next
<1> QED BY <1>1, <1>2, FoundInvariant, PTL DEF Spec

(* Whatever requests run at the same time and write behind the default sorts *)
(* that all of them share (BuildQuery), a request without sorts of its own   *)
(* is ordered by the default sorts and then by the tie breakers, if no field *)
(* with a default sort has a path that the walk itself can write over.       *)
THEOREM ListsInOrder ==
  ASSUME ShortSorts
  PROVE  Spec => []SortsEndInTieBreaker
  BY OrderInvariant, OrderFromInv, PTL

-----------------------------------------------------------------------------
(* What is in a sequence of sequences that is flattened. *)
LEMMA RangeConcat ==
  ASSUME NEW S, NEW a \in Seq(S), NEW b \in Seq(S)
  PROVE  Range(a \o b) = Range(a) \cup Range(b)
<1>1. PICK n \in Nat : n = Len(a) /\ DOMAIN a = 1 .. n
  OBVIOUS
<1>2. PICK k \in Nat : k = Len(b) /\ DOMAIN b = 1 .. k
  OBVIOUS
<1>3. PICK c \in Seq(S) : /\ c = a \o b /\ DOMAIN c = 1 .. n + k
                          /\ \A i \in 1 .. n : c[i] = a[i]
                          /\ \A i \in 1 .. k : c[n + i] = b[i]
  <2>1. /\ a \o b \in Seq(S) /\ DOMAIN (a \o b) = 1 .. n + k
        /\ \A i \in 1 .. n : (a \o b)[i] = a[i]
        /\ \A i \in 1 .. k : (a \o b)[n + i] = b[i]
    BY <1>1, <1>2, ConcatProperties
  <2> QED BY <2>1
<1>4. ASSUME NEW i \in 1 .. n + k PROVE c[i] \in Range(a) \cup Range(b)
  <2>1. CASE i \in 1 .. n
    BY <2>1, <1>1, <1>3 DEF Range
  <2>2. CASE i \notin 1 .. n
    <3>1. i - n \in 1 .. k /\ n + (i - n) = i
      BY <2>2
    <3>2. c[n + (i - n)] = b[i - n]
      BY <3>1, <1>3
    <3> QED BY <3>1, <3>2, <1>2 DEF Range
  <2> QED BY <2>1, <2>2
<1>5. ASSUME NEW i \in 1 .. n PROVE a[i] \in Range(c)
  <2>1. i \in 1 .. n + k
    OBVIOUS
  <2> QED BY <2>1, <1>3 DEF Range
<1>6. ASSUME NEW i \in 1 .. k PROVE b[i] \in Range(c)
  <2>1. n + i \in 1 .. n + k
    OBVIOUS
  <2> QED BY <2>1, <1>3 DEF Range
<1>7. Range(c) \subseteq Range(a) \cup Range(b)
  <2>1. \A x \in Range(c) : \E i \in 1 .. n + k : x = c[i]
    BY <1>3 DEF Range
  <2> QED BY <2>1, <1>4
<1>8. Range(a) \subseteq Range(c)
  <2>1. \A x \in Range(a) : \E i \in 1 .. n : x = a[i]
    BY <1>1 DEF Range
  <2> QED BY <2>1, <1>5
<1>9. Range(b) \subseteq Range(c)
  <2>1. \A x \in Range(b) : \E i \in 1 .. k : x = b[i]
    BY <1>2 DEF Range
  <2> QED BY <2>1, <1>6
<1> QED BY <1>3, <1>7, <1>8, <1>9

Ranges(seqs) == UNION {Range(seqs[i]) : i \in DOMAIN seqs}

(* The sequences of length n of which the flattened one has something else. *)
Differs(S, n) ==
  \E seqs \in Seq(Seq(S)) : Len(seqs) = n /\ Range(FlattenSeq(seqs)) # Ranges(seqs)

LEMMA FlattenRange ==
  ASSUME NEW S, NEW seqs \in Seq(Seq(S))
  PROVE  Range(FlattenSeq(seqs)) = Ranges(seqs)
<1> DEFINE bad == {n \in Nat : Differs(S, n)}
<1>1. SUFFICES ASSUME bad # {} PROVE FALSE
  <2>1. Len(seqs) \in Nat
    OBVIOUS
  <2> QED BY <2>1 DEF Differs
<1>2. PICK n \in bad : \A k \in bad : n <= k
  <2>1. bad \in SUBSET Nat
    OBVIOUS
  <2> HIDE DEF bad
  <2> QED BY <1>1, <2>1, LeastNatural
<1>3. PICK all \in Seq(Seq(S)) : Len(all) = n /\ Range(FlattenSeq(all)) # Ranges(all)
  BY <1>2 DEF Differs
<1>4. n # 0
  <2>1. SUFFICES ASSUME n = 0 PROVE FALSE
    OBVIOUS
  <2>2. all = <<>>
    BY <2>1, <1>3, EmptySeq
  <2>3. FlattenSeq(<<>>) = <<>>
    BY DEF FlattenSeq
  <2>4. Range(<<>>) = {} /\ Ranges(<<>>) = {}
    BY DEF Range, Ranges
  <2> QED BY <2>2, <2>3, <2>4, <1>3
<1>5. n - 1 \in Nat /\ n \in 1 .. n
  BY <1>4
<1> DEFINE T == Seq(S)
           front == [i \in 1 .. n - 1 |-> all[i]]
<1>6. all \in Seq(T) /\ DOMAIN all = 1 .. n /\ \A i \in 1 .. n : all[i] \in T
  BY <1>3
<1>7. front \in Seq(T) /\ Len(front) = n - 1 /\ all[n] \in T
  <2> HIDE DEF T
  <2>1. \A i \in 1 .. n - 1 : all[i] \in T
    BY <1>6
  <2> QED BY <1>5, <1>6, <2>1
<1>8. all = Append(front, all[n])
  <2> HIDE DEF T
  <2>1. PICK k \in Nat : k = n - 1 /\ n = k + 1
    BY <1>5
  <2>2. PICK fore \in Seq(T) : fore = front /\ Len(fore) = k /\ \A i \in 1 .. k : fore[i] = all[i]
    <3>1. \A i \in 1 .. k : front[i] = all[i]
      BY <2>1
    <3> QED BY <1>7, <2>1, <3>1
  <2>3. PICK back \in Seq(T) : /\ back = Append(fore, all[n]) /\ Len(back) = k + 1
                               /\ back[k + 1] = all[n] /\ \A i \in 1 .. k : back[i] = fore[i]
    <3>1. PICK last \in T : last = all[n]
      BY <1>7
    <3>2. /\ Append(fore, last) \in Seq(T) /\ Len(Append(fore, last)) = k + 1
          /\ Append(fore, last)[k + 1] = last /\ \A i \in 1 .. k : Append(fore, last)[i] = fore[i]
      <4>1. fore \in Seq(T) /\ Len(fore) = k
        BY <2>2
      <4>2. /\ Append(fore, last) \in Seq(T) /\ Len(Append(fore, last)) = Len(fore) + 1
            /\ Append(fore, last)[Len(fore) + 1] = last
            /\ \A i \in 1 .. Len(fore) : Append(fore, last)[i] = fore[i]
        BY <4>1, AppendProperties
      <4> QED BY <4>1, <4>2
    <3> QED BY <3>1, <3>2
  <2>4. Len(all) = k + 1
    BY <1>3, <2>1
  <2>5. \A i \in 1 .. k + 1 : all[i] = back[i]
    BY <2>1, <2>2, <2>3
  <2>6. all = back
    BY <1>6, <2>3, <2>4, <2>5, SeqEqual
  <2> QED BY <2>2, <2>3, <2>6
<1>9. Range(FlattenSeq(front)) = Ranges(front)
  <2>1. n - 1 \notin bad
    BY <1>2, <1>5
  <2>2. ~Differs(S, n - 1)
    BY <2>1, <1>5
  <2> QED BY <2>2, <1>7 DEF Differs
<1>10. FlattenSeq(all) = FlattenSeq(front) \o all[n] /\ FlattenSeq(front) \in Seq(S)
  <2> HIDE DEF front
  <2>1. FlattenSeq(Append(front, all[n])) = FlattenSeq(front) \o all[n]
    BY <1>7, FlattenMore
  <2>2. FlattenSeq(front) \in Seq(S)
    BY <1>7, FlattenType
  <2> QED BY <2>1, <2>2, <1>8
<1>11. Range(FlattenSeq(all)) = Ranges(front) \cup Range(all[n])
  <2>1. all[n] \in Seq(S)
    BY <1>7
  <2> HIDE DEF front
  <2> QED BY <2>1, <1>9, <1>10, RangeConcat
<1>12. Ranges(front) \cup Range(all[n]) = Ranges(all)
  <2>1. DOMAIN front = 1 .. n - 1 /\ \A i \in 1 .. n - 1 : front[i] = all[i]
    OBVIOUS
  <2>2. 1 .. n = 1 .. n - 1 \cup {n}
    BY <1>5
  <2> HIDE DEF front, T
  <2> QED BY <2>1, <2>2, <1>6 DEF Ranges
<1> QED BY <1>3, <1>11, <1>12

-----------------------------------------------------------------------------
(* The chains down from a message, by their first field. *)
InBlock(f, c) ==
  \/ c = <<f>>
  \/ f.message # NoMessage /\ \E d \in Range(ChainsFrom[f.message]) : c = <<f>> \o d

LEMMA BlockRange ==
  ASSUME NEW f \in FieldRefs
  PROVE  \A c : c \in Range(Block(f, Below(ChainsFrom, f))) <=> InBlock(f, c)
<1>1. PICK below \in Seq(Chains) : below = Below(ChainsFrom, f)
  BY BelowType
<1>2. /\ << <<f>> >> \in Seq(Chains) /\ Under(<<f>>, below) \in Seq(Chains)
      /\ Block(f, below) = << <<f>> >> \o Under(<<f>>, below)
  <2>1. <<f>> \in Chains /\ Block(f, below) = << <<f>> >> \o Under(<<f>>, below)
    BY BlockType
  <2>2. << <<f>> >> \in Seq(Chains)
    BY <2>1
  <2> QED BY <2>1, <2>2, UnderType
<1>3. Range(Block(f, below)) = Range(<< <<f>> >>) \cup Range(Under(<<f>>, below))
  BY <1>2, RangeConcat
<1>4. Range(<< <<f>> >>) = { <<f>> }
  BY DEF Range
<1>5. Range(Under(<<f>>, below)) = {<<f>> \o d : d \in Range(below)}
  <2>1. DOMAIN Under(<<f>>, below) = DOMAIN below
        /\ \A j \in DOMAIN below : Under(<<f>>, below)[j] = <<f>> \o below[j]
    BY DEF Under
  <2>2. Range(below) = {below[j] : j \in DOMAIN below}
    BY DEF Range
  <2>3. Range(Under(<<f>>, below)) = {Under(<<f>>, below)[j] : j \in DOMAIN below}
    BY <2>1 DEF Range
  <2> QED BY <2>1, <2>2, <2>3
<1>6. CASE f.message = NoMessage
  <2>1. Range(below) = {}
    BY <1>1, <1>6 DEF Below, Range
  <2> QED BY <1>1, <1>3, <1>4, <1>5, <1>6, <2>1 DEF InBlock
<1>7. CASE f.message # NoMessage
  <2>1. below = ChainsFrom[f.message]
    BY <1>1, <1>7 DEF Below
  <2> QED BY <1>1, <1>3, <1>4, <1>5, <1>7, <2>1 DEF InBlock
<1> QED BY <1>6, <1>7

LEMMA ChainsInto ==
  ASSUME NEW m \in Messages
  PROVE  \A c : c \in Range(ChainsFrom[m]) <=> \E f \in FieldSet(m) : InBlock(f, c)
<1>1. PICK n \in Nat : /\ n = Len(FieldsOf[m]) /\ DOMAIN FieldsOf[m] = 1 .. n
                       /\ \A i \in 1 .. n : FieldsOf[m][i] \in FieldSet(m)
                                            /\ FieldsOf[m][i] \in FieldRefs
  BY FieldsAre
<1>2. Blocks(m, n) \in Seq(Seq(Chains)) /\ Len(Blocks(m, n)) = n
  <2>1. \A f \in FieldSet(m) : Below(ChainsFrom, f) \in Seq(Chains)
    BY BelowType DEF FieldRefs
  <2>2. n <= Len(FieldsOf[m])
    BY <1>1
  <2> QED BY <2>1, <2>2, BlocksType
<1>3. ChainsFrom[m] = FlattenSeq(Blocks(m, n))
  BY <1>1, DoneAll DEF Done
<1>4. Range(ChainsFrom[m]) = Ranges(Blocks(m, n))
  BY <1>2, <1>3, FlattenRange
<1>5. \A i \in 1 .. n : \A c : c \in Range(Blocks(m, n)[i]) <=> InBlock(FieldsOf[m][i], c)
  <2> SUFFICES ASSUME NEW i \in 1 .. n
               PROVE  \A c : c \in Range(Blocks(m, n)[i]) <=> InBlock(FieldsOf[m][i], c)
    OBVIOUS
  <2>1. Blocks(m, n)[i] = Block(FieldsOf[m][i], Below(ChainsFrom, FieldsOf[m][i]))
    BY DEF Blocks
  <2> QED BY <2>1, <1>1, BlockRange
<1>6. DOMAIN Blocks(m, n) = 1 .. n
  BY DEF Blocks
<1>7. FieldSet(m) = {FieldsOf[m][i] : i \in 1 .. n}
  BY <1>1 DEF FieldSet, Range
<1> QED BY <1>4, <1>5, <1>6, <1>7 DEF Ranges

LEMMA ThoseRange ==
  ASSUME NEW chains \in Seq(Chains), NEW wanted
  PROVE  Range(Those(chains, wanted)) = {c \in Range(chains) : Last(c) \in wanted}
<1> DEFINE each == [i \in DOMAIN chains |-> Wanting(chains[i], wanted)]
<1>1. PICK n \in Nat : n = Len(chains) /\ DOMAIN chains = 1 .. n
  OBVIOUS
<1>2. Those(chains, wanted) = FlattenSeq(each)
  BY DEF Those, Wanting
<1>3. each \in Seq(Seq(Chains))
  <2>1. \A i \in 1 .. n : Wanting(chains[i], wanted) \in Seq(Chains)
    BY <1>1 DEF Wanting
  <2> QED BY <1>1, <2>1
<1>4. DOMAIN each = 1 .. n /\ \A i \in 1 .. n : each[i] = Wanting(chains[i], wanted)
  BY <1>1
<1>5. \A c : Range(Wanting(c, wanted)) = IF Last(c) \in wanted THEN {c} ELSE {}
  BY DEF Range, Wanting
<1>6. Range(chains) = {chains[i] : i \in 1 .. n}
  BY <1>1 DEF Range
<1> HIDE DEF each
<1>7. Range(Those(chains, wanted)) = Ranges(each)
  BY <1>2, <1>3, FlattenRange
<1>8. \A c : c \in Ranges(each) <=> \E i \in 1 .. n : c = chains[i] /\ Last(c) \in wanted
  BY <1>4, <1>5 DEF Ranges
<1> QED BY <1>6, <1>7, <1>8

-----------------------------------------------------------------------------
(***************************************************************************)
(* The chains to search fields, by their first field; a field of text has  *)
(* no message below it.                                                    *)
(***************************************************************************)
Sought(m) == {c \in Range(ChainsFrom[m]) : Last(c) \in Searchables}

SoughtUnder(f) ==
  IF IsSearchable(f) THEN { <<f>> }
  ELSE IF f.message # NoMessage THEN {<<f>> \o d : d \in Sought(f.message)}
  ELSE {}

LEMMA Prefixed ==
  ASSUME NEW f \in FieldRefs, NEW d \in Chains, d # <<>>
  PROVE  /\ <<f>> \o d \in Chains /\ <<f>> \o d # <<>> /\ Last(<<f>> \o d) = Last(d)
         /\ Len(<<f>> \o d) = Len(d) + 1 /\ (<<f>> \o d)[1] = f
         /\ \A i \in 1 .. Len(d) : (<<f>> \o d)[i + 1] = d[i]
<1>1. d \in Seq(FieldRefs) /\ <<f>> \in Seq(FieldRefs) /\ Len(<<f>>) = 1 /\ <<f>>[1] = f
  BY DEF Chains
<1>2. PICK n \in Nat : n = Len(d) /\ n # 0
  BY <1>1, EmptySeq
<1>3. PICK c \in Seq(FieldRefs) :
        /\ c = <<f>> \o d /\ Len(c) = 1 + n
        /\ \A i \in 1 .. 1 + n : c[i] = IF i <= 1 THEN <<f>>[i] ELSE d[i - 1]
  <2>1. /\ <<f>> \o d \in Seq(FieldRefs) /\ Len(<<f>> \o d) = 1 + n
        /\ \A i \in 1 .. 1 + n : (<<f>> \o d)[i] = IF i <= 1 THEN <<f>>[i] ELSE d[i - 1]
    BY <1>1, <1>2, ConcatProperties
  <2> QED BY <2>1
<1>4. Len(c) = n + 1 /\ c[1] = f
  BY <1>1, <1>3
<1>5. ASSUME NEW i \in 1 .. n PROVE c[i + 1] = d[i]
  <2>1. PICK k \in 1 .. 1 + n : k = i + 1 /\ ~(k <= 1) /\ k - 1 = i
    OBVIOUS
  <2> QED BY <2>1, <1>3
<1>6. c # <<>> /\ c[n + 1] = d[n]
  <2>1. n \in 1 .. n
    BY <1>2
  <2> QED BY <2>1, <1>4, <1>5
<1>7. Last(c) = c[n + 1] /\ Last(d) = d[n]
  BY <1>2, <1>4 DEF Last
<1> QED BY <1>2, <1>3, <1>4, <1>5, <1>6, <1>7 DEF Chains

LEMMA ChainsFilled ==
  ASSUME NEW m \in Messages, NEW c \in Range(ChainsFrom[m])
  PROVE  c \in Chains /\ c # <<>>
<1>1. c \in Chains
  BY ChainsType DEF Range
<1>2. PICK f \in FieldSet(m) : InBlock(f, c)
  BY ChainsInto
<1>3. f \in FieldRefs /\ f.message \in Messages \cup {NoMessage}
  BY PathsAssumption DEF FieldRefs
<1>4. CASE c = <<f>>
  BY <1>1, <1>4
<1>5. CASE c # <<f>>
  <2>1. PICK d \in Range(ChainsFrom[f.message]) : f.message # NoMessage /\ c = <<f>> \o d
    BY <1>2, <1>5 DEF InBlock
  <2>2. d \in Seq(FieldRefs) /\ <<f>> \in Seq(FieldRefs) /\ Len(<<f>>) = 1
    <3>1. f.message \in Messages
      BY <1>3, <2>1
    <3>2. ChainsFrom[f.message] \in Seq(Chains)
      BY <3>1, ChainsType
    <3> QED BY <1>3, <3>2 DEF Range, Chains
  <2>3. Len(c) = 1 + Len(d) /\ Len(d) \in Nat
    BY <2>1, <2>2, ConcatProperties
  <2> QED BY <1>1, <2>3
<1> QED BY <1>4, <1>5

LEMMA SoughtInto ==
  ASSUME NEW m \in Messages
  PROVE  Sought(m) = UNION {SoughtUnder(f) : f \in FieldSet(m)}
<1>1. ASSUME NEW f \in FieldSet(m)
      PROVE  \A c : (InBlock(f, c) /\ Last(c) \in Searchables) <=> c \in SoughtUnder(f)
  <2>1. f \in FieldRefs /\ f.message \in Messages \cup {NoMessage}
        /\ (f \in Searchables <=> IsSearchable(f))
        /\ (IsSearchable(f) => f.message = NoMessage)
    BY PathsAssumption DEF FieldRefs, Searchables, IsSearchable
  <2>2. Last(<<f>>) = f
    BY DEF Last
  <2>3. CASE f.message = NoMessage
    BY <2>1, <2>2, <2>3 DEF InBlock, SoughtUnder
  <2>4. CASE f.message # NoMessage
    <3>1. f.message \in Messages /\ ~IsSearchable(f)
      BY <2>1, <2>4
    <3>2. \A d \in Range(ChainsFrom[f.message]) : Last(<<f>> \o d) = Last(d)
      <4> SUFFICES ASSUME NEW d \in Range(ChainsFrom[f.message]) PROVE Last(<<f>> \o d) = Last(d)
        OBVIOUS
      <4>1. d \in Chains /\ d # <<>>
        BY <3>1, ChainsFilled
      <4> QED BY <4>1, <2>1, Prefixed
    <3>3. SoughtUnder(f) = {<<f>> \o d : d \in Sought(f.message)}
      BY <3>1, <2>4 DEF SoughtUnder
    <3> QED BY <3>1, <3>2, <3>3, <2>1, <2>2, <2>4 DEF InBlock, Sought
  <2> QED BY <2>3, <2>4
<1>2. \A c : c \in Sought(m) <=> \E f \in FieldSet(m) : InBlock(f, c) /\ Last(c) \in Searchables
  BY ChainsInto DEF Sought
<1> QED BY <1>1, <1>2

LEMMA SoughtAre ==
  ASSUME NEW m \in Messages
  PROVE  Range(SearchChains[m]) = Sought(m)
<1>1. SearchChains[m] = Those(ChainsFrom[m], Searchables)
  BY DEF SearchChains
<1>2. ChainsFrom[m] \in Seq(Chains)
  BY ChainsType
<1> QED BY <1>1, <1>2, ThoseRange DEF Sought

-----------------------------------------------------------------------------
(* Two chains are on branches of a oneof: of one that their first fields   *)
(* are in, or, after a first field they share, of one further down.        *)
LEMMA ExclusiveApart ==
  ASSUME NEW c \in Chains, NEW d \in Chains, c # <<>>, d # <<>>, c[1] # d[1]
  PROVE  Exclusive(c, d) <=> ~Compared(c[1], d[1])
<1>1. /\ DOMAIN c \subseteq Nat \ {0} /\ DOMAIN d \subseteq Nat \ {0}
      /\ 1 \in DOMAIN c \cap DOMAIN d
  <2>1. c \in Seq(FieldRefs) /\ d \in Seq(FieldRefs)
    BY DEF Chains
  <2> QED BY <2>1, EmptySeq
<1>2. Compared(c[1], d[1]) <=> ~(c[1].oneof # NoOneof /\ c[1].oneof = d[1].oneof)
  BY DEF Compared
<1>3. ASSUME Exclusive(c, d) PROVE ~Compared(c[1], d[1])
  <2>1. PICK i \in DOMAIN c \cap DOMAIN d :
          /\ \A j \in 1 .. i - 1 : c[j] = d[j]
          /\ c[i].oneof # NoOneof /\ c[i].oneof = d[i].oneof
    BY <1>3 DEF Exclusive
  <2>2. i = 1
    <3>1. SUFFICES ASSUME i # 1 PROVE FALSE
      OBVIOUS
    <3>2. i \in Nat /\ i # 0
      BY <1>1
    <3>3. 1 \in 1 .. i - 1
      BY <3>1, <3>2
    <3> QED BY <2>1, <3>3
  <2> QED BY <1>2, <2>1, <2>2
<1>4. ASSUME ~Compared(c[1], d[1]) PROVE Exclusive(c, d)
  <2>1. \A j \in 1 .. 1 - 1 : c[j] = d[j]
    OBVIOUS
  <2> QED BY <1>1, <1>2, <1>4, <2>1 DEF Exclusive
<1> QED BY <1>3, <1>4

LEMMA ExclusiveBelow ==
  ASSUME NEW f \in FieldRefs, NEW c \in Chains, NEW d \in Chains, c # <<>>, d # <<>>
  PROVE  Exclusive(<<f>> \o c, <<f>> \o d) <=> Exclusive(c, d)
<1>1. PICK n \in Nat : n = Len(c) /\ DOMAIN c = 1 .. n
  BY DEF Chains
<1>2. PICK k \in Nat : k = Len(d) /\ DOMAIN d = 1 .. k
  BY DEF Chains
<1>3. PICK one \in Seq(FieldRefs) : /\ one = <<f>> \o c /\ DOMAIN one = 1 .. n + 1 /\ one[1] = f
                                    /\ \A i \in 1 .. n : one[i + 1] = c[i]
  <2>1. /\ <<f>> \o c \in Seq(FieldRefs) /\ Len(<<f>> \o c) = n + 1 /\ (<<f>> \o c)[1] = f
        /\ \A i \in 1 .. n : (<<f>> \o c)[i + 1] = c[i]
    <3>1. /\ <<f>> \o c \in Seq(FieldRefs) /\ Len(<<f>> \o c) = Len(c) + 1
          /\ (<<f>> \o c)[1] = f
          /\ \A i \in 1 .. Len(c) : (<<f>> \o c)[i + 1] = c[i]
      BY Prefixed DEF Chains
    <3> QED BY <1>1, <3>1
  <2>2. DOMAIN (<<f>> \o c) = 1 .. n + 1
    BY <2>1
  <2> QED BY <2>1, <2>2
<1>4. PICK other \in Seq(FieldRefs) : /\ other = <<f>> \o d /\ DOMAIN other = 1 .. k + 1
                                      /\ other[1] = f /\ \A i \in 1 .. k : other[i + 1] = d[i]
  <2>1. /\ <<f>> \o d \in Seq(FieldRefs) /\ Len(<<f>> \o d) = k + 1 /\ (<<f>> \o d)[1] = f
        /\ \A i \in 1 .. k : (<<f>> \o d)[i + 1] = d[i]
    <3>1. /\ <<f>> \o d \in Seq(FieldRefs) /\ Len(<<f>> \o d) = Len(d) + 1
          /\ (<<f>> \o d)[1] = f
          /\ \A i \in 1 .. Len(d) : (<<f>> \o d)[i + 1] = d[i]
      BY Prefixed DEF Chains
    <3> QED BY <1>2, <3>1
  <2>2. DOMAIN (<<f>> \o d) = 1 .. k + 1
    BY <2>1
  <2> QED BY <2>1, <2>2
<1>5. ASSUME Exclusive(one, other) PROVE Exclusive(c, d)
  <2>1. PICK i \in DOMAIN one \cap DOMAIN other :
          /\ \A j \in 1 .. i - 1 : one[j] = other[j]
          /\ one[i] # other[i] /\ one[i].oneof # NoOneof /\ one[i].oneof = other[i].oneof
    BY <1>5 DEF Exclusive
  <2>2. i \in Nat /\ i # 0 /\ i # 1 /\ i <= n + 1 /\ i <= k + 1
    BY <2>1, <1>3, <1>4
  <2>3. PICK a \in Nat : a = i - 1 /\ a \in 1 .. n /\ a \in 1 .. k /\ a + 1 = i
    BY <2>2
  <2>4. one[i] = c[a] /\ other[i] = d[a]
    BY <2>3, <1>3, <1>4
  <2>5. ASSUME NEW j \in 1 .. a - 1 PROVE c[j] = d[j]
    <3>1. j \in 1 .. n /\ j \in 1 .. k /\ j + 1 \in 1 .. i - 1
      BY <2>3
    <3> QED BY <3>1, <2>1, <1>3, <1>4
  <2> QED BY <2>1, <2>3, <2>4, <2>5, <1>1, <1>2 DEF Exclusive
<1>6. ASSUME Exclusive(c, d) PROVE Exclusive(one, other)
  <2>1. PICK a \in DOMAIN c \cap DOMAIN d :
          /\ \A j \in 1 .. a - 1 : c[j] = d[j]
          /\ c[a] # d[a] /\ c[a].oneof # NoOneof /\ c[a].oneof = d[a].oneof
    BY <1>6 DEF Exclusive
  <2>2. a \in 1 .. n /\ a \in 1 .. k
    BY <2>1, <1>1, <1>2
  <2>3. PICK i \in Nat : i = a + 1 /\ i \in 1 .. n + 1 /\ i \in 1 .. k + 1
    BY <2>2
  <2>4. one[i] = c[a] /\ other[i] = d[a]
    BY <2>2, <2>3, <1>3, <1>4
  <2>5. ASSUME NEW j \in 1 .. i - 1 PROVE one[j] = other[j]
    <3>1. CASE j = 1
      BY <3>1, <1>3, <1>4
    <3>2. CASE j # 1
      <4>1. PICK b \in Nat : b = j - 1 /\ b \in 1 .. a - 1 /\ b + 1 = j
        <5>1. a \in Nat /\ j \in Nat /\ 1 <= j /\ j <= a
          BY <2>2, <2>3
        <5>2. j - 1 \in Nat /\ j - 1 \in 1 .. a - 1 /\ (j - 1) + 1 = j
          BY <5>1, <3>2
        <5> QED BY <5>2
      <4>2. b \in 1 .. n /\ b \in 1 .. k /\ c[b] = d[b]
        BY <4>1, <2>1, <2>2
      <4>3. one[b + 1] = c[b] /\ other[b + 1] = d[b]
        BY <4>2, <1>3, <1>4
      <4> QED BY <4>1, <4>2, <4>3
    <3> QED BY <3>1, <3>2
  <2>6. i \in DOMAIN one \cap DOMAIN other
    BY <2>3, <1>3, <1>4
  <2>7. one[i] # other[i] /\ one[i].oneof # NoOneof /\ one[i].oneof = other[i].oneof
    BY <2>1, <2>4
  <2> QED BY <2>5, <2>6, <2>7 DEF Exclusive
<1> QED BY <1>3, <1>4, <1>5, <1>6

LEMMA PrefixedSame ==
  ASSUME NEW f \in FieldRefs, NEW c \in Chains, NEW d \in Chains, <<f>> \o c = <<f>> \o d
  PROVE  c = d
<1>1. <<f>> \in Seq(FieldRefs) /\ c \in Seq(FieldRefs) /\ d \in Seq(FieldRefs) /\ Len(<<f>>) = 1
  BY DEF Chains
<1>2. PICK whole \in Seq(FieldRefs) : whole = <<f>> \o c /\ whole = <<f>> \o d
  BY <1>1, ConcatProperties
<1>3. Len(whole) = 1 + Len(c) /\ Len(whole) = 1 + Len(d)
  BY <1>1, <1>2, ConcatProperties
<1>4. PICK n \in Nat : n = Len(c) /\ n = Len(d)
  BY <1>1, <1>3
<1>5. ASSUME NEW i \in 1 .. n PROVE c[i] = d[i]
  <2>1. c # <<>> /\ d # <<>>
    BY <1>4, <1>1
  <2>2. (<<f>> \o c)[i + 1] = c[i] /\ (<<f>> \o d)[i + 1] = d[i]
    BY <2>1, <1>4, Prefixed
  <2> QED BY <2>2
<1> QED BY <1>1, <1>4, <1>5, SeqEqual

-----------------------------------------------------------------------------
(* No two chains with one identifier may both be set. *)
Unambiguous(id, chains) ==
  /\ \A c \in chains : id[Last(c)] # NoIdentifier
  /\ \A c, d \in chains : id[Last(c)] = id[Last(d)] => c = d \/ Exclusive(c, d)

IdsOf(id, chains) == {id[Last(c)] : c \in chains}

(* A result of validateSearchesAnnotations says so of the chains. *)
Judges(result, id, chains) ==
  result.ids = IdsOf(id, chains) /\ (result.valid <=> Unambiguous(id, chains))

LEMMA UnambiguousBelow ==
  ASSUME NEW id, NEW f \in FieldRefs, NEW C, \A c \in C : c \in Chains /\ c # <<>>
  PROVE  LET P == {<<f>> \o c : c \in C}
         IN  IdsOf(id, P) = IdsOf(id, C) /\ (Unambiguous(id, P) <=> Unambiguous(id, C))
<1> DEFINE P == {<<f>> \o c : c \in C}
<1>1. \A c \in C : Last(<<f>> \o c) = Last(c)
  BY Prefixed
<1>2. \A c, d \in C : Exclusive(<<f>> \o c, <<f>> \o d) <=> Exclusive(c, d)
  BY ExclusiveBelow
<1>3. \A c, d \in C : (<<f>> \o c = <<f>> \o d) <=> c = d
  BY PrefixedSame
<1>4. IdsOf(id, P) = IdsOf(id, C)
  BY <1>1 DEF IdsOf
<1>5. ASSUME Unambiguous(id, P) PROVE Unambiguous(id, C)
  <2>1. \A c \in C : id[Last(c)] # NoIdentifier
    BY <1>1, <1>5 DEF Unambiguous
  <2>2. ASSUME NEW c \in C, NEW d \in C, id[Last(c)] = id[Last(d)]
        PROVE  c = d \/ Exclusive(c, d)
    <3>1. <<f>> \o c \in P /\ <<f>> \o d \in P /\ id[Last(<<f>> \o c)] = id[Last(<<f>> \o d)]
      BY <1>1, <2>2
    <3>2. <<f>> \o c = <<f>> \o d \/ Exclusive(<<f>> \o c, <<f>> \o d)
      BY <3>1, <1>5 DEF Unambiguous
    <3> QED BY <3>2, <1>2, <1>3
  <2> QED BY <2>1, <2>2 DEF Unambiguous
<1>6. ASSUME Unambiguous(id, C) PROVE Unambiguous(id, P)
  <2>1. \A p \in P : id[Last(p)] # NoIdentifier
    BY <1>1, <1>6 DEF Unambiguous
  <2>2. ASSUME NEW p \in P, NEW q \in P, id[Last(p)] = id[Last(q)]
        PROVE  p = q \/ Exclusive(p, q)
    <3>1. PICK c \in C : p = <<f>> \o c
      OBVIOUS
    <3>2. PICK d \in C : q = <<f>> \o d
      OBVIOUS
    <3>3. id[Last(c)] = id[Last(d)]
      BY <1>1, <2>2, <3>1, <3>2
    <3>4. c = d \/ Exclusive(c, d)
      BY <3>3, <1>6 DEF Unambiguous
    <3> QED BY <3>1, <3>2, <3>4, <1>2
  <2> QED BY <2>1, <2>2 DEF Unambiguous
<1> QED BY <1>4, <1>5, <1>6

LEMMA SoughtUnderAre ==
  ASSUME NEW f \in FieldRefs
  PROVE  \A c \in SoughtUnder(f) : c \in Chains /\ c # <<>> /\ c[1] = f
<1>1. <<f>> \in Chains /\ <<f>> # <<>> /\ <<f>>[1] = f
  BY DEF Chains
<1>2. f.message \in Messages \cup {NoMessage}
  BY PathsAssumption
<1>3. CASE IsSearchable(f)
  BY <1>1, <1>3 DEF SoughtUnder
<1>4. CASE ~IsSearchable(f) /\ f.message # NoMessage
  <2>1. \A d \in Sought(f.message) : d \in Chains /\ d # <<>>
    BY <1>2, <1>4, ChainsFilled DEF Sought
  <2>2. \A d \in Sought(f.message) :
          <<f>> \o d \in Chains /\ <<f>> \o d # <<>> /\ (<<f>> \o d)[1] = f
    BY <2>1, Prefixed
  <2> QED BY <1>4, <2>2 DEF SoughtUnder
<1>5. CASE ~IsSearchable(f) /\ f.message = NoMessage
  BY <1>5 DEF SoughtUnder
<1> QED BY <1>3, <1>4, <1>5

(* The fields of a message are compared pairwise, if both may be set. *)
LEMMA UnambiguousInto ==
  ASSUME NEW id, NEW m \in Messages
  PROVE  Unambiguous(id, Sought(m)) <=>
           \A f \in FieldSet(m) :
             /\ Unambiguous(id, SoughtUnder(f))
             /\ \A g \in FieldSet(m) \ {f} :
                  Compared(f, g) =>
                    IdsOf(id, SoughtUnder(f)) \cap IdsOf(id, SoughtUnder(g)) = {}
<1>1. \A c : c \in Sought(m) <=> \E f \in FieldSet(m) : c \in SoughtUnder(f)
  BY SoughtInto
<1>2. \A f \in FieldSet(m) : \A c \in SoughtUnder(f) : c \in Chains /\ c # <<>> /\ c[1] = f
  BY SoughtUnderAre DEF FieldRefs
<1>3. ASSUME NEW f \in FieldSet(m), NEW g \in FieldSet(m), f # g,
             NEW c \in SoughtUnder(f), NEW d \in SoughtUnder(g)
      PROVE  c # d /\ (Exclusive(c, d) <=> ~Compared(f, g))
  <2>1. c \in Chains /\ d \in Chains /\ c # <<>> /\ d # <<>> /\ c[1] = f /\ d[1] = g
    BY <1>2
  <2> QED BY <1>3, <2>1, ExclusiveApart
<1>4. ASSUME Unambiguous(id, Sought(m)), NEW f \in FieldSet(m)
      PROVE  /\ Unambiguous(id, SoughtUnder(f))
             /\ \A g \in FieldSet(m) \ {f} :
                  Compared(f, g) =>
                    IdsOf(id, SoughtUnder(f)) \cap IdsOf(id, SoughtUnder(g)) = {}
  <2>1. Unambiguous(id, SoughtUnder(f))
    BY <1>1, <1>4 DEF Unambiguous
  <2>2. ASSUME NEW g \in FieldSet(m) \ {f}, Compared(f, g),
               IdsOf(id, SoughtUnder(f)) \cap IdsOf(id, SoughtUnder(g)) # {}
        PROVE  FALSE
    <3>1. PICK c \in SoughtUnder(f) : \E d \in SoughtUnder(g) : id[Last(c)] = id[Last(d)]
      BY <2>2 DEF IdsOf
    <3>2. PICK d \in SoughtUnder(g) : id[Last(c)] = id[Last(d)]
      BY <3>1
    <3>3. c = d \/ Exclusive(c, d)
      BY <1>1, <1>4, <3>2 DEF Unambiguous
    <3> QED BY <3>3, <1>3, <2>2
  <2> QED BY <2>1, <2>2
<1>5. ASSUME \A f \in FieldSet(m) :
               /\ Unambiguous(id, SoughtUnder(f))
               /\ \A g \in FieldSet(m) \ {f} :
                    Compared(f, g) =>
                      IdsOf(id, SoughtUnder(f)) \cap IdsOf(id, SoughtUnder(g)) = {}
      PROVE  Unambiguous(id, Sought(m))
  <2>1. \A c \in Sought(m) : id[Last(c)] # NoIdentifier
    BY <1>1, <1>5 DEF Unambiguous
  <2>2. ASSUME NEW c \in Sought(m), NEW d \in Sought(m), id[Last(c)] = id[Last(d)]
        PROVE  c = d \/ Exclusive(c, d)
    <3>1. PICK f \in FieldSet(m) : c \in SoughtUnder(f)
      BY <1>1
    <3>2. PICK g \in FieldSet(m) : d \in SoughtUnder(g)
      BY <1>1
    <3>3. CASE f = g
      BY <1>5, <2>2, <3>1, <3>2, <3>3 DEF Unambiguous
    <3>4. CASE f # g
      <4>1. id[Last(c)] \in IdsOf(id, SoughtUnder(f)) \cap IdsOf(id, SoughtUnder(g))
        BY <2>2, <3>1, <3>2 DEF IdsOf
      <4>2. ~Compared(f, g)
        BY <1>5, <3>4, <4>1
      <4> QED BY <4>2, <3>1, <3>2, <3>4, <1>3
    <3> QED BY <3>3, <3>4
  <2> QED BY <2>1, <2>2 DEF Unambiguous
<1> QED BY <1>4, <1>5

LEMMA JudgesOn ==
  ASSUME NEW id, NEW values, NEW m \in Messages,
         \A f \in FieldSet(m) : f.message # NoMessage =>
           Judges(values[f.message], id, Sought(f.message))
  PROVE  Judges(Identify(values, id, m), id, Sought(m))
<1>1. ASSUME NEW f \in FieldSet(m) PROVE Judges(Identified(values, id, f), id, SoughtUnder(f))
  <2>1. f \in FieldRefs /\ f.message \in Messages \cup {NoMessage}
    BY PathsAssumption DEF FieldRefs
  <2>2. CASE IsSearchable(f)
    <3>1. Last(<<f>>) = f
      BY DEF Last
    <3> QED BY <2>2, <3>1 DEF Identified, SoughtUnder, Judges, IdsOf, Unambiguous
  <2>3. CASE ~IsSearchable(f) /\ f.message # NoMessage
    <3>1. \A c \in Sought(f.message) : c \in Chains /\ c # <<>>
      BY <2>1, <2>3, ChainsFilled DEF Sought
    <3>2. SoughtUnder(f) = {<<f>> \o c : c \in Sought(f.message)}
      BY <2>3 DEF SoughtUnder
    <3>3. Identified(values, id, f) = values[f.message]
      BY <2>3 DEF Identified
    <3>4. /\ IdsOf(id, SoughtUnder(f)) = IdsOf(id, Sought(f.message))
          /\ Unambiguous(id, SoughtUnder(f)) <=> Unambiguous(id, Sought(f.message))
      <4>1. PICK C : C = Sought(f.message)
        OBVIOUS
      <4>2. \A c \in C : c \in Chains /\ c # <<>>
        BY <3>1, <4>1
      <4>3. /\ IdsOf(id, {<<f>> \o c : c \in C}) = IdsOf(id, C)
            /\ Unambiguous(id, {<<f>> \o c : c \in C}) <=> Unambiguous(id, C)
        BY <2>1, <4>2, UnambiguousBelow
      <4> QED BY <3>2, <4>1, <4>3
    <3> QED BY <2>3, <3>3, <3>4 DEF Judges
  <2>4. CASE ~IsSearchable(f) /\ f.message = NoMessage
    BY <2>4 DEF Identified, SoughtUnder, Judges, IdsOf, Unambiguous
  <2> QED BY <2>2, <2>3, <2>4
<1>2. \A f \in FieldSet(m) : Identified(values, id, f).ids = IdsOf(id, SoughtUnder(f))
  BY <1>1 DEF Judges
<1>3. \A f \in FieldSet(m) : Identified(values, id, f).valid <=> Unambiguous(id, SoughtUnder(f))
  BY <1>1 DEF Judges
<1>4. Identify(values, id, m).ids = IdsOf(id, Sought(m))
  <2>1. Identify(values, id, m).ids = UNION {Identified(values, id, f).ids : f \in FieldSet(m)}
    BY DEF Identify
  <2>2. \A c : c \in Sought(m) <=> \E f \in FieldSet(m) : c \in SoughtUnder(f)
    BY SoughtInto
  <2> QED BY <2>1, <2>2, <1>2 DEF IdsOf
<1>5. Identify(values, id, m).valid <=>
        \A f \in FieldSet(m) :
          /\ Identified(values, id, f).valid
          /\ \A g \in FieldSet(m) \ {f} :
               Compared(f, g) =>
                 Identified(values, id, f).ids \cap Identified(values, id, g).ids = {}
  BY DEF Identify
<1>6. Identify(values, id, m).valid <=> Unambiguous(id, Sought(m))
  BY <1>2, <1>3, <1>5, UnambiguousInto
<1> QED BY <1>4, <1>6 DEF Judges

(* validateSearchesAnnotations finds what it is to find, in every message. *)
LEMMA SearchesJudged ==
  ASSUME NEW id, NEW m \in Messages
  PROVE  Judges(SearchIdentifiers(id)[m], id, Sought(m))
<1> DEFINE bad == {d \in Nat : \E a \in Messages :
                     Nesting[a] = d /\ ~Judges(SearchIdentifiers(id)[a], id, Sought(a))}
<1>1. \A a \in Messages : Nesting[a] \in Nat
  BY PathsAssumption
<1>2. SUFFICES ASSUME bad # {} PROVE FALSE
  BY <1>1
<1>3. PICK d \in bad : \A e \in bad : d <= e
  <2>1. bad \in SUBSET Nat
    OBVIOUS
  <2> HIDE DEF bad
  <2> QED BY <1>2, <2>1, LeastNatural
<1>4. PICK a \in Messages :
        Nesting[a] = d /\ ~Judges(SearchIdentifiers(id)[a], id, Sought(a))
  BY <1>3
<1>5. ASSUME NEW f \in FieldSet(a), f.message # NoMessage
      PROVE  Judges(SearchIdentifiers(id)[f.message], id, Sought(f.message))
  <2>1. f.message \in Messages /\ Nesting[f.message] \in Nat /\ Nesting[f.message] < d
    BY <1>4, <1>5, FieldNests
  <2>2. Nesting[f.message] \notin bad
    BY <1>3, <2>1
  <2> QED BY <2>1, <2>2
<1>6. Judges(Identify(SearchIdentifiers(id), id, a), id, Sought(a))
  BY <1>5, JudgesOn
<1>7. SearchIdentifiers(id)[a] = Identify(SearchIdentifiers(id), id, a)
  BY IdentifiersUnfold
<1> QED BY <1>4, <1>6, <1>7

-----------------------------------------------------------------------------
(* A service goes on being built only when its annotations are valid, and  *)
(* is refused for them when they are not.                                  *)
AnnotationsInv ==
  /\ lister \notin {"new", "bad request", "bad annotations"} =>
       /\ SortsAnnotated[plan.root]
       /\ SearchIdentifiers(plan.identifier)[plan.root].valid
  /\ lister = "bad annotations" => ~ListAnnotations(plan.root, plan.identifier)

LEMMA NextAnnotations == AnnotationsInv /\ [Next]_vars => AnnotationsInv'
<1> SUFFICES ASSUME AnnotationsInv, [Next]_vars PROVE AnnotationsInv'
  OBVIOUS
<1>1. CASE Construct
  BY <1>1 DEF Construct, AnnotationsInv, ListAnnotations
<1>2. CASE plan' = plan /\ lister' = lister
  BY <1>2 DEF AnnotationsInv
<1>3. CASE /\ plan' = plan
           /\ lister \notin {"new", "bad request", "bad annotations"}
           /\ lister' \notin {"new", "bad request", "bad annotations"}
  BY <1>3 DEF AnnotationsInv
<1>4. CASE FindSort \/ FindFilter \/ Leave
  BY <1>2, <1>4 DEF FindSort, FindFilter, Leave
<1>5. CASE SortsFound \/ RefuseDefault \/ FiltersFound
  BY <1>3, <1>5 DEF SortsFound, RefuseDefault, FiltersFound
<1>6. CASE \E c \in Callers : AskToList(c) \/ Validate(c) \/ Build(c) \/ Run(c) \/ Fail(c) \/ AskToGet(c)
  <2>1. plan' = plan /\ lister' = lister
    BY <1>6 DEF AskToList, Validate, Build, Run, Fail, AskToGet
  <2> QED BY <1>2, <2>1
<1>7. CASE UNCHANGED vars
  BY <1>2, <1>7 DEF vars
<1> QED BY <1>1, <1>4, <1>5, <1>6, <1>7 DEF Next

LEMMA AnnotationsInvariant == Spec => [](QueryInv /\ AnnotationsInv)
<1>1. Init => QueryInv /\ AnnotationsInv
  BY InitQuery DEF Init, AnnotationsInv
<1>2. QueryInv /\ AnnotationsInv /\ [Next]_vars => (QueryInv /\ AnnotationsInv)'
  BY NextQuery, NextAnnotations
<1> QED BY <1>1, <1>2, PTL DEF Spec

LEMMA UnambiguousFromInv == QueryInv /\ AnnotationsInv => SearchesUnambiguous
<1> SUFFICES ASSUME QueryInv, AnnotationsInv PROVE SearchesUnambiguous
  OBVIOUS
<1>1. plan \in Plans /\ plan.root \in Messages
  BY PlansAssumption DEF QueryInv, ListerInv
<1>2. Judges(SearchIdentifiers(plan.identifier)[plan.root], plan.identifier, Sought(plan.root))
  BY <1>1, SearchesJudged
<1>3. SearchIdentifiers(plan.identifier)[plan.root].valid
        <=> Unambiguous(plan.identifier, Range(SearchChains[plan.root]))
  BY <1>1, <1>2, SoughtAre DEF Judges
<1> QED BY <1>3 DEF SearchesUnambiguous, Unambiguous, AnnotationsInv, ListAnnotations

(***************************************************************************)
(* A service that is built has a column for each search field, and two     *)
(* fields in one column only on branches of one oneof; and one whose       *)
(* fields have columns of their own is not refused for them.               *)
(***************************************************************************)
THEOREM ColumnsUnambiguous == Spec => []SearchesUnambiguous
<1>1. Spec => [](QueryInv /\ AnnotationsInv)
  BY AnnotationsInvariant
<1> QED BY <1>1, UnambiguousFromInv, PTL

-----------------------------------------------------------------------------
(* A request with one filter, on a field. *)
LEMMA OneFilter ==
  ASSUME NEW m, NEW filters \in Seq(FilterTrees), Len(filters) = 1, filters[1].is = "field"
  PROVE  LET f    == filters[1]
             path == NewJSONPath(m, f.field)
         IN  /\ CheckFilters(m, filters) = CheckFieldFilter(m, path, f)
             /\ Buildable(m, filters)
                  <=> path.nodes # <<>> /\ (LeadsToField(path) \/ f.type = "value")
<1> DEFINE f == filters[1]
<1>1. f \in FilterTrees /\ f.is = "field" /\ filters # <<>> /\ DOMAIN filters = {1}
  <2>1. DOMAIN filters = 1 .. Len(filters)
    OBVIOUS
  <2>2. DOMAIN filters = 1 .. 1 /\ 1 .. 1 = {1}
    BY <2>1
  <2>3. filters # <<>>
    OBVIOUS
  <2>4. 1 \in 1 .. Len(filters)
    OBVIOUS
  <2>5. filters[1] \in FilterTrees
    BY <2>4, ElementOfSeq
  <2> QED BY <2>2, <2>3, <2>5
<1>2. CheckFilters(m, filters) = Checked(<<>>, m, f)
  <2> DEFINE chosen == CHOOSE checks : checks = [g \in FilterTrees |-> Checked(checks, m, g)]
  <2>1. \E checks : checks = [g \in FilterTrees |-> Checked(checks, m, g)]
    <3>1. Checking(m).is = "checks" /\ Checking(m).root = m /\ Elements(Checking(m)) = FilterTrees
      BY DEF Checking, Elements, OverMessages
    <3>2. PICK checks : Recursion(Checking(m), checks, FilterTrees)
      BY <3>1, WholeRecursion
    <3>3. \A g \in FilterTrees : Step(Checking(m), checks, g) = Checked(checks, m, g)
      BY <3>1 DEF Step
    <3> QED BY <3>2, <3>3 DEF Recursion
  <2>2. chosen = [g \in FilterTrees |-> Checked(chosen, m, g)]
    BY <2>1
  <2>3. CheckFilters(m, filters) = IF filters = <<>> THEN "ok" ELSE chosen[filters[1]]
    BY DEF CheckFilters, Checked
  <2> HIDE DEF chosen
  <2>4. chosen[f] = Checked(chosen, m, f)
    BY <1>1, <2>2
  <2>5. Checked(chosen, m, f) = Checked(<<>>, m, f)
    BY <1>1 DEF Checked
  <2> QED BY <1>1, <2>3, <2>4, <2>5
<1>3. Buildable(m, filters) <=> Built(<<>>, m, f)
  <2> DEFINE chosen == CHOOSE builds : builds = [g \in FilterTrees |-> Built(builds, m, g)]
  <2>1. \E builds : builds = [g \in FilterTrees |-> Built(builds, m, g)]
    <3>1. Building(m).is = "builds" /\ Building(m).root = m /\ Elements(Building(m)) = FilterTrees
      BY DEF Building, Elements, OverMessages
    <3>2. PICK builds : Recursion(Building(m), builds, FilterTrees)
      BY <3>1, WholeRecursion
    <3>3. \A g \in FilterTrees : Step(Building(m), builds, g) = Built(builds, m, g)
      BY <3>1 DEF Step
    <3> QED BY <3>2, <3>3 DEF Recursion
  <2>2. chosen = [g \in FilterTrees |-> Built(chosen, m, g)]
    BY <2>1
  <2>3. Buildable(m, filters) <=> \A i \in DOMAIN filters : chosen[filters[i]]
    BY DEF Buildable, Built
  <2> HIDE DEF chosen
  <2>4. chosen[f] = Built(chosen, m, f)
    BY <1>1, <2>2
  <2>5. Built(chosen, m, f) <=> Built(<<>>, m, f)
    BY <1>1 DEF Built
  <2> QED BY <1>1, <2>3, <2>4, <2>5
<1> QED BY <1>1, <1>2, <1>3 DEF Checked, Built

(* A filter on a field that is valid can be built. *)
LEMMA ValidFilterBuilt ==
  ASSUME NEW m, NEW filters \in Seq(FilterTrees), CheckFilters(m, filters) = "ok",
         filters = <<>> \/ (Len(filters) = 1 /\ filters[1].is = "field")
  PROVE  Buildable(m, filters)
<1>1. CASE filters = <<>>
  BY <1>1 DEF Buildable
<1>2. CASE Len(filters) = 1 /\ filters[1].is = "field"
  <2> DEFINE f == filters[1]
             path == NewJSONPath(m, f.field)
  <2>1. /\ CheckFieldFilter(m, path, f) = "ok"
        /\ Buildable(m, filters)
             <=> path.nodes # <<>> /\ (LeadsToField(path) \/ f.type = "value")
    BY <1>2, OneFilter
  <2> HIDE DEF path
  <2>2. path.nodes # <<>>
    BY <2>1 DEF CheckFieldFilter
  <2>3. LeadsToField(path) \/ ValidOneofFilter(m, path, f)
    BY <2>1 DEF CheckFieldFilter, Both
  <2> QED BY <2>1, <2>2, <2>3 DEF ValidOneofFilter
<1> QED BY <1>1, <1>2

-----------------------------------------------------------------------------
(***************************************************************************)
(* What FoldLeft does with a path, checks and values, element by element.  *)
(***************************************************************************)
Put(of, before, x) ==
  IF of = "path" THEN JSONStep(before, x)
  ELSE IF of = "select" THEN SelectStep(before, x)
  ELSE IF of = "values" THEN ValuesStep(before, x) ELSE Both(before, x)

OfSubset(of, base, s, values, t) ==
  IF t = {} THEN base ELSE Put(of, values[t \ {Max(t)}], s[Max(t)])

Folding(of, base, s, values, n) ==
  values = [t \in SUBSET (1 .. n) |-> OfSubset(of, base, s, values, t)]

Folds(of, base, s, at) ==
  at[0] = base /\ \A n \in 1 .. Len(s) : at[n] = Put(of, at[n - 1], s[n])

LEMMA MaxOfSubset ==
  ASSUME NEW n \in Nat, NEW t \in SUBSET (1 .. n + 1), n + 1 \in t
  PROVE  Max(t) = n + 1 /\ t \ {Max(t)} \in SUBSET (1 .. n)
<1>1. \A x \in t : x <= n + 1
  OBVIOUS
<1>2. \E x \in t : \A y \in t : x >= y
  BY <1>1
<1>3. Max(t) \in t /\ \A y \in t : Max(t) >= y
  BY <1>2 DEF Max
<1>4. Max(t) = n + 1
  <2>1. PICK x \in 1 .. n + 1 : x = Max(t) /\ x >= n + 1
    BY <1>3
  <2>2. x = n + 1
    BY <2>1
  <2> QED BY <2>1, <2>2
<1> QED BY <1>4

LEMMA FoldingExists ==
  ASSUME NEW of, NEW base, NEW s, NEW n \in Nat
  PROVE  \E values : Folding(of, base, s, values, n)
<1> DEFINE bad == {k \in Nat : ~ \E values : Folding(of, base, s, values, k)}
<1>1. SUFFICES ASSUME bad # {} PROVE FALSE
  OBVIOUS
<1>2. PICK k \in bad : \A j \in bad : k <= j
  <2>1. bad \in SUBSET Nat
    OBVIOUS
  <2> HIDE DEF bad
  <2> QED BY <1>1, <2>1, LeastNatural
<1>3. k # 0
  <2>1. SUBSET (1 .. 0) = {{}}
    OBVIOUS
  <2>2. Folding(of, base, s, [t \in {{}} |-> base], 0)
    BY <2>1 DEF Folding, OfSubset
  <2> QED BY <2>2
<1>4. PICK h \in Nat : k = h + 1
  <2>1. k - 1 \in Nat /\ k = (k - 1) + 1
    BY <1>3
  <2> QED BY <2>1
<1>5. PICK values : Folding(of, base, s, values, h)
  BY <1>2, <1>4
<1> DEFINE more == [t \in SUBSET (1 .. k) |-> OfSubset(of, base, s, values, t)]
<1>6. ASSUME NEW t \in SUBSET (1 .. k)
      PROVE  OfSubset(of, base, s, values, t) = OfSubset(of, base, s, more, t)
  <2>1. CASE t = {}
    BY <2>1 DEF OfSubset
  <2>2. CASE t # {}
    <3>1. t \ {Max(t)} \in SUBSET (1 .. h)
      <4>1. CASE k \in t
        BY <1>4, <4>1, MaxOfSubset
      <4>2. CASE k \notin t
        <5>1. \A x \in 1 .. k : x # k => x \in 1 .. h
          BY <1>4
        <5>2. t \in SUBSET (1 .. h)
          BY <4>2, <5>1
        <5> QED BY <5>2
      <4> QED BY <4>1, <4>2
    <3>2. PICK u \in SUBSET (1 .. h) : u = t \ {Max(t)}
      BY <3>1
    <3>3. u \in SUBSET (1 .. k)
      BY <1>4
    <3>4. values[u] = OfSubset(of, base, s, values, u)
      BY <1>5 DEF Folding
    <3>5. values[u] = more[u]
      BY <3>3, <3>4
    <3> HIDE DEF more
    <3> QED BY <2>2, <3>2, <3>5 DEF OfSubset
  <2> QED BY <2>1, <2>2
<1>7. Folding(of, base, s, more, k)
  BY <1>6 DEF Folding
<1> QED BY <1>7

LEMMA FoldingFolds ==
  ASSUME NEW of, NEW base, NEW s, NEW n \in Nat, n = Len(s),
         NEW values, Folding(of, base, s, values, n)
  PROVE  \E at : Folds(of, base, s, at) /\ values[1 .. n] = at[n]
<1> DEFINE at == [k \in 0 .. n |-> values[1 .. k]]
<1>1. at[0] = base
  <2>1. 1 .. 0 = {} /\ {} \in SUBSET (1 .. n)
    OBVIOUS
  <2> QED BY <2>1 DEF Folding, OfSubset
<1>2. ASSUME NEW k \in 1 .. n PROVE at[k] = Put(of, at[k - 1], s[k])
  <2>1. PICK h \in Nat : k = h + 1 /\ h = k - 1
    OBVIOUS
  <2>2. PICK t \in SUBSET (1 .. n) : t = 1 .. k /\ k \in t /\ t \in SUBSET (1 .. h + 1)
    BY <2>1
  <2>3. Max(t) = k
    BY <2>1, <2>2, MaxOfSubset
  <2>4. t \ {k} = 1 .. h
    BY <2>1, <2>2
  <2>5. values[t] = Put(of, values[t \ {k}], s[k])
    BY <2>2, <2>3 DEF Folding, OfSubset
  <2> QED BY <2>1, <2>2, <2>4, <2>5
<1>3. Folds(of, base, s, at) /\ at[n] = values[1 .. n]
  <2>1. at[n] = values[1 .. n]
    OBVIOUS
  <2> HIDE DEF at
  <2> QED BY <1>1, <1>2, <2>1 DEF Folds
<1> QED BY <1>3

LEMMA PathFolds ==
  ASSUME NEW m, NEW S, NEW spec \in Seq(S)
  PROVE  \E at : Folds("path", Start(m), spec, at) /\ NewJSONPath(m, spec) = at[Len(spec)]
<1>1. PICK n \in Nat : n = Len(spec) /\ DOMAIN spec = 1 .. n
  OBVIOUS
<1> DEFINE chosen == CHOOSE values : Folding("path", Start(m), spec, values, n)
<1>2. Folding("path", Start(m), spec, chosen, n)
  BY FoldingExists
<1>3. NewJSONPath(m, spec) = chosen[1 .. n]
  BY <1>1 DEF NewJSONPath, FoldLeft, MapThenFoldSet, Folding, OfSubset, Put
<1> HIDE DEF chosen
<1>4. PICK at : Folds("path", Start(m), spec, at) /\ chosen[1 .. n] = at[n]
  BY <1>1, <1>2, FoldingFolds
<1> QED BY <1>1, <1>3, <1>4

LEMMA ChecksFold ==
  ASSUME NEW S, NEW checks \in Seq(S)
  PROVE  \E at : Folds("checks", "ok", checks, at) /\ CheckEach(checks) = at[Len(checks)]
<1>1. PICK n \in Nat : n = Len(checks) /\ DOMAIN checks = 1 .. n
  OBVIOUS
<1> DEFINE chosen == CHOOSE values : Folding("checks", "ok", checks, values, n)
<1>2. Folding("checks", "ok", checks, chosen, n)
  BY FoldingExists
<1>3. CheckEach(checks) = chosen[1 .. n]
  BY <1>1 DEF CheckEach, FoldLeft, MapThenFoldSet, Folding, OfSubset, Put
<1> HIDE DEF chosen
<1>4. PICK at : Folds("checks", "ok", checks, at) /\ chosen[1 .. n] = at[n]
  BY <1>1, <1>2, FoldingFolds
<1> QED BY <1>1, <1>3, <1>4

(* Checks that together are ok are ok each. *)
LEMMA EachChecked ==
  ASSUME NEW S, NEW checks \in Seq(S), CheckEach(checks) = "ok"
  PROVE  \A i \in DOMAIN checks : checks[i] = "ok"
<1>1. PICK n \in Nat : n = Len(checks) /\ DOMAIN checks = 1 .. n
  OBVIOUS
<1>2. PICK at : Folds("checks", "ok", checks, at) /\ at[n] = "ok"
  BY <1>1, ChecksFold
<1>3. \A i \in 1 .. n : at[i] = "ok" => at[i - 1] = "ok" /\ checks[i] = "ok"
  BY <1>1, <1>2 DEF Folds, Put, Both
<1> DEFINE bad == {j \in Nat : j <= n /\ at[n - j] # "ok"}
<1>4. bad = {}
  <2>1. SUFFICES ASSUME bad # {} PROVE FALSE
    OBVIOUS
  <2>2. PICK j \in bad : \A k \in bad : j <= k
    <3>1. bad \in SUBSET Nat
      OBVIOUS
    <3> HIDE DEF bad
    <3> QED BY <2>1, <3>1, LeastNatural
  <2>3. j # 0
    BY <1>2
  <2>4. PICK i \in 1 .. n : i = n - (j - 1) /\ i - 1 = n - j
    BY <2>3
  <2>5. at[i] = "ok"
    <3>1. j - 1 \notin bad /\ j - 1 \in Nat /\ j - 1 <= n
      BY <2>2, <2>3
    <3> QED BY <3>1, <2>4
  <2>6. at[i - 1] = "ok"
    BY <1>3, <2>5
  <2> QED BY <2>4, <2>6
<1>5. ASSUME NEW i \in 1 .. n PROVE at[i] = "ok"
  <2>1. n - i \in Nat /\ n - i <= n /\ n - (n - i) = i
    OBVIOUS
  <2>2. n - i \notin bad
    BY <1>4
  <2> QED BY <2>1, <2>2
<1> QED BY <1>1, <1>3, <1>5

-----------------------------------------------------------------------------
(***************************************************************************)
(* A path of JSON names goes down the chain that has those names, field by *)
(* field, or it is refused (at a map).                                     *)
(***************************************************************************)
Linked(m, d) ==
  /\ d[1] \in FieldSet(m)
  /\ \A k \in 1 .. Len(d) : k > 1 =>
       d[k - 1].message \in Messages /\ d[k] \in FieldSet(d[k - 1].message)

LEMMA ChainsLinked ==
  ASSUME NEW m \in Messages, NEW d \in Range(ChainsFrom[m])
  PROVE  Linked(m, d)
<1> DEFINE bad == {h \in Nat : \E a \in Messages : Nesting[a] = h
                                 /\ \E e \in Range(ChainsFrom[a]) : ~Linked(a, e)}
<1>1. \A a \in Messages : Nesting[a] \in Nat
  BY PathsAssumption
<1>2. SUFFICES ASSUME bad # {} PROVE FALSE
  BY <1>1
<1>3. PICK h \in bad : \A g \in bad : h <= g
  <2>1. bad \in SUBSET Nat
    OBVIOUS
  <2> HIDE DEF bad
  <2> QED BY <1>2, <2>1, LeastNatural
<1>4. PICK a \in Messages : Nesting[a] = h /\ \E e \in Range(ChainsFrom[a]) : ~Linked(a, e)
  BY <1>3
<1>5. PICK e \in Range(ChainsFrom[a]) : ~Linked(a, e)
  BY <1>4
<1>6. PICK f \in FieldSet(a) : InBlock(f, e)
  BY <1>5, ChainsInto
<1>7. f \in FieldRefs
  BY DEF FieldRefs
<1>8. CASE e = <<f>>
  <2>1. Len(e) = 1 /\ e[1] = f
    BY <1>8
  <2>2. Linked(a, e)
    BY <2>1 DEF Linked
  <2> QED BY <2>2, <1>5
<1>9. CASE e # <<f>>
  <2>1. PICK c \in Range(ChainsFrom[f.message]) : f.message # NoMessage /\ e = <<f>> \o c
    BY <1>6, <1>9 DEF InBlock
  <2>2. /\ f.message \in Messages /\ Nesting[f.message] \in Nat /\ Nesting[f.message] < h
    BY <2>1, <1>4, FieldNests
  <2>3. Nesting[f.message] \notin bad
    BY <1>3, <2>2
  <2>4. Linked(f.message, c)
    BY <2>1, <2>2, <2>3
  <2>5. c \in Chains /\ c # <<>>
    BY <2>1, <2>2, ChainsFilled
  <2>6. PICK n \in Nat : n = Len(c)
    BY <2>5 DEF Chains
  <2>7. /\ Len(e) = n + 1 /\ e[1] = f /\ \A i \in 1 .. n : e[i + 1] = c[i]
    BY <2>1, <2>5, <2>6, <1>7, Prefixed
  <2>8. ASSUME NEW k \in 1 .. Len(e), k > 1
        PROVE  e[k - 1].message \in Messages /\ e[k] \in FieldSet(e[k - 1].message)
    <3>1. PICK i \in 1 .. n : k = i + 1 /\ i = k - 1
      BY <2>7, <2>8
    <3>2. e[k] = c[i]
      BY <2>7, <3>1
    <3>3. CASE i = 1
      BY <2>2, <2>4, <2>7, <3>1, <3>2, <3>3 DEF Linked
    <3>4. CASE i # 1
      <4>1. i > 1 /\ i - 1 \in 1 .. n /\ (i - 1) + 1 = i
        BY <3>4
      <4>2. e[i] = c[i - 1]
        BY <4>1, <2>7
      <4> QED BY <2>4, <2>6, <3>1, <3>2, <4>1, <4>2 DEF Linked
    <3> QED BY <3>3, <3>4
  <2>9. Linked(a, e)
    BY <2>7, <2>8 DEF Linked
  <2> QED BY <2>9, <1>5
<1> QED BY <1>8, <1>9

FieldNodes == {FieldNode(f.json, f) : f \in FieldRefs}

OnPath(m, nodes) == [at |-> m, nodes |-> nodes, oneof |-> NoOneof, error |-> "none"]

LedTo(path, f) ==
  \E nodes \in Seq(FieldNodes) :
    path = OnPath(f.message, nodes) /\ nodes # <<>> /\ Last(nodes).field = f

LEMMA JSONStepDown ==
  ASSUME NEW m \in Messages, NEW f \in FieldSet(m), NEW nodes \in Seq(FieldNodes)
  PROVE  LET step == JSONStep(OnPath(m, nodes), f.json)
         IN  step = Failed("refused") \/ LedTo(step, f)
<1> DEFINE node == FieldNode(f.json, f)
           path == OnPath(m, nodes)
           step == JSONStep(path, f.json)
<1>1. f \in FieldRefs /\ node \in FieldNodes /\ node.field = f
  BY DEF FieldRefs, FieldNodes, FieldNode
<1>2. ByJSONName(m, f.json) = {f}
  <2>1. \A g \in FieldSet(m) : \E i \in DOMAIN FieldsOf[m] : g = FieldsOf[m][i]
    BY DEF FieldSet, Range
  <2>2. ASSUME NEW g \in FieldSet(m), g.json = f.json PROVE g = f
    <3>1. PICK i \in DOMAIN FieldsOf[m] : g = FieldsOf[m][i]
      BY <2>1
    <3>2. PICK j \in DOMAIN FieldsOf[m] : f = FieldsOf[m][j]
      BY <2>1
    <3>3. i = j
      BY <2>2, <3>1, <3>2, PathsAssumption
    <3> QED BY <3>1, <3>2, <3>3
  <2> QED BY <2>2 DEF ByJSONName
<1>3. FindField(m, f.json) = <<node>>
  <2>1. The(ByJSONName(m, f.json)) = f
    BY <1>2 DEF The
  <2> QED BY <1>2, <2>1 DEF FindField
<1>4. path.at = m /\ path.nodes = nodes /\ m # NoMessage
  BY PathsAssumption DEF OnPath
<1> HIDE DEF node
<1>5. step = JSONElement(path, f.json, <<node>>)
  BY <1>3, <1>4 DEF JSONStep
<1>6. CASE ~f.map
  <2>1. <<node>> # <<>> /\ \A i \in DOMAIN <<node>> : ~<<node>>[i].field.map
    BY <1>1, <1>6
  <2>2. step = Follow(path, <<node>>)
    BY <1>5, <2>1 DEF JSONElement
  <2>3. Last(<<node>>) = node
    BY DEF Last
  <2>4. step = OnPath(f.message, nodes \o <<node>>)
    BY <2>2, <2>3, <1>1 DEF Follow, OnPath
  <2>5. Append(nodes, node) \in Seq(FieldNodes) /\ Append(nodes, node) = nodes \o <<node>>
    BY <1>1
  <2>6. PICK more \in Seq(FieldNodes) : more = Append(nodes, node) /\ more = nodes \o <<node>>
    BY <2>5
  <2>7. more # <<>> /\ Last(more) = node
    <3>1. Len(more) = Len(nodes) + 1 /\ Append(nodes, node)[Len(nodes) + 1] = node
      BY <1>1, <2>6
    <3>2. more[Len(more)] = node
      BY <3>1, <2>6
    <3>3. Len(more) # 0
      BY <3>1
    <3> QED BY <3>2, <3>3 DEF Last
  <2>8. LedTo(step, f)
    BY <1>1, <2>4, <2>6, <2>7 DEF LedTo
  <2> QED BY <2>8
<1>7. CASE f.map
  <2>1. ~ \A i \in DOMAIN <<node>> : ~<<node>>[i].field.map
    <3>1. 1 \in DOMAIN <<node>> /\ <<node>>[1] = node
      OBVIOUS
    <3> QED BY <3>1, <1>1, <1>7
  <2>2. <<node>> # <<>>
    OBVIOUS
  <2>3. step = Failed("refused")
    BY <1>5, <2>1, <2>2 DEF JSONElement
  <2> QED BY <2>3
<1> QED BY <1>6, <1>7

LEMMA StaysRefused ==
  ASSUME NEW json
  PROVE  JSONStep(Failed("refused"), json) = Failed("refused")
<1>1. Failed("refused").at = NoMessage
  BY DEF Failed, Start
<1> QED BY <1>1 DEF JSONStep, JSONElement

LEMMA PathDown ==
  ASSUME NEW m \in Messages, NEW d \in Range(ChainsFrom[m])
  PROVE  LET path == NewJSONPath(m, JSONNames(d))
         IN  path = Failed("refused") \/ LedTo(path, Last(d))
<1>1. d \in Seq(FieldRefs) /\ d # <<>>
  BY ChainsFilled DEF Chains
<1>2. PICK n \in Nat : n = Len(d) /\ n # 0 /\ DOMAIN d = 1 .. n
  BY <1>1, EmptySeq
<1>3. PICK names \in Seq({d[k].json : k \in 1 .. n}) :
        names = JSONNames(d) /\ Len(names) = n /\ \A k \in 1 .. n : names[k] = d[k].json
  <2>1. JSONNames(d) = [k \in 1 .. n |-> d[k].json]
    BY <1>2 DEF JSONNames
  <2>2. PICK S : S = {d[k].json : k \in 1 .. n}
    OBVIOUS
  <2>3. PICK names : names = [k \in 1 .. n |-> d[k].json]
    OBVIOUS
  <2>4. names \in Seq(S) /\ Len(names) = n /\ \A k \in 1 .. n : names[k] = d[k].json
    BY <2>2, <2>3
  <2> QED BY <2>1, <2>2, <2>3, <2>4
<1>4. PICK at : Folds("path", Start(m), names, at) /\ NewJSONPath(m, names) = at[n]
  BY <1>3, PathFolds
<1>5. at[0] = OnPath(m, <<>>)
  BY <1>4 DEF Folds, Start, OnPath
<1>6. \A k \in 1 .. n : at[k] = JSONStep(at[k - 1], d[k].json)
  BY <1>3, <1>4 DEF Folds, Put
<1>7. Linked(m, d)
  BY ChainsLinked
<1>8. 1 \in 1 .. n /\ (at[1] = Failed("refused") \/ LedTo(at[1], d[1]))
  <2>1. 1 \in 1 .. n /\ 1 - 1 = 0
    BY <1>2
  <2>2. at[1] = JSONStep(OnPath(m, <<>>), d[1].json)
    BY <1>5, <1>6, <2>1
  <2>3. d[1] \in FieldSet(m) /\ <<>> \in Seq(FieldNodes)
    BY <1>7 DEF Linked
  <2> QED BY <2>1, <2>2, <2>3, JSONStepDown
<1>9. ASSUME NEW k \in 1 .. n, k > 1, at[k - 1] = Failed("refused") \/ LedTo(at[k - 1], d[k - 1])
      PROVE  at[k] = Failed("refused") \/ LedTo(at[k], d[k])
  <2>1. at[k] = JSONStep(at[k - 1], d[k].json)
    BY <1>6
  <2>2. CASE at[k - 1] = Failed("refused")
    BY <2>1, <2>2, StaysRefused
  <2>3. CASE LedTo(at[k - 1], d[k - 1])
    <3>1. PICK a : a = d[k - 1].message
      OBVIOUS
    <3>2. a \in Messages /\ d[k] \in FieldSet(a)
      BY <1>2, <1>7, <1>9, <3>1 DEF Linked
    <3>3. PICK nodes \in Seq(FieldNodes) : at[k - 1] = OnPath(a, nodes)
      BY <2>3, <3>1 DEF LedTo
    <3> QED BY <2>1, <3>2, <3>3, JSONStepDown
  <2> QED BY <1>9, <2>2, <2>3
<1> DEFINE bad == {k \in Nat : k \in 1 .. n /\ ~(at[k] = Failed("refused") \/ LedTo(at[k], d[k]))}
<1>10. bad = {}
  <2>1. SUFFICES ASSUME bad # {} PROVE FALSE
    OBVIOUS
  <2>2. PICK k \in bad : \A j \in bad : k <= j
    <3>1. bad \in SUBSET Nat
      OBVIOUS
    <3> HIDE DEF bad
    <3> QED BY <2>1, <3>1, LeastNatural
  <2>3. k \in 1 .. n /\ k # 1 /\ k > 1
    BY <1>8, <2>2
  <2>4. k - 1 \in Nat /\ k - 1 \in 1 .. n /\ k - 1 \notin bad
    BY <2>2, <2>3
  <2>5. at[k - 1] = Failed("refused") \/ LedTo(at[k - 1], d[k - 1])
    BY <2>4
  <2> QED BY <1>9, <2>2, <2>3, <2>5
<1>11. at[n] = Failed("refused") \/ LedTo(at[n], d[n])
  BY <1>2, <1>10
<1>12. Last(d) = d[n]
  BY <1>2 DEF Last
<1> QED BY <1>3, <1>4, <1>11, <1>12

-----------------------------------------------------------------------------
(***************************************************************************)
(* A search that is valid is of a field that has a column.                 *)
(***************************************************************************)
LEMMA SearchHasColumn ==
  ASSUME NEW m \in Messages, NEW id, NEW search, NEW d \in Range(ChainsFrom[m]),
         CheckSearch(NewJSONPath(m, search.field)) = "ok",
         JSONNames(d) = search.field, InSnake(d)
  PROVE  TsvColumns(m, id, SearchKey(search)) # {}
<1>1. PICK path : path = NewJSONPath(m, search.field)
  OBVIOUS
<1>2. path = Failed("refused") \/ LedTo(path, Last(d))
  BY <1>1, PathDown
<1>3. CheckSearch(path) = "ok"
  BY <1>1
<1>4. path.nodes # <<>> /\ Ruled(Leaf(path).field) /\ Leaf(path).field.kind = "text"
      /\ Granted(Leaf(path).field.rules.search) = "ok"
  BY <1>3 DEF CheckSearch, LeadsToField
<1>5. Leaf(path).field = Last(d)
  <2>1. Failed("refused").nodes = <<>>
    BY DEF Failed, Start
  <2>2. PICK nodes \in Seq(FieldNodes) :
          path = OnPath(Last(d).message, nodes) /\ Last(nodes).field = Last(d)
    BY <1>2, <1>4, <2>1 DEF LedTo
  <2>3. path.nodes = nodes
    BY <2>2 DEF OnPath
  <2> QED BY <2>2, <2>3 DEF Leaf
<1>6. PICK f \in FieldRefs : f = Last(d)
  <2>1. d \in Seq(FieldRefs) /\ d # <<>>
    BY ChainsFilled DEF Chains
  <2>2. Len(d) \in DOMAIN d
    BY <2>1, EmptySeq
  <2>3. d[Len(d)] \in FieldRefs
    BY <2>1, <2>2
  <2> QED BY <2>3 DEF Last
<1>7. f \in Searchables
  <2>1. f.rules.search \in {"absent", "off", "on"}
    BY <1>4, <1>5, <1>6, FiltersAssumption DEF Ruled
  <2>2. f.rules.search = "on"
    BY <1>4, <1>5, <1>6, <2>1 DEF Granted
  <2> QED BY <1>4, <1>5, <1>6, <2>2 DEF Searchables, IsSearchable
<1>8. d \in Range(SearchChains[m])
  BY <1>6, <1>7, SoughtAre DEF Sought
<1>9. Names(d) = SearchKey(search)
  <2>1. DOMAIN search.field = DOMAIN d /\ \A i \in DOMAIN d : search.field[i] = d[i].json
    BY DEF JSONNames
  <2>2. \A i \in DOMAIN d : Snake[search.field[i]] = d[i].name
    BY <2>1 DEF InSnake
  <2> QED BY <2>1, <2>2 DEF Names, SearchKey
<1> QED BY <1>8, <1>9 DEF TsvColumns

-----------------------------------------------------------------------------
(***************************************************************************)
(* What a get answers with.                                                *)
(***************************************************************************)
LEMMA GetAnswers ==
  ASSUME NEW properties, NEW states, NEW events, NEW authRows, NEW claim, NEW request
  PROVE  Get(properties, states, events, authRows, claim, request).is
            \in {"error", "not found", "found"}
<1> DEFINE keys == PrimaryKey(properties, request)
           rows == {row \in Addressed(states, keys) : Seen(authRows, claim, row) # {}}
           row  == CHOOSE r \in rows : TRUE
           joined == {e \in events : \A column \in EventJoin(properties) :
                                       e.keys[column] = row.keys[column]}
           copies == Cardinality(Seen(authRows, claim, row))
<1>1. Get(properties, states, events, authRows, claim, request)
        = IF ~(PrimaryColumns(properties) \subseteq DOMAIN keys) THEN Error
          ELSE IF rows = {} THEN [is |-> "not found"]
          ELSE IF joined = {} THEN Error
          ELSE [is |-> "found", state |-> row, events |-> joined, copies |-> copies]
  BY DEF Get
<1> HIDE DEF keys, rows, row, joined, copies
<1>2. /\ Error.is = "error" /\ [is |-> "not found"].is = "not found"
      /\ [is |-> "found", state |-> row, events |-> joined, copies |-> copies].is = "found"
  BY DEF Error
<1>3. CASE ~(PrimaryColumns(properties) \subseteq DOMAIN keys)
  BY <1>1, <1>2, <1>3
<1>4. CASE (PrimaryColumns(properties) \subseteq DOMAIN keys) /\ rows = {}
  BY <1>1, <1>2, <1>4
<1>5. CASE (PrimaryColumns(properties) \subseteq DOMAIN keys) /\ rows # {} /\ joined = {}
  BY <1>1, <1>2, <1>5
<1>6. CASE (PrimaryColumns(properties) \subseteq DOMAIN keys) /\ rows # {} /\ joined # {}
  BY <1>1, <1>2, <1>6
<1> QED BY <1>3, <1>4, <1>5, <1>6

LEMMA ClaimedIsSeen ==
  ASSUME plan \in Plans, NEW row \in plan.states
  PROVE  Claimed(row) <=> Seen(plan.authRows, plan.claim, row) # {}
<1>1. NullRow \notin plan.authRows
  BY TablesAssumption
<1>2. CASE plan.claim = NoAuth
  BY <1>2 DEF Claimed, Seen
<1>3. CASE plan.claim # NoAuth /\ plan.claim = NoClaim
  <2>1. AuthJoined(plan.authRows, row) # {}
    BY DEF AuthJoined
  <2>2. Seen(plan.authRows, plan.claim, row) = AuthJoined(plan.authRows, row)
    BY <1>3 DEF Seen
  <2> QED BY <1>3, <2>1, <2>2 DEF Claimed
<1>4. CASE plan.claim # NoAuth /\ plan.claim # NoClaim
  <2>1. Claimed(row) <=>
          \E a \in plan.authRows : a.on = row.keys[AuthColumn] /\ a.claim = plan.claim
    BY <1>4 DEF Claimed
  <2>2. Seen(plan.authRows, plan.claim, row) =
          {a \in AuthJoined(plan.authRows, row) : a # NullRow /\ a.claim = plan.claim}
    BY <1>4 DEF Seen
  <2>3. Seen(plan.authRows, plan.claim, row) =
          {a \in plan.authRows : a.on = row.keys[AuthColumn] /\ a.claim = plan.claim}
    BY <1>1, <2>2 DEF AuthJoined
  <2> QED BY <2>1, <2>3
<1> QED BY <1>2, <1>3, <1>4

LEMMA OneSeen ==
  ASSUME plan \in Plans, NEW row \in plan.states, AuthUnique,
         Seen(plan.authRows, plan.claim, row) # {}
  PROVE  Cardinality(Seen(plan.authRows, plan.claim, row)) = 1
<1>1. \A a, b \in AuthJoined(plan.authRows, row) : a = b
  BY DEF AuthUnique, AuthJoined
<1>2. \A a, b \in Seen(plan.authRows, plan.claim, row) : a = b
  BY <1>1 DEF Seen
<1>3. PICK a : Seen(plan.authRows, plan.claim, row) = {a}
  BY <1>2
<1> QED BY <1>3, FS_Singleton

(* The keys that a request gives, by column, each with a value. *)
LEMMA KeysOfRequest ==
  ASSUME plan \in Plans, NEW req \in plan.requests, req.is = "get"
  PROVE  LET keys == PrimaryKey(plan.properties, req.keys)
         IN  \A column \in DOMAIN keys :
               column \in KeyNames(plan.properties) /\ keys[column] # ""
<1> DEFINE keys == PrimaryKey(plan.properties, req.keys)
<1> SUFFICES ASSUME NEW column \in DOMAIN keys
             PROVE  column \in KeyNames(plan.properties) /\ keys[column] # ""
  OBVIOUS
<1>1. PICK k \in KeyColumns(plan.properties) : k.name \in DOMAIN req.keys /\ k.column = column
  BY DEF PrimaryKey, Asked
<1>2. (CHOOSE j \in KeyColumns(plan.properties) : j.column = column) = k
  BY <1>1, TablesAssumption
<1>3. keys[column] = req.keys[k.name]
  BY <1>2 DEF PrimaryKey
<1>4. req.keys[k.name] # ""
  BY <1>1, TablesAssumption
<1> QED BY <1>1, <1>3, <1>4 DEF KeyNames

ShowsEntity(req, answer) ==
  LET keys  == PrimaryKey(plan.properties, req.keys)
      asked == {row \in plan.states : Claimed(row)
                  /\ \A column \in DOMAIN keys : row.keys[column] = keys[column]}
  IN  /\ answer.is = "found" =>
           /\ asked = {answer.state}
           /\ answer.events = {e \in plan.events : \A column \in DOMAIN e.keys :
                                 e.keys[column] = answer.state.keys[column]}
           /\ AuthUnique => answer.copies = 1
      /\ answer.is = "not found" => asked = {}

LEMMA GetFinds ==
  ASSUME plan \in Plans, NEW req \in plan.requests, req.is = "get"
  PROVE  ShowsEntity(req, Get(plan.properties, plan.states, plan.events, plan.authRows,
                              plan.claim, req.keys))
<1> DEFINE keys   == PrimaryKey(plan.properties, req.keys)
           answer == Get(plan.properties, plan.states, plan.events, plan.authRows,
                         plan.claim, req.keys)
           asked  == {row \in plan.states : Claimed(row)
                        /\ \A column \in DOMAIN keys : row.keys[column] = keys[column]}
           rows   == {row \in Addressed(plan.states, keys) :
                        Seen(plan.authRows, plan.claim, row) # {}}
           row    == CHOOSE r \in rows : TRUE
           joined == {e \in plan.events : \A column \in EventJoin(plan.properties) :
                                            e.keys[column] = row.keys[column]}
           primary == PrimaryColumns(plan.properties)
<1>1. /\ \A column \in DOMAIN keys : column \in KeyNames(plan.properties) /\ keys[column] # ""
  BY KeysOfRequest
<1>2. /\ \A r \in plan.states : DOMAIN r.keys = KeyNames(plan.properties)
      /\ \A r, s \in plan.states : (\A column \in primary : r.keys[column] = s.keys[column]) => r = s
      /\ \A e \in plan.events : \E r \in plan.states : e.keys = r.keys
      /\ primary \subseteq KeyNames(plan.properties)
  BY TablesAssumption DEF PrimaryColumns, KeyNames
<1>3. answer = IF ~(primary \subseteq DOMAIN keys) THEN Error
               ELSE IF rows = {} THEN [is |-> "not found"]
               ELSE IF joined = {} THEN Error
               ELSE [is |-> "found", state |-> row, events |-> joined,
                     copies |-> Cardinality(Seen(plan.authRows, plan.claim, row))]
  BY DEF Get
<1> HIDE DEF keys, answer, primary
<1>4. rows = asked
  <2>1. ASSUME NEW r \in plan.states
        PROVE  r \in Addressed(plan.states, keys) <=>
                 \A column \in DOMAIN keys : r.keys[column] = keys[column]
    BY <1>1, <1>2 DEF Addressed, Stored
  <2>2. Addressed(plan.states, keys) \subseteq plan.states
    BY DEF Addressed
  <2> QED BY <2>1, <2>2, ClaimedIsSeen
<1>5. ASSUME answer.is = "not found" PROVE asked = {}
  <2> HIDE DEF rows, row, joined, asked
  <2> QED BY <1>3, <1>4, <1>5 DEF Error
<1>6. ASSUME answer.is = "found"
      PROVE  /\ primary \subseteq DOMAIN keys /\ rows # {} /\ answer.state = row
             /\ answer.events = joined
             /\ answer.copies = Cardinality(Seen(plan.authRows, plan.claim, row))
  <2> HIDE DEF rows, row, joined, asked
  <2> QED BY <1>3, <1>6 DEF Error
<1>7. ASSUME answer.is = "found"
      PROVE  /\ asked = {answer.state}
             /\ answer.events = {e \in plan.events : \A column \in DOMAIN e.keys :
                                     e.keys[column] = answer.state.keys[column]}
             /\ AuthUnique => answer.copies = 1
  <2>1. row \in rows /\ row \in plan.states
    <3>1. row \in rows
      BY <1>6, <1>7
    <3> QED BY <3>1, <1>4
  <2> HIDE DEF row
  <2>2. asked = {row}
    <3>1. ASSUME NEW r \in asked PROVE r = row
      <4>1. \A column \in primary : r.keys[column] = row.keys[column]
        BY <1>4, <1>6, <1>7, <2>1, <3>1
      <4> QED BY <4>1, <1>2, <2>1
    <3> QED BY <3>1, <2>1, <1>4
  <2>3. joined = {e \in plan.events : \A column \in DOMAIN e.keys :
                                          e.keys[column] = row.keys[column]}
    <3> SUFFICES ASSUME NEW e \in plan.events
                 PROVE  (\A column \in primary : e.keys[column] = row.keys[column]) <=>
                          \A column \in DOMAIN e.keys : e.keys[column] = row.keys[column]
      BY DEF EventJoin, primary
    <3>1. PICK r \in plan.states : e.keys = r.keys
      BY <1>2
    <3>2. primary \subseteq DOMAIN e.keys
      BY <1>2, <3>1
    <3>3. ASSUME \A column \in primary : e.keys[column] = row.keys[column]
          PROVE  e.keys = row.keys
      BY <1>2, <2>1, <3>1, <3>3
    <3> QED BY <3>2, <3>3
  <2>4. ASSUME AuthUnique PROVE Cardinality(Seen(plan.authRows, plan.claim, row)) = 1
    <3>1. Seen(plan.authRows, plan.claim, row) # {}
      BY <2>1
    <3> QED BY <2>1, <2>4, <3>1, OneSeen
  <2> HIDE DEF asked, joined, rows
  <2> QED BY <1>6, <1>7, <2>2, <2>3, <2>4
<1> QED BY <1>5, <1>7 DEF keys, answer, ShowsEntity

LEMMA GetsFromInv == QueryInv => GetShowsEntity
<1> SUFFICES ASSUME QueryInv, NEW c \in Callers, callers[c].request.is = "get"
             PROVE  ShowsEntity(callers[c].request, callers[c].answer)
  BY DEF GetShowsEntity, ShowsEntity
<1>1. /\ plan \in Plans /\ callers[c].request \in plan.requests \cup {Nothing}
      /\ callers[c].answer = Get(plan.properties, plan.states, plan.events, plan.authRows,
                                 plan.claim, callers[c].request.keys)
  BY DEF QueryInv, ListerInv, CallersInv, CallerOK
<1>2. callers[c].request \in plan.requests
  BY <1>1 DEF Nothing
<1>3. ShowsEntity(callers[c].request,
                  Get(plan.properties, plan.states, plan.events, plan.authRows,
                      plan.claim, callers[c].request.keys))
  BY <1>1, <1>2, GetFinds
<1> QED BY <1>1, <1>3

(* A get answers with the row of the keys that were asked for, if the claim  *)
(* lets it be seen, and with all events of that row and of no other.         *)
THEOREM GetsShowEntities == Spec => []GetShowsEntity
  BY QueryInvariant, GetsFromInv, PTL

-----------------------------------------------------------------------------
(***************************************************************************)
(* Lists flattened, when a list is added, and when each has one element.   *)
(***************************************************************************)
LEMMA FlattenLonger ==
  ASSUME NEW T, NEW less \in Seq(Seq(T)), NEW more \in Seq(Seq(T)), NEW n \in Nat,
         Len(less) = n, Len(more) = n + 1, \A i \in 1 .. n : more[i] = less[i]
  PROVE  /\ FlattenSeq(more) = FlattenSeq(less) \o more[n + 1]
         /\ FlattenSeq(less) \in Seq(T) /\ more[n + 1] \in Seq(T)
<1> DEFINE U == Seq(T)
<1>1. PICK last \in U : last = more[n + 1]
  <2>1. n + 1 \in DOMAIN more
    OBVIOUS
  <2> QED BY <2>1
<1> HIDE DEF U
<1>2. less \in Seq(U) /\ more \in Seq(U)
  BY DEF U
<1>3. /\ Append(less, last) \in Seq(U) /\ Len(Append(less, last)) = n + 1
      /\ Append(less, last)[n + 1] = last
      /\ \A i \in 1 .. n : Append(less, last)[i] = less[i]
  BY <1>2, AppendProperties
<1>4. \A i \in 1 .. Len(more) : more[i] = Append(less, last)[i]
  <2>1. \A i \in 1 .. n + 1 : i \in 1 .. n \/ i = n + 1
    OBVIOUS
  <2> QED BY <1>1, <1>3, <2>1
<1>5. more = Append(less, last)
  BY <1>2, <1>3, <1>4, SeqEqual
<1>6. FlattenSeq(Append(less, last)) = FlattenSeq(less) \o last /\ FlattenSeq(less) \in Seq(T)
  BY FlattenMore, FlattenType DEF U
<1> QED BY <1>1, <1>5, <1>6 DEF U

LEMMA FlattenNone == FlattenSeq(<<>>) = <<>>
  BY DEF FlattenSeq

Singles(t, n) == [i \in 1 .. n |-> <<t[i]>>]

LEMMA FlattenSingles ==
  ASSUME NEW T, NEW t \in Seq(T)
  PROVE  FlattenSeq(Singles(t, Len(t))) = t
<1> DEFINE bad == {k \in Nat : \E s \in Seq(T) : Len(s) = k /\ FlattenSeq(Singles(s, k)) # s}
<1>1. SUFFICES ASSUME bad # {} PROVE FALSE
  OBVIOUS
<1>2. PICK k \in bad : \A j \in bad : k <= j
  <2>1. bad \in SUBSET Nat
    OBVIOUS
  <2> HIDE DEF bad
  <2> QED BY <1>1, <2>1, LeastNatural
<1>3. PICK s \in Seq(T) : Len(s) = k /\ FlattenSeq(Singles(s, k)) # s
  BY <1>2
<1>4. CASE k = 0
  <2>1. Singles(s, 0) = <<>> /\ s = <<>>
    BY <1>3, <1>4 DEF Singles
  <2> QED BY <1>3, <1>4, <2>1, FlattenNone
<1>5. CASE k # 0
  <2>1. PICK h \in Nat : k = h + 1
    <3>1. k - 1 \in Nat /\ k = (k - 1) + 1
      BY <1>5
    <3> QED BY <3>1
  <2>2. PICK front \in Seq(T) : Len(front) = h /\ \A i \in 1 .. h : front[i] = s[i]
    <3>1. \A i \in 1 .. h : s[i] \in T
      BY <1>3, <2>1
    <3>2. PICK f : f = [i \in 1 .. h |-> s[i]]
      OBVIOUS
    <3>3. f \in Seq(T) /\ Len(f) = h /\ \A i \in 1 .. h : f[i] = s[i]
      BY <3>1, <3>2
    <3> QED BY <3>3
  <2>3. s[k] \in T
    BY <1>3, <1>5
  <2>4. h \notin bad
    BY <1>2, <2>1
  <2>5. FlattenSeq(Singles(front, h)) = front
    BY <2>2, <2>4
  <2>6. Singles(front, h) \in Seq(Seq(T)) /\ Len(Singles(front, h)) = h
    <3>1. \A i \in 1 .. h : <<front[i]>> \in Seq(T)
      BY <2>2
    <3> QED BY <3>1 DEF Singles
  <2>7. Singles(s, k) \in Seq(Seq(T)) /\ Len(Singles(s, k)) = k
    <3>1. \A i \in 1 .. k : <<s[i]>> \in Seq(T)
      BY <1>3
    <3> QED BY <3>1 DEF Singles
  <2>8. Singles(s, k)[k] = <<s[k]>> /\ \A i \in 1 .. h : Singles(s, k)[i] = Singles(front, h)[i]
    BY <1>5, <2>1, <2>2 DEF Singles
  <2>9. FlattenSeq(Singles(s, k)) = front \o <<s[k]>>
    <3>1. PICK less \in Seq(Seq(T)) : less = Singles(front, h)
      BY <2>6
    <3>2. PICK more \in Seq(Seq(T)) : more = Singles(s, k)
      BY <2>7
    <3>3. /\ Len(less) = h /\ Len(more) = h + 1 /\ more[h + 1] = <<s[k]>>
          /\ \A i \in 1 .. h : more[i] = less[i]
      BY <2>1, <2>6, <2>7, <2>8, <3>1, <3>2
    <3>4. FlattenSeq(more) = FlattenSeq(less) \o more[h + 1]
      BY <3>3, FlattenLonger
    <3> QED BY <2>5, <3>1, <3>2, <3>3, <3>4
  <2>10. Append(front, s[k]) = front \o <<s[k]>> /\ Append(front, s[k]) \in Seq(T)
    <3>1. PICK x \in T : x = s[k]
      BY <2>3
    <3>2. Append(front, x) = front \o <<x>> /\ Append(front, x) \in Seq(T)
      OBVIOUS
    <3> QED BY <3>1, <3>2
  <2>11. /\ Len(Append(front, s[k])) = h + 1 /\ Append(front, s[k])[h + 1] = s[k]
         /\ \A i \in 1 .. h : Append(front, s[k])[i] = front[i]
    BY <2>2, <2>3, AppendProperties
  <2>12. \A i \in 1 .. Len(s) : s[i] = Append(front, s[k])[i]
    <3>1. \A i \in 1 .. k : i \in 1 .. h \/ i = h + 1
      BY <2>1
    <3> QED BY <1>3, <2>1, <2>2, <2>11, <3>1
  <2>13. s = Append(front, s[k])
    BY <1>3, <2>1, <2>10, <2>11, <2>12, SeqEqual
  <2> QED BY <1>3, <2>9, <2>10, <2>13
<1> QED BY <1>4, <1>5

-----------------------------------------------------------------------------
(***************************************************************************)
(* Nodes that follow a chain; the query along them selects the values that *)
(* a row has for the chain.                                                *)
(***************************************************************************)
Follows(nodes, c) ==
  /\ Len(nodes) = Len(c) /\ DOMAIN nodes = 1 .. Len(c)
  /\ \A i \in 1 .. Len(c) : nodes[i].field = c[i] /\ nodes[i].oneof = NoOneof


LEMMA QueryAlong ==
  ASSUME NEW c \in Chains, NEW nodes, Follows(nodes, c)
  PROVE  JSONPathQuery(nodes) = ElementsOf(c)
<1>1. PICK n \in Nat : n = Len(c) /\ DOMAIN c = 1 .. n
  BY DEF Chains
<1>2. PICK T : T = {Element(c[i]) : i \in 1 .. n}
  OBVIOUS
<1>3. ElementsOf(c) \in Seq(T) /\ Len(ElementsOf(c)) = n
  BY <1>1, <1>2 DEF ElementsOf
<1>4. FlattenSeq(Singles(ElementsOf(c), n)) = ElementsOf(c)
  BY <1>3, FlattenSingles
<1>5. Singles(ElementsOf(c), n)
        = [i \in DOMAIN nodes |-> IF nodes[i].oneof # NoOneof THEN <<>>
                                  ELSE << Element(nodes[i].field) >>]
  BY <1>1 DEF Singles, ElementsOf, Follows
<1> QED BY <1>4, <1>5 DEF JSONPathQuery

LEMMA QueryPastOneof ==
  ASSUME NEW c \in Chains, NEW S, NEW nodes \in Seq(S), Follows(nodes, c),
         NEW node \in S, node.oneof # NoOneof
  PROVE  JSONPathQuery(Append(nodes, node)) = ElementsOf(c)
<1>1. PICK n \in Nat : n = Len(c) /\ n = Len(nodes) /\ DOMAIN c = 1 .. n /\ DOMAIN nodes = 1 .. n
  BY DEF Chains, Follows
<1>2. PICK more \in Seq(S) : /\ more = Append(nodes, node) /\ Len(more) = n + 1
                             /\ more[n + 1] = node /\ \A i \in 1 .. n : more[i] = nodes[i]
  <2>1. /\ Append(nodes, node) \in Seq(S) /\ Len(Append(nodes, node)) = n + 1
        /\ Append(nodes, node)[n + 1] = node
        /\ \A i \in 1 .. n : Append(nodes, node)[i] = nodes[i]
    BY <1>1, AppendProperties
  <2> QED BY <2>1
<1> DEFINE piece(x) == IF x.oneof # NoOneof THEN <<>> ELSE << Element(x.field) >>
           each == [i \in DOMAIN nodes |-> piece(nodes[i])]
           longer == [i \in DOMAIN more |-> piece(more[i])]
<1>3. PICK T : T = {Element(x.field) : x \in S}
  OBVIOUS
<1>4. \A x \in S : piece(x) \in Seq(T)
  <2>1. ASSUME NEW x \in S PROVE <<Element(x.field)>> \in Seq(T)
    <3>1. PICK t \in T : t = Element(x.field)
      BY <1>3
    <3> QED BY <3>1
  <2>2. <<>> \in Seq(T)
    OBVIOUS
  <2> QED BY <2>1, <2>2
<1>5. piece(node) = <<>>
  OBVIOUS
<1>6. JSONPathQuery(nodes) = FlattenSeq(each) /\ JSONPathQuery(more) = FlattenSeq(longer)
  BY DEF JSONPathQuery
<1> HIDE DEF piece
<1>7. each \in Seq(Seq(T)) /\ Len(each) = n /\ \A i \in 1 .. n : each[i] = piece(nodes[i])
  BY <1>1, <1>4
<1>8. /\ longer \in Seq(Seq(T)) /\ Len(longer) = n + 1
      /\ longer[n + 1] = <<>> /\ \A i \in 1 .. n : longer[i] = piece(nodes[i])
  <2>1. PICK s \in Nat : s = n + 1 /\ DOMAIN more = 1 .. s
    BY <1>2
  <2>2. longer \in Seq(Seq(T)) /\ Len(longer) = s /\ \A i \in 1 .. s : longer[i] = piece(more[i])
    BY <1>2, <1>4, <2>1
  <2> QED BY <1>2, <1>5, <2>1, <2>2
<1> HIDE DEF each, longer
<1>9. FlattenSeq(longer) = FlattenSeq(each) \o <<>> /\ FlattenSeq(each) \in Seq(T)
  <2>1. /\ Len(each) = n /\ Len(longer) = n + 1 /\ longer[n + 1] = <<>>
        /\ \A i \in 1 .. n : longer[i] = each[i]
    BY <1>7, <1>8
  <2>2. FlattenSeq(longer) = FlattenSeq(each) \o longer[n + 1] /\ FlattenSeq(each) \in Seq(T)
    BY <1>7, <1>8, <2>1, FlattenLonger
  <2> QED BY <2>1, <2>2
<1>10. FlattenSeq(longer) = FlattenSeq(each)
  BY <1>9
<1>11. JSONPathQuery(nodes) = ElementsOf(c)
  BY QueryAlong
<1> QED BY <1>2, <1>6, <1>10, <1>11

LEMMA SelectFolds ==
  ASSUME NEW json, NEW S, NEW query \in Seq(S)
  PROVE  \E at : Folds("select", {json}, query, at) /\ JSONSelect(json, query) = at[Len(query)]
<1>1. PICK n \in Nat : n = Len(query) /\ DOMAIN query = 1 .. n
  OBVIOUS
<1> DEFINE chosen == CHOOSE values : Folding("select", {json}, query, values, n)
<1>2. Folding("select", {json}, query, chosen, n)
  BY FoldingExists
<1>3. JSONSelect(json, query) = chosen[1 .. n]
  BY <1>1 DEF JSONSelect, FoldLeft, MapThenFoldSet, Folding, OfSubset, Put
<1> HIDE DEF chosen
<1>4. PICK at : Folds("select", {json}, query, at) /\ chosen[1 .. n] = at[n]
  BY <1>1, <1>2, FoldingFolds
<1> QED BY <1>1, <1>3, <1>4

LEMMA ValuesFold ==
  ASSUME NEW json, NEW S, NEW chain \in Seq(S)
  PROVE  \E at : Folds("values", {json}, chain, at) /\ ValuesOf(json, chain) = at[Len(chain)]
<1>1. PICK n \in Nat : n = Len(chain) /\ DOMAIN chain = 1 .. n
  OBVIOUS
<1> DEFINE chosen == CHOOSE values : Folding("values", {json}, chain, values, n)
<1>2. Folding("values", {json}, chain, chosen, n)
  BY FoldingExists
<1>3. ValuesOf(json, chain) = chosen[1 .. n]
  BY <1>1 DEF ValuesOf, FoldLeft, MapThenFoldSet, Folding, OfSubset, Put
<1> HIDE DEF chosen
<1>4. PICK at : Folds("values", {json}, chain, at) /\ chosen[1 .. n] = at[n]
  BY <1>1, <1>2, FoldingFolds
<1> QED BY <1>1, <1>3, <1>4

LEMMA SelectsValues ==
  ASSUME NEW json, NEW c \in Chains
  PROVE  JSONSelect(json, ElementsOf(c)) = ValuesOf(json, c)
<1>1. PICK n \in Nat : n = Len(c) /\ DOMAIN c = 1 .. n
  BY DEF Chains
<1>2. PICK query \in Seq({Element(c[i]) : i \in 1 .. n}) :
        query = ElementsOf(c) /\ Len(query) = n /\ \A i \in 1 .. n : query[i] = Element(c[i])
  <2>1. PICK T : T = {Element(c[i]) : i \in 1 .. n}
    OBVIOUS
  <2>2. ElementsOf(c) \in Seq(T) /\ Len(ElementsOf(c)) = n /\ \A i \in 1 .. n : ElementsOf(c)[i] = Element(c[i])
    BY <1>1, <2>1 DEF ElementsOf
  <2> QED BY <2>1, <2>2
<1>3. PICK a : Folds("select", {json}, query, a) /\ JSONSelect(json, query) = a[n]
  BY <1>2, SelectFolds
<1>4. PICK b : Folds("values", {json}, c, b) /\ ValuesOf(json, c) = b[n]
  BY <1>1, ValuesFold DEF Chains
<1>5. \A k \in 1 .. n : a[k] = SelectStep(a[k - 1], Element(c[k]))
  BY <1>2, <1>3 DEF Folds, Put
<1>6. \A k \in 1 .. n : b[k] = ValuesStep(b[k - 1], c[k])
  BY <1>1, <1>4 DEF Folds, Put
<1>7. \A values, f : SelectStep(values, Element(f)) = ValuesStep(values, f)
  BY DEF SelectStep, ValuesStep, Element
<1>8. a[0] = b[0]
  BY <1>3, <1>4 DEF Folds
<1> DEFINE bad == {k \in Nat : k <= n /\ a[k] # b[k]}
<1>9. bad = {}
  <2>1. SUFFICES ASSUME bad # {} PROVE FALSE
    OBVIOUS
  <2>2. PICK k \in bad : \A j \in bad : k <= j
    <3>1. bad \in SUBSET Nat
      OBVIOUS
    <3> HIDE DEF bad
    <3> QED BY <2>1, <3>1, LeastNatural
  <2>3. k \in 1 .. n
    BY <1>8, <2>2
  <2>4. k - 1 \in Nat /\ k - 1 <= n /\ k - 1 \notin bad
    BY <2>2, <2>3
  <2>5. a[k - 1] = b[k - 1]
    BY <2>4
  <2>6. a[k] = b[k]
    BY <1>5, <1>6, <1>7, <2>3, <2>5
  <2> QED BY <2>2, <2>6
<1>10. a[n] = b[n]
  BY <1>9
<1> QED BY <1>2, <1>3, <1>4, <1>10

-----------------------------------------------------------------------------
(***************************************************************************)
(* A path of JSON names that is not refused goes down a chain that has     *)
(* those names, or ends at a oneof of its last message.                    *)
(***************************************************************************)
Nodes ==
  {FieldNode(f.json, f) : f \in FieldRefs} \cup {FieldNode(f.name, f) : f \in FieldRefs}
  \cup {OneofNode("type")}

Ways == Range(ChainsFrom[plan.root]) \cup {<<>>}

SaidBy(c, names, k) ==
  \E said \in NamesFor(c) : Len(said) = k /\ \A i \in 1 .. k : said[i] = names[i]

FieldWay(path, c, names, k) ==
  /\ c \in Ways /\ NoMaps(c) /\ SaidBy(c, names, k)
  /\ \E nodes \in Seq(Nodes) : Follows(nodes, c) /\ path = OnPath(EndOf(c), nodes)

OneofWay(path, c, names, k) ==
  /\ c \in Ways /\ NoMaps(c) /\ SaidBy(c, names, k - 1)
  /\ names[k] = "type" /\ HasType(EndOf(c)) /\ path.at = NoMessage
  /\ \E nodes \in Seq(Nodes) :
       Follows(nodes, c) /\ path.nodes = Append(nodes, OneofNode("type"))

LEMMA WaysAre ==
  ASSUME plan.root \in Messages, NEW c \in Ways
  PROVE  c \in Chains /\ EndOf(c) \in Messages \cup {NoMessage}
<1>1. CASE c = <<>>
  BY <1>1 DEF EndOf, Chains
<1>2. CASE c # <<>>
  <2>1. c \in Seq(FieldRefs)
    BY <1>2, ChainsFilled DEF Ways, Chains
  <2>2. Len(c) \in DOMAIN c
    BY <1>2, <2>1, EmptySeq
  <2>3. c[Len(c)] \in FieldRefs
    BY <2>1, <2>2
  <2>4. Last(c).message \in Messages \cup {NoMessage}
    BY <2>3, PathsAssumption DEF Last
  <2> QED BY <1>2, <2>1, <2>4 DEF EndOf, Chains
<1> QED BY <1>1, <1>2

(* A field more of the last message of a chain is a chain. *)
LEMMA ChainsExtend ==
  ASSUME NEW m \in Messages, NEW c \in Range(ChainsFrom[m]),
         Last(c).message \in Messages, NEW f \in FieldSet(Last(c).message)
  PROVE  Append(c, f) \in Range(ChainsFrom[m])
<1> DEFINE Stops(a, e, g) == /\ Last(e).message \in Messages /\ g \in FieldSet(Last(e).message)
                             /\ Append(e, g) \notin Range(ChainsFrom[a])
           bad == {h \in Nat : \E a \in Messages : Nesting[a] = h
                     /\ \E e \in Range(ChainsFrom[a]) : \E g \in FieldRefs : Stops(a, e, g)}
<1>1. \A a \in Messages : Nesting[a] \in Nat
  BY PathsAssumption
<1>2. f \in FieldRefs
  BY DEF FieldRefs
<1>3. SUFFICES ASSUME bad # {} PROVE FALSE
  BY <1>1, <1>2
<1>4. PICK h \in bad : \A j \in bad : h <= j
  <2>1. bad \in SUBSET Nat
    OBVIOUS
  <2> HIDE DEF bad
  <2> QED BY <1>3, <2>1, LeastNatural
<1>5. PICK a \in Messages : Nesting[a] = h
        /\ \E e \in Range(ChainsFrom[a]) : \E g \in FieldRefs : Stops(a, e, g)
  BY <1>4
<1>6. PICK e \in Range(ChainsFrom[a]) : \E g \in FieldRefs : Stops(a, e, g)
  BY <1>5
<1>7. PICK g \in FieldRefs : Stops(a, e, g)
  BY <1>6
<1>8. PICK b \in FieldSet(a) : InBlock(b, e)
  BY ChainsInto
<1>9. b \in FieldRefs
  BY DEF FieldRefs
<1>10. CASE e = <<b>>
  <2>1. Last(e) = b
    BY <1>10 DEF Last
  <2>2. b.message \in Messages /\ b.message # NoMessage /\ g \in FieldSet(b.message)
    BY <1>7, <2>1, PathsAssumption
  <2>3. InBlock(g, <<g>>)
    BY DEF InBlock
  <2>4. <<g>> \in Range(ChainsFrom[b.message])
    BY <2>2, <2>3, ChainsInto
  <2>5. Append(e, g) = <<b>> \o <<g>>
    BY <1>10
  <2>6. InBlock(b, Append(e, g))
    BY <2>2, <2>4, <2>5 DEF InBlock
  <2>7. Append(e, g) \in Range(ChainsFrom[a])
    BY <2>6, ChainsInto
  <2> QED BY <1>7, <2>7
<1>11. CASE e # <<b>>
  <2>1. PICK d \in Range(ChainsFrom[b.message]) : b.message # NoMessage /\ e = <<b>> \o d
    BY <1>8, <1>11 DEF InBlock
  <2>2. b.message \in Messages /\ Nesting[b.message] \in Nat /\ Nesting[b.message] < h
    BY <1>5, <2>1, FieldNests
  <2>3. d \in Chains /\ d # <<>> /\ Last(e) = Last(d)
    BY <1>9, <2>1, <2>2, ChainsFilled, Prefixed
  <2>4. Nesting[b.message] \notin bad
    BY <1>4, <2>2
  <2>5. Append(d, g) \in Range(ChainsFrom[b.message])
    BY <1>7, <2>2, <2>3, <2>4
  <2>6. Append(e, g) = <<b>> \o Append(d, g)
    <3>1. d \in Seq(FieldRefs) /\ <<b>> \in Seq(FieldRefs) /\ <<g>> \in Seq(FieldRefs)
      BY <1>9, <2>3 DEF Chains
    <3>2. Append(d, g) = d \o <<g>> /\ Append(e, g) = e \o <<g>>
      <4>1. e \in Seq(FieldRefs)
        BY <2>1, <3>1
      <4> QED BY <3>1, <4>1
    <3>3. (<<b>> \o d) \o <<g>> = <<b>> \o (d \o <<g>>)
      BY <3>1, ConcatAssociative
    <3> QED BY <2>1, <3>2, <3>3
  <2>7. InBlock(b, Append(e, g))
    BY <2>1, <2>5, <2>6 DEF InBlock
  <2>8. Append(e, g) \in Range(ChainsFrom[a])
    BY <2>7, ChainsInto
  <2> QED BY <1>7, <2>8
<1> QED BY <1>10, <1>11

LEMMA WaysExtend ==
  ASSUME plan.root \in Messages, NEW c \in Ways, EndOf(c) \in Messages,
         NEW f \in FieldSet(EndOf(c))
  PROVE  /\ Append(c, f) \in Ways /\ f \in FieldRefs /\ EndOf(Append(c, f)) = f.message
         /\ Append(c, f) \in Seq(FieldRefs) /\ Len(Append(c, f)) = Len(c) + 1
         /\ Append(c, f)[Len(c) + 1] = f /\ \A i \in 1 .. Len(c) : Append(c, f)[i] = c[i]
<1>1. f \in FieldRefs
  BY DEF FieldRefs
<1>2. c \in Seq(FieldRefs)
  BY WaysAre DEF Chains
<1>3. PICK n \in Nat : n = Len(c)
  BY <1>2
<1>4. PICK d \in Seq(FieldRefs) :
        /\ d = Append(c, f) /\ Len(d) = n + 1 /\ d[n + 1] = f /\ \A i \in 1 .. n : d[i] = c[i]
  <2>1. /\ Append(c, f) \in Seq(FieldRefs) /\ Len(Append(c, f)) = n + 1
        /\ Append(c, f)[n + 1] = f /\ \A i \in 1 .. n : Append(c, f)[i] = c[i]
    BY <1>1, <1>2, <1>3, AppendProperties
  <2> QED BY <2>1
<1>5. d # <<>> /\ Last(d) = f
  <2>1. Len(d) # 0
    BY <1>4
  <2> QED BY <1>4, <2>1 DEF Last
<1>6. d \in Ways
  <2>1. CASE c = <<>>
    <3>1. f \in FieldSet(plan.root) /\ d = <<f>>
      BY <1>4, <2>1 DEF EndOf
    <3>2. InBlock(f, d)
      BY <3>1 DEF InBlock
    <3> QED BY <3>1, <3>2, ChainsInto DEF Ways
  <2>2. CASE c # <<>>
    <3>1. c \in Range(ChainsFrom[plan.root]) /\ EndOf(c) = Last(c).message
      BY <2>2 DEF Ways, EndOf
    <3> QED BY <1>4, <3>1, ChainsExtend DEF Ways
  <2> QED BY <2>1, <2>2
<1>7. EndOf(d) = f.message
  BY <1>5 DEF EndOf
<1> QED BY <1>1, <1>3, <1>4, <1>6, <1>7

FieldNames == {f.json : f \in FieldRefs}
Longer(c, f, d, n) ==
  Len(c) = n /\ Len(d) = n + 1 /\ d[n + 1] = f /\ \A i \in 1 .. n : d[i] = c[i]
SameUpTo(silent, more, n) == \A i \in 1 .. n : i \in silent <=> i \in more

(* What is said of a chain that is longer by a field, silent or not. *)
LEMMA SaidMore ==
  ASSUME NEW c \in Seq(FieldRefs), NEW f \in FieldRefs, NEW n \in Nat,
         NEW d \in Seq(FieldRefs), Longer(c, f, d, n),
         NEW silent, NEW more, SameUpTo(silent, more, n)
  PROVE  /\ Said(c, silent) \in Seq(FieldNames)
         /\ n + 1 \in more => Said(d, more) = Said(c, silent)
         /\ n + 1 \notin more => Said(d, more) = Append(Said(c, silent), f.json)
<1> DEFINE T == FieldNames
           less == [i \in DOMAIN c |-> IF i \in silent THEN <<>> ELSE << c[i].json >>]
           longer == [i \in DOMAIN d |-> IF i \in more THEN <<>> ELSE << d[i].json >>]
<1>1. DOMAIN c = 1 .. n /\ DOMAIN d = 1 .. n + 1 /\ \A i \in 1 .. n : d[i] = c[i]
  BY DEF Longer
<1>2. PICK s \in Nat : s = n + 1 /\ DOMAIN d = 1 .. s /\ d[s] = f
  BY <1>1 DEF Longer
<1>3. (\A i \in 1 .. n : c[i].json \in T) /\ \A i \in 1 .. s : d[i].json \in T
  BY <1>1, <1>2 DEF FieldNames
<1>4. PICK U : U = T
  OBVIOUS
<1> HIDE DEF T
<1>5. less \in Seq(Seq(U)) /\ Len(less) = n
  <2>1. \A i \in 1 .. n : (IF i \in silent THEN <<>> ELSE << c[i].json >>) \in Seq(U)
    BY <1>3, <1>4
  <2>2. less = [i \in 1 .. n |-> IF i \in silent THEN <<>> ELSE << c[i].json >>]
    BY <1>1
  <2> HIDE DEF less
  <2> QED BY <2>1, <2>2
<1>6. longer \in Seq(Seq(U)) /\ Len(longer) = s
  <2>1. \A i \in 1 .. s : (IF i \in more THEN <<>> ELSE << d[i].json >>) \in Seq(U)
    BY <1>3, <1>4
  <2>2. longer = [i \in 1 .. s |-> IF i \in more THEN <<>> ELSE << d[i].json >>]
    BY <1>2
  <2> HIDE DEF longer
  <2> QED BY <2>1, <2>2
<1>7. \A i \in 1 .. n : longer[i] = less[i]
  BY <1>1, <1>2 DEF SameUpTo
<1>8. longer[s] = IF s \in more THEN <<>> ELSE <<f.json>>
  BY <1>2
<1>9. Said(c, silent) = FlattenSeq(less) /\ Said(d, more) = FlattenSeq(longer)
  BY DEF Said
<1> HIDE DEF less, longer
<1>10. FlattenSeq(longer) = FlattenSeq(less) \o longer[s] /\ FlattenSeq(less) \in Seq(U)
  BY <1>2, <1>5, <1>6, <1>7, FlattenLonger
<1>11. PICK said \in Seq(U) : said = Said(c, silent)
  BY <1>9, <1>10
<1>12. f.json \in U
  BY <1>2, <1>3, <1>4
<1>13. said \o <<>> = said /\ said \o <<f.json>> = Append(said, f.json)
  BY <1>12
<1> QED BY <1>2, <1>4, <1>8, <1>9, <1>10, <1>11, <1>13 DEF T

LEMMA SaidMoreOfWay ==
  ASSUME plan.root \in Messages, NEW c \in Ways, EndOf(c) \in Messages,
         NEW f \in FieldSet(EndOf(c)), NEW silent, NEW more,
         \A i \in 1 .. Len(c) : i \in silent <=> i \in more
  PROVE  /\ Said(c, silent) \in Seq(FieldNames)
         /\ Len(c) + 1 \in more => Said(Append(c, f), more) = Said(c, silent)
         /\ Len(c) + 1 \notin more => Said(Append(c, f), more) = Append(Said(c, silent), f.json)
<1>1. PICK n \in Nat : n = Len(c) /\ c \in Seq(FieldRefs)
  BY WaysAre DEF Chains
<1>2. PICK d \in Seq(FieldRefs) :
        /\ d = Append(c, f) /\ Len(d) = n + 1 /\ d[n + 1] = f /\ \A i \in 1 .. n : d[i] = c[i]
  <2>1. PICK e : e = Append(c, f)
    OBVIOUS
  <2>2. /\ e \in Seq(FieldRefs) /\ Len(e) = n + 1 /\ e[n + 1] = f
        /\ \A i \in 1 .. n : e[i] = c[i]
    BY <1>1, <2>1, WaysExtend
  <2> QED BY <2>1, <2>2
<1>3. f \in FieldRefs /\ \A i \in 1 .. n : i \in silent <=> i \in more
  BY <1>1, WaysExtend
<1>4. Longer(c, f, d, n) /\ SameUpTo(silent, more, n)
  BY <1>1, <1>2, <1>3 DEF Longer, SameUpTo
<1>5. /\ Said(c, silent) \in Seq(FieldNames)
      /\ n + 1 \in more => Said(d, more) = Said(c, silent)
      /\ n + 1 \notin more => Said(d, more) = Append(Said(c, silent), f.json)
  BY <1>1, <1>3, <1>4, SaidMore
<1> QED BY <1>1, <1>2, <1>5

LEMMA SaidTyped ==
  ASSUME NEW c \in Chains, NEW silent
  PROVE  Said(c, silent) \in Seq(FieldNames)
<1> DEFINE T == FieldNames
           each == [n \in DOMAIN c |-> IF n \in silent THEN <<>> ELSE << c[n].json >>]
<1>1. PICK n \in Nat : n = Len(c) /\ DOMAIN c = 1 .. n
  BY DEF Chains
<1>2. \A i \in 1 .. n : c[i] \in FieldRefs
  BY <1>1 DEF Chains
<1>3. PICK U : U = T
  OBVIOUS
<1>4. \A i \in 1 .. n : (IF i \in silent THEN <<>> ELSE << c[i].json >>) \in Seq(U)
  BY <1>2, <1>3 DEF FieldNames
<1>5. each \in Seq(Seq(U))
  BY <1>1, <1>4
<1>6. FlattenSeq(each) \in Seq(U)
  BY <1>5, FlattenType
<1> QED BY <1>3, <1>6 DEF Said

(* The names so far, and one more that is the name of the next field. *)
LEMMA SaidOn ==
  ASSUME plan.root \in Messages, NEW c \in Ways, EndOf(c) \in Messages,
         NEW f \in FieldSet(EndOf(c)), NEW names, NEW k \in Nat, SaidBy(c, names, k),
         names[k + 1] = f.json
  PROVE  SaidBy(Append(c, f), names, k + 1)
<1> DEFINE T == FieldNames
<1>1. PICK n \in Nat : n = Len(c)
  BY WaysAre DEF Chains
<1>2. PICK d : d = Append(c, f) /\ Len(d) = n + 1 /\ \A i \in 1 .. n : d[i] = c[i]
  <2>1. PICK e : e = Append(c, f)
    OBVIOUS
  <2>2. Len(e) = n + 1 /\ \A i \in 1 .. n : e[i] = c[i]
    BY <1>1, <2>1, WaysExtend
  <2> QED BY <2>1, <2>2
<1>3. PICK silent \in SUBSET {i \in 1 .. n - 1 : c[i].flatten} :
        /\ Len(Said(c, silent)) = k /\ \A i \in 1 .. k : Said(c, silent)[i] = names[i]
  BY <1>1 DEF SaidBy, NamesFor
<1>4. PICK said \in Seq(T) : said = Said(c, silent)
  BY WaysAre, SaidTyped
<1>5. n + 1 \notin silent
  BY <1>3
<1>6. Said(d, silent) = Append(said, f.json)
  BY <1>1, <1>2, <1>4, <1>5, SaidMoreOfWay
<1>7. f.json \in T
  BY WaysExtend DEF FieldNames
<1> HIDE DEF T
<1>8. /\ Len(Append(said, f.json)) = k + 1 /\ Append(said, f.json)[k + 1] = f.json
      /\ \A i \in 1 .. k : Append(said, f.json)[i] = said[i]
  BY <1>3, <1>4, <1>7, AppendProperties
<1>9. \A i \in 1 .. k + 1 : Append(said, f.json)[i] = names[i]
  <2>1. \A i \in 1 .. k + 1 : i \in 1 .. k \/ i = k + 1
    OBVIOUS
  <2> QED BY <1>3, <1>4, <1>8, <2>1
<1>10. Said(d, silent) \in NamesFor(d)
  <2>1. \A i \in silent : i \in 1 .. n /\ i \in 1 .. Len(d) - 1 /\ d[i].flatten
    BY <1>2, <1>3
  <2> QED BY <2>1 DEF NamesFor
<1> QED BY <1>2, <1>6, <1>8, <1>9, <1>10 DEF SaidBy

(* A flattened field that is not named, and a field of it that is. *)
LEMMA SaidThrough ==
  ASSUME plan.root \in Messages, NEW c \in Ways, EndOf(c) \in Messages,
         NEW g \in FieldSet(EndOf(c)), g.flatten, g.message \in Messages,
         NEW f \in FieldSet(g.message), NEW names, NEW k \in Nat, SaidBy(c, names, k),
         names[k + 1] = f.json
  PROVE  SaidBy(Append(Append(c, g), f), names, k + 1)
<1> DEFINE T == FieldNames
<1>1. PICK n \in Nat : n = Len(c)
  BY WaysAre DEF Chains
<1>2. PICK d \in Ways : /\ d = Append(c, g) /\ EndOf(d) = g.message /\ Len(d) = n + 1
                        /\ d[n + 1] = g /\ \A i \in 1 .. n : d[i] = c[i]
  BY <1>1, WaysExtend
<1>3. PICK s \in Nat : s = n + 1
  OBVIOUS
<1>4. PICK e : /\ e = Append(d, f) /\ Len(e) = s + 1 /\ \A i \in 1 .. s : e[i] = d[i]
  <2>1. PICK a : a = Append(d, f)
    OBVIOUS
  <2>2. EndOf(d) \in Messages /\ f \in FieldSet(EndOf(d)) /\ Len(d) = s
    BY <1>2, <1>3
  <2>3. Len(a) = s + 1 /\ \A i \in 1 .. s : a[i] = d[i]
    BY <2>1, <2>2, WaysExtend
  <2> QED BY <2>1, <2>3
<1>5. PICK silent \in SUBSET {i \in 1 .. n - 1 : c[i].flatten} :
        /\ Len(Said(c, silent)) = k /\ \A i \in 1 .. k : Said(c, silent)[i] = names[i]
  BY <1>1 DEF SaidBy, NamesFor
<1>6. PICK more : more = silent \cup {s}
  OBVIOUS
<1>7. PICK said \in Seq(T) : said = Said(c, silent)
  BY WaysAre, SaidTyped
<1>8. Said(d, more) = said
  <2>1. \A i \in 1 .. n : i \in silent <=> i \in more
    BY <1>3, <1>6
  <2>2. n + 1 \in more
    BY <1>3, <1>6
  <2> QED BY <1>1, <1>2, <1>7, <2>1, <2>2, SaidMoreOfWay
<1>9. Said(e, more) = Append(said, f.json)
  <2>1. s + 1 \notin more
    BY <1>3, <1>5, <1>6
  <2>2. Len(d) = s /\ EndOf(d) \in Messages /\ f \in FieldSet(EndOf(d))
    BY <1>2, <1>3
  <2> QED BY <1>4, <1>8, <2>1, <2>2, SaidMoreOfWay
<1>10. f.json \in T
  BY DEF FieldRefs, FieldNames
<1> HIDE DEF T
<1>11. /\ Len(Append(said, f.json)) = k + 1 /\ Append(said, f.json)[k + 1] = f.json
       /\ \A i \in 1 .. k : Append(said, f.json)[i] = said[i]
  BY <1>5, <1>7, <1>10, AppendProperties
<1>12. \A i \in 1 .. k + 1 : Append(said, f.json)[i] = names[i]
  <2>1. \A i \in 1 .. k + 1 : i \in 1 .. k \/ i = k + 1
    OBVIOUS
  <2> QED BY <1>5, <1>7, <1>11, <2>1
<1>13. Said(e, more) \in NamesFor(e)
  <2>1. ASSUME NEW i \in more PROVE i \in 1 .. Len(e) - 1 /\ e[i].flatten
    <3>1. i \in 1 .. s
      <4>1. silent \subseteq 1 .. n - 1
        BY <1>5
      <4>2. CASE i = s
        BY <1>3, <4>2
      <4>3. CASE i \in silent
        BY <1>3, <4>1, <4>3
      <4> QED BY <1>6, <4>2, <4>3
    <3>2. i \in 1 .. n \/ i = s
      BY <1>3, <3>1
    <3>3. e[i] = d[i] /\ d[i].flatten
      BY <1>2, <1>3, <1>4, <1>5, <1>6, <3>1, <3>2
    <3> QED BY <1>4, <3>1, <3>3
  <2>2. more \in SUBSET {i \in 1 .. Len(e) - 1 : e[i].flatten}
    BY <2>1
  <2> QED BY <2>2 DEF NamesFor
<1> QED BY <1>2, <1>4, <1>9, <1>11, <1>12, <1>13 DEF SaidBy

(* Nodes that follow a chain, and one for the field that is added to it. *)
LEMMA FollowsOn ==
  ASSUME plan.root \in Messages, NEW c \in Ways, EndOf(c) \in Messages,
         NEW f \in FieldSet(EndOf(c)), ~f.map, NoMaps(c),
         NEW nodes \in Seq(Nodes), Follows(nodes, c),
         NEW node \in Nodes, node.field = f, node.oneof = NoOneof
  PROVE  /\ Append(nodes, node) \in Seq(Nodes) /\ Follows(Append(nodes, node), Append(c, f))
         /\ NoMaps(Append(c, f))
<1>1. PICK n \in Nat : n = Len(c) /\ DOMAIN c = 1 .. n
  BY WaysAre DEF Chains
<1>2. PICK d : /\ d = Append(c, f) /\ Len(d) = n + 1 /\ DOMAIN d = 1 .. n + 1
               /\ d[n + 1] = f /\ \A i \in 1 .. n : d[i] = c[i]
  <2>1. /\ Append(c, f) \in Seq(FieldRefs) /\ Len(Append(c, f)) = n + 1
        /\ Append(c, f)[n + 1] = f /\ \A i \in 1 .. n : Append(c, f)[i] = c[i]
    BY <1>1, WaysExtend
  <2>2. PICK e : e = Append(c, f)
    OBVIOUS
  <2>3. /\ e \in Seq(FieldRefs) /\ Len(e) = n + 1 /\ e[n + 1] = f
        /\ \A i \in 1 .. n : e[i] = c[i]
    BY <2>1, <2>2
  <2>4. DOMAIN e = 1 .. n + 1
    BY <2>3
  <2> QED BY <2>2, <2>3, <2>4
<1>3. PICK S : S = Nodes
  OBVIOUS
<1>4. PICK more \in Seq(S) :
        /\ more = Append(nodes, node) /\ Len(more) = n + 1 /\ more[n + 1] = node
        /\ \A i \in 1 .. n : more[i] = nodes[i]
  <2>1. Len(nodes) = n /\ nodes \in Seq(S) /\ node \in S
    BY <1>1, <1>3 DEF Follows
  <2>2. /\ Append(nodes, node) \in Seq(S) /\ Len(Append(nodes, node)) = n + 1
        /\ Append(nodes, node)[n + 1] = node
        /\ \A i \in 1 .. n : Append(nodes, node)[i] = nodes[i]
    BY <2>1, AppendProperties
  <2> QED BY <2>2
<1>5. \A i \in 1 .. n + 1 : i \in 1 .. n \/ i = n + 1
  OBVIOUS
<1>6. Follows(more, d)
  <2>1. \A i \in 1 .. n : nodes[i].field = c[i] /\ nodes[i].oneof = NoOneof
    BY <1>1 DEF Follows
  <2>2. \A i \in 1 .. n + 1 : more[i].field = d[i] /\ more[i].oneof = NoOneof
    BY <1>2, <1>4, <1>5, <2>1
  <2>3. DOMAIN more = 1 .. n + 1
    BY <1>4
  <2> QED BY <1>2, <1>4, <2>2, <2>3 DEF Follows
<1>7. NoMaps(d)
  BY <1>1, <1>2, <1>5 DEF NoMaps
<1> QED BY <1>2, <1>3, <1>4, <1>6, <1>7

(* What findField returns: a field of the message, or one through a        *)
(* flattened field, or nothing.                                            *)
LEMMA FindFieldFinds ==
  ASSUME NEW m \in Messages, NEW json
  PROVE  \/ \E f \in FieldSet(m) : f.json = json /\ FindField(m, json) = <<FieldNode(json, f)>>
         \/ \E g \in FieldSet(m) :
              /\ g.flatten /\ g.message \in Messages
              /\ \E f \in FieldSet(g.message) :
                   /\ f.json = json
                   /\ FindField(m, json) = <<FieldNode(g.name, g), FieldNode(json, f)>>
         \/ FindField(m, json) = <<>>
<1>1. \A a : ByJSONName(a, json) # {} =>
               The(ByJSONName(a, json)) \in FieldSet(a) /\ The(ByJSONName(a, json)).json = json
  BY DEF The, ByJSONName
<1>2. CASE ByJSONName(m, json) # {}
  BY <1>1, <1>2 DEF FindField
<1>3. CASE ByJSONName(m, json) = {} /\ Flattened(m, json) = {}
  BY <1>3 DEF FindField
<1>4. CASE ByJSONName(m, json) = {} /\ Flattened(m, json) # {}
  <2>1. DOMAIN FieldsOf[m] \in SUBSET Nat
    BY FieldsAre
  <2>2. PICK i \in Flattened(m, json) : \A j \in Flattened(m, json) : i <= j
    <3>1. Flattened(m, json) \in SUBSET Nat
      BY <2>1 DEF Flattened
    <3> QED BY <1>4, <3>1, LeastNatural
  <2>3. Min(Flattened(m, json)) \in Flattened(m, json)
    BY <2>2 DEF Min
  <2>4. PICK g : g = FieldsOf[m][Min(Flattened(m, json))]
    OBVIOUS
  <2>5. g \in FieldSet(m) /\ g.flatten /\ ByJSONName(g.message, json) # {}
    BY <2>3, <2>4 DEF Flattened, FieldSet, Range
  <2>6. g.message \in Messages
    BY <2>5, PathsAssumption DEF FieldRefs
  <2>7. PICK f \in FieldSet(g.message) : f = The(ByJSONName(g.message, json)) /\ f.json = json
    BY <1>1, <2>5
  <2>8. FindField(m, json) = <<FieldNode(g.name, g), FieldNode(json, f)>>
    BY <1>4, <2>4, <2>7 DEF FindField
  <2> QED BY <2>5, <2>6, <2>7, <2>8
<1> QED BY <1>2, <1>3, <1>4

LEMMA FollowOnPath ==
  ASSUME NEW m, NEW nodes \in Seq(Nodes), NEW found \in Seq(Nodes), found # <<>>
  PROVE  Follow(OnPath(m, nodes), found)
           = OnPath(found[Len(found)].field.message, nodes \o found)
<1>1. Last(found) = found[Len(found)]
  BY DEF Last
<1>2. Follow(OnPath(m, nodes), found) = [OnPath(m, nodes) EXCEPT !.nodes = @ \o found,
        !.oneof = NoOneof, !.at = found[Len(found)].field.message]
  BY <1>1 DEF Follow
<1> QED BY <1>2 DEF OnPath

LEMMA FieldNodesAre ==
  ASSUME NEW f \in FieldRefs
  PROVE  /\ FieldNode(f.json, f) \in Nodes /\ FieldNode(f.name, f) \in Nodes
         /\ \A name : FieldNode(name, f).field = f /\ FieldNode(name, f).oneof = NoOneof
  BY DEF Nodes, FieldNode

LEMMA WayOn ==
  ASSUME plan.root \in Messages, NEW path, NEW c, NEW names, NEW k \in Nat,
         FieldWay(path, c, names, k)
  PROVE  LET step == JSONStep(path, names[k + 1])
         IN  \/ step = Failed("refused") \/ OneofWay(step, c, names, k + 1)
             \/ \E d : d # <<>> /\ FieldWay(step, d, names, k + 1)
<1> DEFINE json == names[k + 1]
           step == JSONStep(path, json)
<1>1. PICK nodes \in Seq(Nodes) : Follows(nodes, c) /\ path = OnPath(EndOf(c), nodes)
  BY DEF FieldWay
<1>2. c \in Ways /\ NoMaps(c) /\ SaidBy(c, names, k)
  BY DEF FieldWay
<1>3. PICK a \in Messages \cup {NoMessage} : a = EndOf(c)
  BY <1>2, WaysAre
<1>4. path = OnPath(a, nodes) /\ path.at = a /\ path.nodes = nodes
  BY <1>1, <1>3 DEF OnPath
<1>5. NoMessage \notin Messages
  BY PathsAssumption
<1>6. CASE a = NoMessage
  BY <1>4, <1>6 DEF JSONStep, JSONElement
<1>7. CASE a \in Messages
  <2>1. a # NoMessage
    BY <1>5, <1>7
  <2>2. step = JSONElement(path, json, FindField(a, json))
    BY <1>4, <2>1 DEF JSONStep
  <2>3. CASE FindField(a, json) = <<>>
    <3>1. CASE json = "type" /\ json \in OneofsOf(a)
      <4>1. step = FollowOneof(path, "type", NoMessage)
        BY <1>4, <2>1, <2>2, <2>3, <3>1 DEF JSONElement
      <4>2. step.at = NoMessage /\ step.nodes = Append(nodes, OneofNode("type"))
        BY <1>4, <4>1 DEF FollowOneof, OnPath
      <4>3. HasType(EndOf(c))
        BY <1>3, <1>7, <3>1 DEF HasType
      <4>4. (k + 1) - 1 = k
        OBVIOUS
      <4>5. SaidBy(c, names, (k + 1) - 1)
        BY <1>2, <4>4
      <4>6. OneofWay(step, c, names, k + 1)
        <5> HIDE DEF step
        <5> QED BY <1>1, <1>2, <3>1, <4>2, <4>3, <4>5 DEF OneofWay
      <4> QED BY <4>6
    <3>2. CASE ~(json = "type" /\ json \in OneofsOf(a))
      BY <1>4, <2>1, <2>2, <2>3, <3>2 DEF JSONElement
    <3> QED BY <3>1, <3>2
  <2>4. ASSUME NEW f \in FieldSet(a), f.json = json, FindField(a, json) = <<FieldNode(json, f)>>
        PROVE  step = Failed("refused") \/ FieldWay(step, Append(c, f), names, k + 1)
    <3> DEFINE node == FieldNode(json, f)
    <3>1. f \in FieldRefs /\ node \in Nodes /\ node.field = f /\ node.oneof = NoOneof
      BY <1>7, <2>4, FieldNodesAre DEF FieldRefs
    <3> HIDE DEF node
    <3>2. step = JSONElement(path, json, <<node>>)
      BY <2>2, <2>4 DEF node
    <3>3. CASE f.map
      <4>1. <<node>> # <<>> /\ ~(\A i \in DOMAIN <<node>> : ~<<node>>[i].field.map)
        <5>1. 1 \in DOMAIN <<node>> /\ <<node>>[1] = node /\ <<node>> # <<>>
          OBVIOUS
        <5> QED BY <3>1, <3>3, <5>1
      <4> QED BY <3>2, <4>1 DEF JSONElement
    <3>4. CASE ~f.map
      <4>1. <<node>> # <<>> /\ \A i \in DOMAIN <<node>> : ~<<node>>[i].field.map
        BY <3>1, <3>4
      <4>2. step = Follow(path, <<node>>)
        BY <3>2, <4>1 DEF JSONElement
      <4>3. step = OnPath(f.message, nodes \o <<node>>)
        <5>1. <<node>> \in Seq(Nodes) /\ Len(<<node>>) = 1 /\ <<node>>[1] = node
          BY <3>1
        <5> QED BY <1>4, <3>1, <4>1, <4>2, <5>1, FollowOnPath
      <4>4. /\ nodes \o <<node>> = Append(nodes, node)
            /\ Append(nodes, node) \in Seq(Nodes)
            /\ Follows(Append(nodes, node), Append(c, f)) /\ NoMaps(Append(c, f))
        <5>1. nodes \o <<node>> = Append(nodes, node)
          BY <3>1
        <5> QED BY <1>1, <1>2, <1>3, <1>7, <3>1, <3>4, <5>1, FollowsOn
      <4>5. Append(c, f) \in Ways /\ EndOf(Append(c, f)) = f.message
        BY <1>2, <1>3, <1>7, WaysExtend
      <4>6. SaidBy(Append(c, f), names, k + 1)
        BY <1>2, <1>3, <1>7, <2>4, SaidOn
      <4> HIDE DEF step
      <4> QED BY <4>3, <4>4, <4>5, <4>6 DEF FieldWay
    <3> QED BY <3>3, <3>4
  <2>5. ASSUME NEW g \in FieldSet(a), g.flatten, g.message \in Messages,
               NEW f \in FieldSet(g.message), f.json = json,
               FindField(a, json) = <<FieldNode(g.name, g), FieldNode(json, f)>>
        PROVE  \/ step = Failed("refused")
               \/ FieldWay(step, Append(Append(c, g), f), names, k + 1)
    <3> DEFINE outer == FieldNode(g.name, g)
               inner == FieldNode(json, f)
    <3>1. /\ g \in FieldRefs /\ outer \in Nodes /\ outer.field = g /\ outer.oneof = NoOneof
          /\ f \in FieldRefs /\ inner \in Nodes /\ inner.field = f /\ inner.oneof = NoOneof
      BY <1>7, <2>5, FieldNodesAre DEF FieldRefs
    <3> HIDE DEF outer, inner
    <3>2. step = JSONElement(path, json, <<outer, inner>>)
      BY <2>2, <2>5 DEF outer, inner
    <3>3. /\ DOMAIN <<outer, inner>> = {1, 2} /\ <<outer, inner>> # <<>>
          /\ <<outer, inner>>[1] = outer /\ <<outer, inner>>[2] = inner
          /\ <<outer, inner>> \in Seq(Nodes) /\ Len(<<outer, inner>>) = 2
      BY <3>1
    <3>4. CASE g.map \/ f.map
      <4>1. ~(\A i \in DOMAIN <<outer, inner>> : ~<<outer, inner>>[i].field.map)
        BY <3>1, <3>3, <3>4
      <4> QED BY <3>2, <3>3, <4>1 DEF JSONElement
    <3>5. CASE ~g.map /\ ~f.map
      <4>1. \A i \in DOMAIN <<outer, inner>> : ~<<outer, inner>>[i].field.map
        BY <3>1, <3>3, <3>5
      <4>2. step = Follow(path, <<outer, inner>>)
        BY <3>2, <3>3, <4>1 DEF JSONElement
      <4>3. step = OnPath(f.message, nodes \o <<outer, inner>>)
        <5>1. <<outer, inner>>[Len(<<outer, inner>>)].field = f
          BY <3>1, <3>3
        <5> QED BY <1>4, <3>3, <4>2, <5>1, FollowOnPath
      <4>4. nodes \o <<outer, inner>> = Append(Append(nodes, outer), inner)
        BY <3>1
      <4>5. PICK d \in Ways : d = Append(c, g) /\ EndOf(d) = g.message
        BY <1>2, <1>3, <1>7, <2>5, WaysExtend
      <4>6. PICK more \in Seq(Nodes) : more = Append(nodes, outer) /\ Follows(more, d) /\ NoMaps(d)
        BY <1>1, <1>2, <1>3, <1>7, <2>5, <3>1, <3>5, <4>5, FollowsOn
      <4>7. /\ Append(more, inner) \in Seq(Nodes)
            /\ Follows(Append(more, inner), Append(d, f)) /\ NoMaps(Append(d, f))
        BY <2>5, <3>1, <3>5, <4>5, <4>6, FollowsOn
      <4>8. Append(d, f) \in Ways /\ EndOf(Append(d, f)) = f.message
        BY <2>5, <4>5, WaysExtend
      <4>9. SaidBy(Append(Append(c, g), f), names, k + 1)
        BY <1>2, <1>3, <1>7, <2>5, SaidThrough
      <4> HIDE DEF step
      <4> QED BY <4>3, <4>4, <4>5, <4>6, <4>7, <4>8, <4>9 DEF FieldWay
    <3> QED BY <3>4, <3>5
  <2>6. \A f \in FieldSet(a) : Append(c, f) # <<>>
    <3> SUFFICES ASSUME NEW f \in FieldSet(a) PROVE Append(c, f) # <<>>
      OBVIOUS
    <3>1. Len(Append(c, f)) = Len(c) + 1 /\ Len(c) \in Nat
      BY <1>2, <1>3, <1>7, WaysExtend, WaysAre DEF Chains
    <3> QED BY <3>1
  <2>7. \A g, f : Append(Append(c, g), f) # <<>>
    <3>1. c \in Seq(FieldRefs)
      BY <1>2, WaysAre DEF Chains
    <3> QED BY <3>1
  <2> HIDE DEF step
  <2>8. CASE \E f \in FieldSet(a) : f.json = json /\ FindField(a, json) = <<FieldNode(json, f)>>
    <3>1. PICK f \in FieldSet(a) : f.json = json /\ FindField(a, json) = <<FieldNode(json, f)>>
      BY <2>8
    <3>2. step = Failed("refused") \/ FieldWay(step, Append(c, f), names, k + 1)
      BY <2>4, <3>1
    <3> QED BY <2>6, <3>2 DEF step
  <2>9. CASE \E g \in FieldSet(a) :
               /\ g.flatten /\ g.message \in Messages
               /\ \E f \in FieldSet(g.message) :
                    /\ f.json = json
                    /\ FindField(a, json) = <<FieldNode(g.name, g), FieldNode(json, f)>>
    <3>1. PICK g \in FieldSet(a) :
               /\ g.flatten /\ g.message \in Messages
               /\ \E f \in FieldSet(g.message) :
                    /\ f.json = json
                    /\ FindField(a, json) = <<FieldNode(g.name, g), FieldNode(json, f)>>
      BY <2>9
    <3>2. PICK f \in FieldSet(g.message) :
               /\ f.json = json
               /\ FindField(a, json) = <<FieldNode(g.name, g), FieldNode(json, f)>>
      BY <3>1
    <3>3. step = Failed("refused") \/ FieldWay(step, Append(Append(c, g), f), names, k + 1)
      BY <2>5, <3>1, <3>2
    <3> QED BY <2>7, <3>3 DEF step
  <2> QED BY <1>7, <2>3, <2>8, <2>9, FindFieldFinds DEF step
<1> QED BY <1>3, <1>6, <1>7

LEMMA NoWayOn ==
  ASSUME NEW path, NEW json, path.at = NoMessage
  PROVE  JSONStep(path, json) = Failed("refused")
  BY DEF JSONStep, JSONElement

Way(path, names, k) ==
  \/ path = Failed("refused") \/ \E c : OneofWay(path, c, names, k)
  \/ \E c : FieldWay(path, c, names, k) /\ (k # 0 => c # <<>>)

LEMMA WaysOn ==
  ASSUME plan.root \in Messages, NEW path, NEW names, NEW k \in Nat, Way(path, names, k)
  PROVE  Way(JSONStep(path, names[k + 1]), names, k + 1)
<1> DEFINE step == JSONStep(path, names[k + 1])
<1>1. path = Failed("refused") => step = Failed("refused")
  BY StaysRefused
<1>2. ASSUME NEW c, OneofWay(path, c, names, k) PROVE step = Failed("refused")
  BY <1>2, NoWayOn DEF OneofWay
<1>3. ASSUME NEW c, FieldWay(path, c, names, k) PROVE Way(step, names, k + 1)
  <2>1. \/ step = Failed("refused") \/ OneofWay(step, c, names, k + 1)
        \/ \E d : d # <<>> /\ FieldWay(step, d, names, k + 1)
    BY <1>3, WayOn
  <2> HIDE DEF step
  <2> QED BY <2>1 DEF Way
<1>4. Way(step, names, k + 1)
  <2>1. step = Failed("refused") => Way(step, names, k + 1)
    BY DEF Way
  <2> HIDE DEF step
  <2>2. Way(path, names, k)
    OBVIOUS
  <2>3. CASE \E c : OneofWay(path, c, names, k)
    BY <1>2, <2>1, <2>3
  <2>4. CASE \E c : FieldWay(path, c, names, k)
    BY <1>3, <2>4
  <2>5. CASE path = Failed("refused")
    BY <1>1, <2>1, <2>5
  <2> QED BY <2>2, <2>3, <2>4, <2>5 DEF Way
<1> QED BY <1>4

LEMMA PathsGo ==
  ASSUME plan.root \in Messages, NEW S, NEW names \in Seq(S)
  PROVE  Way(NewJSONPath(plan.root, names), names, Len(names))
<1>1. PICK n \in Nat : n = Len(names)
  OBVIOUS
<1>2. PICK at : Folds("path", Start(plan.root), names, at) /\ NewJSONPath(plan.root, names) = at[n]
  BY <1>1, PathFolds
<1>3. \A k \in 1 .. n : at[k] = JSONStep(at[k - 1], names[k])
  BY <1>1, <1>2 DEF Folds, Put
<1>4. Way(at[0], names, 0)
  <2>1. at[0] = Start(plan.root)
    BY <1>2 DEF Folds
  <2>2. at[0] = OnPath(EndOf(<<>>), <<>>)
    BY <2>1 DEF Start, OnPath, EndOf
  <2>3. Follows(<<>>, <<>>) /\ NoMaps(<<>>) /\ <<>> \in Seq(Nodes)
    BY DEF Follows, NoMaps
  <2>4. SaidBy(<<>>, names, 0)
    <3>1. Said(<<>>, {}) = <<>>
      <4>1. [i \in DOMAIN <<>> |-> IF i \in {} THEN <<>> ELSE << <<>>[i].json >>] = <<>>
        OBVIOUS
      <4> QED BY <4>1, FlattenNone DEF Said
    <3>2. <<>> \in NamesFor(<<>>)
      BY <3>1 DEF NamesFor
    <3> QED BY <3>2 DEF SaidBy
  <2>5. FieldWay(at[0], <<>>, names, 0)
    BY <2>2, <2>3, <2>4 DEF FieldWay, Ways
  <2> QED BY <2>5 DEF Way
<1> DEFINE bad == {k \in Nat : k <= n /\ ~Way(at[k], names, k)}
<1>5. bad = {}
  <2>1. SUFFICES ASSUME bad # {} PROVE FALSE
    OBVIOUS
  <2>2. PICK k \in bad : \A j \in bad : k <= j
    <3>1. bad \in SUBSET Nat
      OBVIOUS
    <3> HIDE DEF bad
    <3> QED BY <2>1, <3>1, LeastNatural
  <2>3. k # 0
    BY <1>4, <2>2
  <2>4. PICK h \in Nat : h = k - 1
    BY <2>2, <2>3
  <2>5. h + 1 = k /\ k \in 1 .. n /\ h \notin bad
    BY <2>2, <2>4
  <2>6. Way(at[h], names, h)
    BY <2>5
  <2>7. at[k] = JSONStep(at[h], names[k])
    BY <1>3, <2>4, <2>5
  <2>8. Way(JSONStep(at[h], names[h + 1]), names, h + 1)
    BY <2>6, WaysOn
  <2>9. Way(at[k], names, k)
    BY <2>5, <2>7, <2>8
  <2> QED BY <2>2, <2>9
<1>6. Way(at[n], names, n)
  BY <1>5
<1> QED BY <1>1, <1>2, <1>6

-----------------------------------------------------------------------------
(* Where a path leads: to what is meant by its names. *)
Leads(path, meant) ==
  /\ meant.chain \in Ways /\ NoMaps(meant.chain)
  /\ JSONPathQuery(path.nodes) = ElementsOf(meant.chain)
  /\ LeadsToField(path) <=> ~meant.oneof
  /\ ~meant.oneof => /\ meant.chain \in Range(ChainsFrom[plan.root])
                     /\ Leaf(path).field = Last(meant.chain)

LEMMA FieldWayLeads ==
  ASSUME plan.root \in Messages, NEW path, NEW c, NEW S, NEW names \in Seq(S),
         FieldWay(path, c, names, Len(names)), c # <<>>
  PROVE  \E one \in Named(names) : Leads(path, one)
<1> DEFINE one == [chain |-> c, oneof |-> FALSE]
<1>1. c \in Ways /\ NoMaps(c) /\ SaidBy(c, names, Len(names)) /\ c \in Chains
  BY WaysAre DEF FieldWay
<1>2. PICK nodes \in Seq(Nodes) : Follows(nodes, c) /\ path = OnPath(EndOf(c), nodes)
  BY DEF FieldWay
<1>3. path.nodes = nodes
  BY <1>2 DEF OnPath
<1>4. c \in Range(ChainsFrom[plan.root])
  BY <1>1 DEF Ways
<1>5. PICK n \in Nat : n = Len(c) /\ n = Len(nodes) /\ n \in 1 .. n /\ nodes # <<>>
  <2>1. PICK n \in Nat : n = Len(c) /\ c \in Seq(FieldRefs)
    BY <1>1 DEF Chains
  <2>2. n # 0
    BY <2>1
  <2>3. Len(nodes) = n
    BY <1>2, <2>1 DEF Follows
  <2> QED BY <2>1, <2>2, <2>3
<1>6. Leaf(path).field = Last(c) /\ Leaf(path).oneof = NoOneof
  <2>1. Leaf(path) = nodes[n] /\ Last(c) = c[n]
    BY <1>3, <1>5 DEF Leaf, Last
  <2> QED BY <1>2, <1>5, <2>1 DEF Follows
<1>7. LeadsToField(path)
  BY <1>3, <1>5, <1>6 DEF LeadsToField
<1>8. JSONPathQuery(path.nodes) = ElementsOf(c)
  BY <1>1, <1>2, <1>3, QueryAlong
<1>9. names \in NamesFor(c)
  <2>1. PICK said \in NamesFor(c) :
          Len(said) = Len(names) /\ \A i \in 1 .. Len(names) : said[i] = names[i]
    BY <1>1 DEF SaidBy
  <2>2. said \in Seq(FieldNames)
    BY <1>1, <2>1, SaidTyped DEF NamesFor
  <2>3. said = names
    BY <2>1, <2>2, SeqEqual
  <2> QED BY <2>1, <2>3
<1>10. one \in Named(names)
  BY <1>4, <1>9 DEF Named
<1>11. Leads(path, one)
  BY <1>1, <1>4, <1>6, <1>7, <1>8 DEF Leads
<1> QED BY <1>10, <1>11

LEMMA OneofWayLeads ==
  ASSUME plan.root \in Messages, NEW path, NEW c, NEW S, NEW names \in Seq(S),
         OneofWay(path, c, names, Len(names)), names # <<>>
  PROVE  \E one \in Named(names) : Leads(path, one)
<1> DEFINE one == [chain |-> c, oneof |-> TRUE]
           node == OneofNode("type")
<1>1. c \in Ways /\ NoMaps(c) /\ SaidBy(c, names, Len(names) - 1) /\ c \in Chains
  BY WaysAre DEF OneofWay
<1>2. names[Len(names)] = "type" /\ HasType(EndOf(c))
  BY DEF OneofWay
<1>3. PICK nodes \in Seq(Nodes) : Follows(nodes, c) /\ path.nodes = Append(nodes, node)
  BY DEF OneofWay
<1>4. node.oneof # NoOneof /\ node \in Nodes
  <2>1. "type" # NoOneof
    BY <1>2 DEF HasType, OneofsOf
  <2> QED BY <2>1 DEF OneofNode, Nodes
<1> HIDE DEF node
<1>5. JSONPathQuery(path.nodes) = ElementsOf(c)
  BY <1>1, <1>3, <1>4, QueryPastOneof
<1>6. Leaf(path) = node
  <2>1. PICK more \in Seq(Nodes) : more = Append(nodes, node) /\ Len(more) = Len(nodes) + 1
                                   /\ more[Len(nodes) + 1] = node
    <3>1. /\ Append(nodes, node) \in Seq(Nodes) /\ Len(Append(nodes, node)) = Len(nodes) + 1
          /\ Append(nodes, node)[Len(nodes) + 1] = node
      BY <1>4, AppendProperties
    <3> QED BY <3>1
  <2> QED BY <1>3, <2>1 DEF Leaf, Last
<1>7. ~LeadsToField(path)
  BY <1>4, <1>6 DEF LeadsToField
<1>8. PICK n \in Nat : Len(names) = n + 1
  <2>1. Len(names) # 0 /\ Len(names) \in Nat
    BY EmptySeq
  <2>2. Len(names) - 1 \in Nat /\ Len(names) = (Len(names) - 1) + 1
    BY <2>1
  <2> QED BY <2>2
<1>9. PICK said \in NamesFor(c) : Len(said) = n /\ \A i \in 1 .. n : said[i] = names[i]
  BY <1>1, <1>8 DEF SaidBy
<1>10. names = Append(said, "type")
  <2>1. said \in Seq(FieldNames)
    BY <1>1, <1>9, SaidTyped DEF NamesFor
  <2>2. PICK T : T = FieldNames \cup {"type"}
    OBVIOUS
  <2>3. said \in Seq(T) /\ "type" \in T
    BY <2>1, <2>2
  <2>4. PICK more \in Seq(T) : /\ more = Append(said, "type") /\ Len(more) = n + 1
                               /\ more[n + 1] = "type" /\ \A i \in 1 .. n : more[i] = said[i]
    <3>1. /\ Append(said, "type") \in Seq(T) /\ Len(Append(said, "type")) = n + 1
          /\ Append(said, "type")[n + 1] = "type"
          /\ \A i \in 1 .. n : Append(said, "type")[i] = said[i]
      BY <1>9, <2>3, AppendProperties
    <3> QED BY <3>1
  <2>5. \A i \in 1 .. n + 1 : i \in 1 .. n \/ i = n + 1
    OBVIOUS
  <2>6. \A i \in 1 .. Len(names) : names[i] = more[i]
    BY <1>2, <1>8, <1>9, <2>4, <2>5
  <2>7. names = more
    BY <1>8, <2>4, <2>6, SeqEqual
  <2> QED BY <2>4, <2>7
<1>11. one \in Named(names)
  <2>1. c \in Range(ChainsFrom[plan.root]) \cup {<<>>}
    BY <1>1 DEF Ways
  <2> QED BY <1>2, <1>9, <1>10, <2>1 DEF Named
<1>12. Leads(path, one)
  BY <1>1, <1>5, <1>7 DEF Leads
<1> QED BY <1>11, <1>12

LEMMA PathMeans ==
  ASSUME plan.root \in Messages, NEW S, NEW names \in Seq(S), Clear(names),
         NewJSONPath(plan.root, names).nodes # <<>>
  PROVE  Leads(NewJSONPath(plan.root, names), Meant(names)) /\ Meant(names) \in Named(names)
<1>1. PICK path : path = NewJSONPath(plan.root, names)
  OBVIOUS
<1>2. path.nodes # <<>> /\ Way(path, names, Len(names))
  BY <1>1, PathsGo
<1>3. path # Failed("refused")
  BY <1>2 DEF Failed, Start
<1>4. CASE Len(names) = 0
  <2>1. names = <<>>
    BY <1>4
  <2>2. PICK at : Folds("path", Start(plan.root), names, at) /\ path = at[Len(names)]
    BY <1>1, PathFolds
  <2>3. path = Start(plan.root)
    BY <1>4, <2>2 DEF Folds
  <2> QED BY <1>2, <2>3 DEF Start
<1>5. CASE Len(names) # 0
  <2>1. names # <<>>
    BY <1>5
  <2>2. \E one \in Named(names) : Leads(path, one)
    BY <1>2, <1>3, <1>5, <2>1, FieldWayLeads, OneofWayLeads DEF Way
  <2>3. PICK one \in Named(names) : Leads(path, one)
    BY <2>2
  <2>4. Meant(names) \in Named(names)
    BY <2>3 DEF Meant
  <2>5. Meant(names) = one
    BY <2>3, <2>4 DEF Clear
  <2> QED BY <1>1, <2>3, <2>5
<1> QED BY <1>4, <1>5

-----------------------------------------------------------------------------
(***************************************************************************)
(* A filter on a field holds for the rows that are meant by it.            *)
(***************************************************************************)
LEMMA FilterMet ==
  ASSUME plan \in Plans, NEW row \in plan.states, NEW f \in FilterTrees, f.is = "field",
         ComparableField(f), NewJSONPath(plan.root, f.field).nodes # <<>>, ~Unbounded(f)
  PROVE  Meets(NewJSONPath(plan.root, f.field), row.data, f) <=> row \in FilterMeans(f)
<1>1. PICK path : path = NewJSONPath(plan.root, f.field)
  OBVIOUS
<1>2. PICK meant : meant = Meant(f.field)
  OBVIOUS
<1>3. Leads(path, meant)
  <2>1. plan.root \in Messages
    BY PlansAssumption
  <2>2. PICK S : f.field \in Seq(S)
    BY FilterTreesAssumption
  <2>3. Clear(f.field)
    BY DEF ComparableField
  <2> QED BY <1>1, <1>2, <2>1, <2>2, <2>3, PathMeans
<1>4. PICK chain \in Chains : chain = meant.chain /\ NoMaps(chain)
  <2>1. plan.root \in Messages
    BY PlansAssumption
  <2> QED BY <1>3, <2>1, WaysAre DEF Leads
<1> FilterMeans(f) = RowsOf(f, meant) /\ ComparableTo(f, meant)
  BY <1>2 DEF FilterMeans, ComparableField
<1>5. PICK values : /\ values = JSONSelect(row.data, JSONPathQuery(path.nodes))
                    /\ values = ValuesOf(row.data, chain)
  BY <1>3, <1>4, SelectsValues DEF Leads
<1>6. CASE meant.oneof
  <2>1. ~LeadsToField(path)
    BY <1>3, <1>6 DEF Leads
  <2>2. Meets(path, row.data, f) <=> \E v \in values : f.value \in DOMAIN v
    BY <1>5, <2>1 DEF Meets
  <2>3. FilterMeans(f) = {r \in plan.states : \E v \in ValuesOf(r.data, chain) : f.value \in DOMAIN v}
    BY <1>4, <1>6 DEF RowsOf, RowsWith
  <2> QED BY <1>1, <1>5, <2>2, <2>3
<1>7. CASE ~meant.oneof
  <2> DEFINE kind == Last(chain).kind
             asked == IF kind = "enum" THEN EnumName[f.value] ELSE f.value
             InRange(v) == /\ f.min # "" => Rank[f.min] <= Rank[v.text]
                           /\ f.max # "" => Rank[v.text] <= Rank[f.max]
  <2>1. /\ LeadsToField(path) /\ chain \in Range(ChainsFrom[plan.root])
        /\ Leaf(path).field = Last(chain)
    BY <1>3, <1>4, <1>7 DEF Leads
  <2>2. kind \notin {"message", "float", "int32", "bool"}
    BY <1>4, <1>7 DEF ComparableTo
  <2>3. \A v \in values : v = Scalar("string", v.text)
    <3>1. StoredAs(kind) = "string"
      BY <2>2 DEF StoredAs
    <3> QED BY <1>4, <1>5, <2>1, <2>2, <3>1, RowsAssumption
  <2>4. \A v \in values : IsString(v)
    BY <2>3 DEF IsString, Scalar
  <2>5. \A v \in values : v = Scalar("string", asked) <=> v.text = asked
    <3> HIDE DEF asked
    <3>1. Scalar("string", asked).text = asked
      BY DEF Scalar
    <3> QED BY <2>3, <3>1
  <2>6. CASE f.type = "value"
    <3>1. Meets(path, row.data, f) <=> \E v \in values : v = Scalar("string", asked)
      BY <1>5, <2>1, <2>6 DEF Meets
    <3>2. FilterMeans(f) = {r \in plan.states : \E v \in ValuesOf(r.data, chain) : v.text = asked}
      BY <1>4, <1>7, <2>6 DEF RowsOf, RowsWith
    <3> HIDE DEF asked
    <3> QED BY <1>1, <1>5, <2>5, <3>1, <3>2
  <2>7. CASE f.type # "value"
    <3>1. Meets(path, row.data, f) <=> \E v \in values : IsString(v) /\ InRange(v)
      BY <1>5, <2>1, <2>7 DEF Meets
    <3>2. FilterMeans(f) = {r \in plan.states : \E v \in ValuesOf(r.data, chain) : InRange(v)}
      BY <1>4, <1>7, <2>7 DEF RowsOf, RowsWith
    <3> HIDE DEF InRange
    <3> QED BY <1>1, <1>5, <2>4, <3>1, <3>2
  <2> QED BY <2>6, <2>7
<1> QED BY <1>6, <1>7

(* A range without bounds means every row. *)
LEMMA UnboundedMeansAll ==
  ASSUME plan \in Plans, NEW f \in FilterTrees, f.is = "field", Unbounded(f),
         ComparableField(f), NewJSONPath(plan.root, f.field).nodes # <<>>,
         LeadsToField(NewJSONPath(plan.root, f.field)) \/ f.type = "value"
  PROVE  FilterMeans(f) = plan.states
<1>1. PICK path : path = NewJSONPath(plan.root, f.field)
  OBVIOUS
<1>2. f.type = "range"
  BY DEF Unbounded
<1>3. PICK meant : meant = Meant(f.field)
  OBVIOUS
<1>4. Leads(path, meant)
  <2>1. plan.root \in Messages
    BY PlansAssumption
  <2>2. PICK S : f.field \in Seq(S)
    BY FilterTreesAssumption
  <2>3. Clear(f.field)
    BY DEF ComparableField
  <2> QED BY <1>1, <1>3, <2>1, <2>2, <2>3, PathMeans
<1>5. ~meant.oneof
  BY <1>1, <1>2, <1>4 DEF Leads
<1>6. FilterMeans(f) = RowsOf(f, meant)
  BY <1>3 DEF FilterMeans
<1> QED BY <1>2, <1>5, <1>6 DEF RowsOf

-----------------------------------------------------------------------------
(* The recursions over filters, unfolded. *)
LEMMA FilterRecursion ==
  ASSUME NEW of, ~OverMessages(of)
  PROVE  \E values : values = [f \in FilterTrees |-> Step(of, values, f)]
<1>1. Elements(of) = FilterTrees
  BY DEF Elements
<1>2. \E values : Recursion(of, values, FilterTrees)
  BY <1>1, WholeRecursion
<1> QED BY <1>2 DEF Recursion

LEMMA BuildsUnfold ==
  ASSUME NEW m
  PROVE  \E builds :
           /\ builds = [f \in FilterTrees |-> Built(builds, m, f)]
           /\ \A filters : Buildable(m, filters) <=> \A i \in DOMAIN filters : builds[filters[i]]
<1> DEFINE chosen == CHOOSE builds : builds = [f \in FilterTrees |-> Built(builds, m, f)]
<1>1. \E builds : builds = [f \in FilterTrees |-> Built(builds, m, f)]
  <2>1. Building(m).is = "builds" /\ Building(m).root = m /\ ~OverMessages(Building(m))
    BY DEF Building, OverMessages
  <2>2. PICK builds : builds = [f \in FilterTrees |-> Step(Building(m), builds, f)]
    BY <2>1, FilterRecursion
  <2>3. \A f \in FilterTrees : Step(Building(m), builds, f) = Built(builds, m, f)
    BY <2>1 DEF Step
  <2> QED BY <2>2, <2>3
<1>2. chosen = [f \in FilterTrees |-> Built(chosen, m, f)]
  BY <1>1
<1>3. \A filters : Buildable(m, filters) <=> \A i \in DOMAIN filters : chosen[filters[i]]
  BY DEF Buildable, Built
<1> HIDE DEF chosen
<1> QED BY <1>2, <1>3

LEMMA SilentUnfold ==
  ASSUME NEW f \in FilterTrees
  PROVE  SaysNothing(f) = IF f.is = "field" THEN Unbounded(f)
                          ELSE \A i \in DOMAIN f.filters : SaysNothing(f.filters[i])
<1> DEFINE chosen == CHOOSE silent : silent = [g \in FilterTrees |-> Silenced(silent, g)]
<1>1. \E silent : silent = [g \in FilterTrees |-> Silenced(silent, g)]
  <2>1. Silencing.is = "silent" /\ ~OverMessages(Silencing)
    BY DEF Silencing, OverMessages
  <2>2. PICK silent : silent = [g \in FilterTrees |-> Step(Silencing, silent, g)]
    BY <2>1, FilterRecursion
  <2>3. \A g \in FilterTrees : Step(Silencing, silent, g) = Silenced(silent, g)
    BY <2>1 DEF Step
  <2> QED BY <2>2, <2>3
<1>2. chosen = [g \in FilterTrees |-> Silenced(chosen, g)]
  BY <1>1
<1>3. \A filter : SaysNothing(filter) = chosen[filter]
  BY DEF SaysNothing, Silenced
<1> HIDE DEF chosen
<1>4. chosen[f] = Silenced(chosen, f)
  BY <1>2
<1>5. SaysNothing(f) = Silenced(chosen, f)
  BY <1>3, <1>4
<1>6. CASE f.is = "field"
  BY <1>5, <1>6 DEF Silenced
<1>7. CASE f.is # "field"
  BY <1>3, <1>5, <1>7 DEF Silenced
<1> QED BY <1>6, <1>7

LEMMA HoldsUnfold ==
  ASSUME NEW m, NEW row
  PROVE  \E holds :
           /\ holds = [f \in FilterTrees |-> Held(holds, m, row, f)]
           /\ \A filter : Satisfies(m, row, filter) = holds[filter]
<1> DEFINE chosen == CHOOSE holds : holds = [f \in FilterTrees |-> Held(holds, m, row, f)]
<1>1. \E holds : holds = [f \in FilterTrees |-> Held(holds, m, row, f)]
  <2>1. /\ Holding(m, row).is = "holds" /\ Holding(m, row).root = m /\ Holding(m, row).row = row
        /\ ~OverMessages(Holding(m, row))
    BY DEF Holding, OverMessages
  <2>2. PICK holds : holds = [f \in FilterTrees |-> Step(Holding(m, row), holds, f)]
    BY <2>1, FilterRecursion
  <2>3. \A f \in FilterTrees : Step(Holding(m, row), holds, f) = Held(holds, m, row, f)
    BY <2>1 DEF Step
  <2> QED BY <2>2, <2>3
<1>2. chosen = [f \in FilterTrees |-> Held(chosen, m, row, f)]
  BY <1>1
<1>3. \A filter : Satisfies(m, row, filter) = chosen[filter]
  BY DEF Satisfies, Held
<1> HIDE DEF chosen
<1> QED BY <1>2, <1>3

LEMMA MeansUnfold ==
  \E rows : /\ rows = [f \in FilterTrees |-> MeaningOf(rows, f)]
            /\ \A filter : Means(filter) = rows[filter]
<1> DEFINE chosen == CHOOSE rows : rows = [f \in FilterTrees |-> MeaningOf(rows, f)]
<1>1. \E rows : rows = [f \in FilterTrees |-> MeaningOf(rows, f)]
  <2>1. Meaning.is = "rows" /\ ~OverMessages(Meaning)
    BY DEF Meaning, OverMessages
  <2>2. PICK rows : rows = [f \in FilterTrees |-> Step(Meaning, rows, f)]
    BY <2>1, FilterRecursion
  <2>3. \A f \in FilterTrees : Step(Meaning, rows, f) = MeaningOf(rows, f)
    BY <2>1 DEF Step
  <2> QED BY <2>2, <2>3
<1>2. chosen = [f \in FilterTrees |-> MeaningOf(chosen, f)]
  BY <1>1
<1>3. \A filter : Means(filter) = chosen[filter]
  BY DEF Means, MeaningOf
<1> HIDE DEF chosen
<1> QED BY <1>2, <1>3

LEMMA ComparableUnfold ==
  \E compares : /\ compares = [f \in FilterTrees |-> ComparableOf(compares, f)]
                /\ \A filter : Comparable(filter) = compares[filter]
<1> DEFINE chosen == CHOOSE compares : compares = [f \in FilterTrees |-> ComparableOf(compares, f)]
<1>1. \E compares : compares = [f \in FilterTrees |-> ComparableOf(compares, f)]
  <2>1. Comparing.is = "compares" /\ ~OverMessages(Comparing)
    BY DEF Comparing, OverMessages
  <2>2. PICK compares : compares = [f \in FilterTrees |-> Step(Comparing, compares, f)]
    BY <2>1, FilterRecursion
  <2>3. \A f \in FilterTrees : Step(Comparing, compares, f) = ComparableOf(compares, f)
    BY <2>1 DEF Step
  <2> QED BY <2>2, <2>3
<1>2. chosen = [f \in FilterTrees |-> ComparableOf(chosen, f)]
  BY <1>1
<1>3. \A filter : Comparable(filter) = chosen[filter]
  BY DEF Comparable, ComparableOf
<1> HIDE DEF chosen
<1> QED BY <1>2, <1>3

(* A filter that is built and that can be compared holds for what it means. *)
LEMMA FiltersHold ==
  ASSUME plan \in Plans, NEW filters \in Seq(FilterTrees), Buildable(plan.root, filters),
         NEW row \in plan.states, NEW i \in DOMAIN filters, Comparable(filters[i])
  PROVE  Satisfies(plan.root, row.data, filters[i]) <=> row \in Means(filters[i])
<1>1. PICK builds :
        /\ builds = [f \in FilterTrees |-> Built(builds, plan.root, f)]
        /\ \A fs : Buildable(plan.root, fs) <=> \A j \in DOMAIN fs : builds[fs[j]]
  BY BuildsUnfold
<1>2. PICK holds : /\ holds = [f \in FilterTrees |-> Held(holds, plan.root, row.data, f)]
                   /\ \A f : Satisfies(plan.root, row.data, f) = holds[f]
  BY HoldsUnfold
<1>3. PICK rows : /\ rows = [f \in FilterTrees |-> MeaningOf(rows, f)]
                  /\ \A f : Means(f) = rows[f]
  BY MeansUnfold
<1>4. PICK compares : /\ compares = [f \in FilterTrees |-> ComparableOf(compares, f)]
                      /\ \A f : Comparable(f) = compares[f]
  BY ComparableUnfold
<1> DEFINE Agree(f) == /\ builds[f] /\ compares[f] => (holds[f] <=> row \in rows[f])
                       /\ builds[f] /\ compares[f] /\ SaysNothing(f) => row \in rows[f]
           bad == {d \in Nat : \E f \in FilterTrees : FilterDepth[f] = d /\ ~Agree(f)}
<1>5. \A f \in FilterTrees : FilterDepth[f] \in Nat
  BY FilterTreesAssumption
<1>6. bad = {}
  <2>1. SUFFICES ASSUME bad # {} PROVE FALSE
    OBVIOUS
  <2>2. PICK d \in bad : \A e \in bad : d <= e
    <3>1. bad \in SUBSET Nat
      OBVIOUS
    <3> HIDE DEF bad
    <3> QED BY <2>1, <3>1, LeastNatural
  <2>3. PICK f \in FilterTrees : FilterDepth[f] = d /\ ~Agree(f)
    BY <2>2
  <2>4. /\ builds[f] = Built(builds, plan.root, f)
        /\ holds[f] = Held(holds, plan.root, row.data, f)
        /\ rows[f] = MeaningOf(rows, f) /\ compares[f] = ComparableOf(compares, f)
    BY <1>1, <1>2, <1>3, <1>4
  <2>5. CASE f.is = "field"
    <3>1. ASSUME builds[f], compares[f]
          PROVE  (holds[f] <=> row \in rows[f]) /\ (SaysNothing(f) => row \in rows[f])
      <4>1. /\ NewJSONPath(plan.root, f.field).nodes # <<>>
            /\ LeadsToField(NewJSONPath(plan.root, f.field)) \/ f.type = "value"
        BY <2>4, <2>5, <3>1 DEF Built
      <4>2. ComparableField(f)
        BY <2>4, <2>5, <3>1 DEF ComparableOf
      <4>3. rows[f] = FilterMeans(f)
        BY <2>4, <2>5 DEF MeaningOf
      <4>4. SaysNothing(f) = Unbounded(f)
        BY <2>5, SilentUnfold
      <4>5. CASE Unbounded(f)
        <5>1. rows[f] = plan.states
          BY <2>5, <4>1, <4>2, <4>3, <4>5, UnboundedMeansAll
        <5>2. holds[f]
          BY <2>4, <4>4, <4>5 DEF Held
        <5> QED BY <5>1, <5>2
      <4>6. CASE ~Unbounded(f)
        <5>1. holds[f] <=> Meets(NewJSONPath(plan.root, f.field), row.data, f)
          <6>1. Held(holds, plan.root, row.data, f)
                  <=> Meets(NewJSONPath(plan.root, f.field), row.data, f)
            BY <2>5, <4>4, <4>6, Zenon DEF Held
          <6>2. holds[f] = Held(holds, plan.root, row.data, f)
            BY <2>4
          <6> QED BY <6>1, <6>2, Zenon
        <5>2. Meets(NewJSONPath(plan.root, f.field), row.data, f) <=> row \in FilterMeans(f)
          BY <2>5, <4>1, <4>2, <4>6, FilterMet
        <5> QED BY <4>3, <4>4, <4>6, <5>1, <5>2
      <4> QED BY <4>5, <4>6
    <3> QED BY <2>3, <3>1
  <2>6. CASE f.is # "field"
    <3>1. f.is \in {"and", "or"}
      BY <2>6, FilterTreesAssumption
    <3>2. ASSUME NEW j \in DOMAIN f.filters PROVE Agree(f.filters[j])
      <4>1. f.filters[j] \in FilterTrees /\ FilterDepth[f.filters[j]] < FilterDepth[f]
        BY <2>6, FilterParts
      <4>2. PICK e \in Nat : e = FilterDepth[f.filters[j]] /\ e < d
        BY <1>5, <2>3, <4>1
      <4>3. e \notin bad
        BY <2>2, <4>2
      <4> QED BY <4>1, <4>2, <4>3
    <3>3. ASSUME builds[f], compares[f]
          PROVE  (holds[f] <=> row \in rows[f]) /\ (SaysNothing(f) => row \in rows[f])
      <4>1. \A j \in DOMAIN f.filters : builds[f.filters[j]] /\ compares[f.filters[j]]
        BY <2>4, <2>6, <3>3 DEF Built, ComparableOf
      <4>2. \A j \in DOMAIN f.filters :
              /\ holds[f.filters[j]] <=> row \in rows[f.filters[j]]
              /\ SaysNothing(f.filters[j]) => row \in rows[f.filters[j]]
        <5>1. ASSUME NEW j \in DOMAIN f.filters
              PROVE  /\ holds[f.filters[j]] <=> row \in rows[f.filters[j]]
                     /\ SaysNothing(f.filters[j]) => row \in rows[f.filters[j]]
          <6>1. Agree(f.filters[j])
            BY <3>2
          <6>2. builds[f.filters[j]] /\ compares[f.filters[j]]
            BY <4>1
          <6> QED BY <6>1, <6>2
        <5> QED BY <5>1
      <4> SaysNothing(f) = \A j \in DOMAIN f.filters : SaysNothing(f.filters[j])
        BY <2>6, SilentUnfold
      <4>3. PICK within : within = {rows[g] : g \in Range(f.filters)}
        OBVIOUS
      <4>4. /\ \A j \in DOMAIN f.filters : rows[f.filters[j]] \in within
            /\ \A some \in within : \E j \in DOMAIN f.filters : some = rows[f.filters[j]]
        BY <4>3 DEF Range
      <4>5. CASE f.is = "and"
        <5>1. holds[f] <=> SaysNothing(f) \/ \A j \in DOMAIN f.filters : holds[f.filters[j]]
          BY <2>4, <4>5 DEF Held
        <5>2. rows[f] = {r \in plan.states : \A some \in within : r \in some}
          BY <2>4, <4>3, <4>5 DEF MeaningOf
        <5> QED BY <4>2, <4>4, <5>1, <5>2
      <4>6. CASE f.is = "or"
        <5>1. /\ f.filters # <<>>
              /\ \A j \in DOMAIN f.filters : ~SaysNothing(f.filters[j])
          BY <2>4, <3>3, <4>6 DEF ComparableOf
        <5>2. 1 \in DOMAIN f.filters
          <6>1. f.filters \in Seq(FilterTrees)
            BY <2>6, FilterTreesAssumption
          <6> QED BY <5>1, <6>1, EmptySeq
        <5>3. ~SaysNothing(f)
          BY <5>1, <5>2
        <5>4. holds[f] <=> \E j \in DOMAIN f.filters : holds[f.filters[j]]
          BY <2>4, <4>6, <5>1, <5>3 DEF Held
        <5>5. rows[f] = UNION within
          BY <2>4, <4>3, <4>6 DEF MeaningOf
        <5> QED BY <4>2, <4>4, <5>3, <5>4, <5>5
      <4> QED BY <3>1, <4>5, <4>6
    <3> QED BY <2>3, <3>3
  <2> QED BY <2>5, <2>6
<1>7. filters[i] \in FilterTrees
  OBVIOUS
<1>8. Agree(filters[i])
  BY <1>5, <1>6, <1>7
<1>9. builds[filters[i]] /\ compares[filters[i]]
  BY <1>1, <1>4
<1>10. holds[filters[i]] <=> row \in rows[filters[i]]
  BY <1>8, <1>9
<1>11. /\ Satisfies(plan.root, row.data, filters[i]) = holds[filters[i]]
       /\ Means(filters[i]) = rows[filters[i]]
  BY <1>2, <1>3
<1> QED BY <1>10, <1>11, Zenon

-----------------------------------------------------------------------------
(***************************************************************************)
(* A search looks in the column of the field it means.                     *)
(***************************************************************************)
(* The names of a chain are those of no other chain from the same message. *)
LEMMA NamesTell ==
  ASSUME NEW m \in Messages, NEW c \in Range(ChainsFrom[m]), NEW d \in Range(ChainsFrom[m]),
         Names(c) = Names(d)
  PROVE  c = d
<1>1. PICK n \in Nat : n = Len(c) /\ DOMAIN c = 1 .. n /\ c \in Seq(FieldRefs) /\ c # <<>>
  BY ChainsFilled DEF Chains
<1>2. DOMAIN d = 1 .. n /\ d \in Seq(FieldRefs) /\ \A i \in 1 .. n : c[i].name = d[i].name
  <2>1. d \in Seq(FieldRefs)
    BY ChainsFilled DEF Chains
  <2>2. DOMAIN Names(c) = 1 .. n /\ DOMAIN Names(d) = DOMAIN d
    BY <1>1 DEF Names
  <2>3. DOMAIN d = 1 .. n
    BY <2>2
  <2>4. ASSUME NEW i \in 1 .. n PROVE c[i].name = d[i].name
    <3>1. Names(c)[i] = c[i].name /\ Names(d)[i] = d[i].name
      BY <1>1, <2>3 DEF Names
    <3> QED BY <3>1
  <2> QED BY <2>1, <2>3, <2>4
<1>3. Len(d) = n
  <2>1. PICK k \in Nat : k = Len(d) /\ DOMAIN d = 1 .. k
    BY <1>2
  <2>2. 1 .. k = 1 .. n
    BY <1>2, <2>1
  <2> QED BY <2>1, <2>2
<1>4. Linked(m, c) /\ Linked(m, d)
  BY ChainsLinked
<1>5. ASSUME NEW a \in Messages, NEW f \in FieldSet(a), NEW g \in FieldSet(a), f.name = g.name
      PROVE  f = g
  <2>1. \A h \in FieldSet(a) : \E i \in DOMAIN FieldsOf[a] : h = FieldsOf[a][i]
    BY DEF FieldSet, Range
  <2>2. PICK i \in DOMAIN FieldsOf[a] : f = FieldsOf[a][i]
    BY <2>1
  <2>3. PICK j \in DOMAIN FieldsOf[a] : g = FieldsOf[a][j]
    BY <2>1
  <2>4. i = j
    BY <1>5, <2>2, <2>3, PathsAssumption
  <2> QED BY <2>2, <2>3, <2>4
<1> DEFINE bad == {k \in Nat : k \in 1 .. n /\ c[k] # d[k]}
<1>6. bad = {}
  <2>1. SUFFICES ASSUME bad # {} PROVE FALSE
    OBVIOUS
  <2>2. PICK k \in bad : \A j \in bad : k <= j
    <3>1. bad \in SUBSET Nat
      OBVIOUS
    <3> HIDE DEF bad
    <3> QED BY <2>1, <3>1, LeastNatural
  <2>3. k \in 1 .. n /\ c[k] # d[k] /\ c[k].name = d[k].name
    BY <1>2, <2>2
  <2>4. CASE k = 1
    <3>1. c[1] \in FieldSet(m) /\ d[1] \in FieldSet(m)
      BY <1>4 DEF Linked
    <3> QED BY <1>5, <2>3, <2>4, <3>1
  <2>5. CASE k # 1
    <3>1. k > 1 /\ k - 1 \in Nat /\ k - 1 \in 1 .. n /\ k - 1 \notin bad
      BY <2>2, <2>3, <2>5
    <3>2. c[k - 1] = d[k - 1]
      BY <3>1
    <3>3. PICK a \in Messages : a = c[k - 1].message
      BY <1>1, <1>4, <2>3, <3>1 DEF Linked
    <3>4. c[k] \in FieldSet(a) /\ d[k] \in FieldSet(a)
      BY <1>1, <1>3, <1>4, <2>3, <3>1, <3>2, <3>3 DEF Linked
    <3> QED BY <1>5, <2>3, <3>4
  <2> QED BY <2>4, <2>5
<1>7. \A i \in 1 .. Len(c) : c[i] = d[i]
  BY <1>1, <1>6
<1> QED BY <1>1, <1>2, <1>3, <1>7, SeqEqual

(* Where no field is flattened, every name is said. *)
LEMMA SaidInSnake ==
  ASSUME NEW c \in Chains, InSnake(c), NEW names \in NamesFor(c)
  PROVE  names = JSONNames(c)
<1>1. PICK n \in Nat : n = Len(c) /\ DOMAIN c = 1 .. n
  BY DEF Chains
<1>2. PICK silent \in SUBSET {i \in 1 .. n - 1 : c[i].flatten} : names = Said(c, silent)
  BY <1>1 DEF NamesFor
<1>3. silent = {}
  <2>1. \A i \in 1 .. n : ~c[i].flatten
    BY <1>1 DEF InSnake
  <2>2. \A i \in 1 .. n - 1 : i \in 1 .. n
    BY <1>1
  <2> QED BY <1>2, <2>1, <2>2
<1>4. PICK T : T = {c[i].json : i \in 1 .. n}
  OBVIOUS
<1>5. JSONNames(c) \in Seq(T) /\ Len(JSONNames(c)) = n
  BY <1>1, <1>4 DEF JSONNames
<1>6. FlattenSeq(Singles(JSONNames(c), n)) = JSONNames(c)
  BY <1>5, FlattenSingles
<1>7. Singles(JSONNames(c), n) = [i \in DOMAIN c |-> IF i \in {} THEN <<>> ELSE << c[i].json >>]
  BY <1>1 DEF Singles, JSONNames
<1> QED BY <1>2, <1>3, <1>6, <1>7 DEF Said

LEMMA SearchMet ==
  ASSUME plan \in Plans, NEW row \in plan.states, NEW search, NEW S, search.field \in Seq(S),
         CheckSearch(NewJSONPath(plan.root, search.field)) = "ok", SearchedAlone(search)
  PROVE  SearchFinds(plan.root, plan.identifier, row.data, search) <=> row \in SearchMeans(search)
<1>1. PICK m \in Messages : m = plan.root
  BY PlansAssumption
<1>2. PICK path : path = NewJSONPath(m, search.field)
  OBVIOUS
<1>3. PICK meant : meant = Meant(search.field)
  OBVIOUS
<1>4. /\ path.nodes # <<>> /\ LeadsToField(path) /\ Ruled(Leaf(path).field)
      /\ Leaf(path).field.kind = "text" /\ Granted(Leaf(path).field.rules.search) = "ok"
  <2>1. CheckSearch(path) = "ok"
    BY <1>1, <1>2
  <2> QED BY <2>1 DEF CheckSearch, LeadsToField
<1>5. Clear(search.field)
  BY DEF SearchedAlone
<1>6. Leads(path, meant) /\ meant \in Named(search.field)
  BY <1>1, <1>2, <1>3, <1>4, <1>5, PathMeans
<1>7. PICK chain \in Chains : /\ chain = meant.chain /\ chain \in Range(ChainsFrom[m])
                              /\ Leaf(path).field = Last(chain) /\ ~meant.oneof /\ chain # <<>>
  <2>1. ~meant.oneof /\ meant.chain \in Range(ChainsFrom[m]) /\ Leaf(path).field = Last(meant.chain)
    BY <1>1, <1>4, <1>6 DEF Leads
  <2> QED BY <2>1, ChainsFilled
<1>8. /\ InSnake(chain)
      /\ \A other \in Range(SearchChains[m]) :
           plan.identifier[Last(other)] = plan.identifier[Last(chain)] => other = chain
  BY <1>1, <1>3, <1>7 DEF SearchedAlone
<1>9. chain \in Range(SearchChains[m])
  <2>1. PICK f \in FieldRefs : f = Last(chain)
    <3>1. Len(chain) \in DOMAIN chain
      BY <1>7, EmptySeq DEF Chains
    <3>2. chain[Len(chain)] \in FieldRefs
      BY <3>1 DEF Chains
    <3> QED BY <3>2 DEF Last
  <2>2. f.rules.search \in {"absent", "off", "on"}
    BY <1>4, <1>7, <2>1, FiltersAssumption DEF Ruled
  <2>3. f.rules.search = "on"
    BY <1>4, <1>7, <2>1, <2>2 DEF Granted
  <2>4. f \in Searchables
    BY <1>4, <1>7, <2>1, <2>3 DEF Searchables, IsSearchable
  <2> QED BY <1>7, <2>1, <2>4, SoughtAre DEF Sought
<1>10. search.field = JSONNames(chain)
  <2>1. search.field \in NamesFor(chain)
    BY <1>6, <1>7 DEF Named
  <2> QED BY <1>8, <2>1, SaidInSnake
<1>11. SearchKey(search) = Names(chain)
  <2>1. /\ DOMAIN search.field = DOMAIN chain
        /\ \A i \in DOMAIN chain : search.field[i] = chain[i].json
    BY <1>10 DEF JSONNames
  <2>2. \A i \in DOMAIN chain : Snake[search.field[i]] = chain[i].name
    BY <1>8, <2>1 DEF InSnake
  <2> QED BY <2>1, <2>2 DEF Names, SearchKey
<1>12. PICK column : column = plan.identifier[Last(chain)]
  OBVIOUS
<1>13. TsvColumns(m, plan.identifier, SearchKey(search)) = {column}
  <2>1. \A d \in Range(SearchChains[m]) : Names(d) = Names(chain) => d = chain
    BY <1>7, SoughtAre, NamesTell DEF Sought
  <2>2. {d \in Range(SearchChains[m]) : Names(d) = SearchKey(search)} = {chain}
    BY <1>9, <1>11, <2>1
  <2> QED BY <1>12, <2>2 DEF TsvColumns
<1>14. ColumnTexts(m, plan.identifier, row.data, column)
         = {v.text : v \in JSONSelect(row.data, ElementsOf(chain))}
  <2>1. PICK chains : chains = SearchChains[m]
    OBVIOUS
  <2>2. PICK ones : ones = {i \in DOMAIN chains : plan.identifier[Last(chains[i])] = column}
    OBVIOUS
  <2>3. DOMAIN chains \in SUBSET Nat
    <3>1. ChainsFrom[m] \in Seq(Chains)
      BY ChainsType
    <3>2. PICK T : Those(ChainsFrom[m], Searchables) \in Seq(T)
      BY <3>1, ThoseAmong
    <3>3. chains \in Seq(T)
      BY <2>1, <3>2 DEF SearchChains
    <3> QED BY <3>3
  <2>4. ones # {} /\ ones \in SUBSET Nat
    <3>1. PICK i \in DOMAIN chains : chains[i] = chain
      BY <1>9, <2>1 DEF Range
    <3> QED BY <1>12, <2>2, <2>3, <3>1
  <2>5. PICK least \in ones : \A j \in ones : least <= j
    BY <2>4, LeastNatural
  <2>6. PICK k : k = Min(ones)
    OBVIOUS
  <2>7. k \in ones
    BY <2>5, <2>6 DEF Min
  <2>8. k \in DOMAIN chains /\ plan.identifier[Last(chains[k])] = column
    BY <2>2, <2>7
  <2>9. chains[k] = chain
    BY <1>8, <1>12, <2>1, <2>8 DEF Range
  <2>10. ColumnTexts(m, plan.identifier, row.data, column)
           = {v.text : v \in JSONSelect(row.data, ElementsOf(chains[k]))}
    BY <2>1, <2>2, <2>6 DEF ColumnTexts
  <2> QED BY <2>9, <2>10
<1>15. JSONSelect(row.data, ElementsOf(chain)) = ValuesOf(row.data, chain)
  BY SelectsValues
<1>16. SearchFinds(m, plan.identifier, row.data, search)
         <=> search.value \in {v.text : v \in ValuesOf(row.data, chain)}
  BY <1>13, <1>14, <1>15 DEF SearchFinds
<1>17. SearchMeans(search) = {r \in plan.states : \E v \in ValuesOf(r.data, chain) :
                                                    v.text = search.value}
  BY <1>3, <1>7 DEF SearchMeans, RowsWith
<1> QED BY <1>1, <1>16, <1>17

-----------------------------------------------------------------------------
(***************************************************************************)
(* The default filters hold for the rows with default values.              *)
(***************************************************************************)
LEMMA DefaultMet ==
  ASSUME plan \in Plans, NEW row \in plan.states, NEW chain \in Range(ChainsFrom[plan.root]),
         Last(chain).kind # "message", StoredAs(Last(chain).kind) = DefaultAs(Last(chain).kind),
         NoMaps(chain), NEW nodes, Follows(nodes, chain)
  PROVE  DefaultHolds(row.data, nodes, Last(chain)) <=> row \in DefaultMeans(chain)
<1>1. plan.root \in Messages /\ chain \in Chains
  BY PlansAssumption, ChainsFilled
<1>2. PICK values : /\ values = JSONSelect(row.data, JSONPathQuery(nodes))
                    /\ values = ValuesOf(row.data, chain)
  BY <1>1, QueryAlong, SelectsValues
<1>3. PICK f : f = Last(chain)
  OBVIOUS
<1>4. PICK is : is = StoredAs(f.kind) /\ is = DefaultAs(f.kind)
  BY <1>3
<1>5. \A v \in values : v = Scalar(is, v.text)
  BY <1>2, <1>3, <1>4, RowsAssumption
<1>6. DefaultHolds(row.data, nodes, f)
        <=> \E i \in DOMAIN DefaultFilters(f) : Scalar(is, DefaultFilters(f)[i]) \in values
  BY <1>2, <1>4 DEF DefaultHolds
<1>7. \A text : Scalar(is, text) \in values <=> \E v \in values : v.text = text
  <2>1. \A text : Scalar(is, text).text = text
    BY DEF Scalar
  <2> QED BY <1>5, <2>1
<1>8. DefaultMeans(chain)
        = {r \in plan.states : \E v \in ValuesOf(r.data, chain) : v.text \in Range(DefaultFilters(f))}
  BY <1>3 DEF DefaultMeans, RowsWith
<1>9. \A text : text \in Range(DefaultFilters(f))
                  <=> \E i \in DOMAIN DefaultFilters(f) : text = DefaultFilters(f)[i]
  BY DEF Range
<1>10. DefaultHolds(row.data, nodes, f)
         <=> \E v \in values : v.text \in Range(DefaultFilters(f))
  BY <1>6, <1>7, <1>9
<1> QED BY <1>2, <1>3, <1>8, <1>10

LEMMA DefaultsMet ==
  ASSUME QueryInv, FoundInv, lister = "ready", DefaultsComparable, NEW row \in plan.states
  PROVE  (\A i \in DOMAIN Kept("filters") :
            DefaultHolds(row.data, KeptNodes(Kept("filters")[i]), Kept("filters")[i].leaf))
         <=> \A chain \in Range(ChainsFrom[plan.root]) :
               HasDefault(Last(chain)) => row \in DefaultMeans(chain)
<1>1. plan \in Plans /\ plan.root \in Messages
  BY PlansAssumption DEF QueryInv, ListerInv
<1>2. ChainsFrom[plan.root] \in Seq(Chains)
  BY <1>1, ChainsType
<1>3. Found("filters") = Those(ChainsFrom[plan.root], Filtering)
  BY FoundAll DEF WalkFindsAll
<1>4. Range(Found("filters")) = {c \in Range(ChainsFrom[plan.root]) : HasDefault(Last(c))}
  <2>1. Range(Found("filters")) = {c \in Range(ChainsFrom[plan.root]) : Last(c) \in Filtering}
    BY <1>2, <1>3, ThoseRange
  <2>2. ASSUME NEW c \in Range(ChainsFrom[plan.root]) PROVE Last(c) \in FieldRefs
    <3>1. c \in Seq(FieldRefs) /\ c # <<>>
      BY <1>1, ChainsFilled DEF Chains
    <3>2. Len(c) \in DOMAIN c
      BY <3>1, EmptySeq
    <3>3. c[Len(c)] \in FieldRefs
      BY <3>1, <3>2
    <3> QED BY <3>3 DEF Last
  <2> QED BY <2>1, <2>2 DEF Filtering
<1>5. /\ DOMAIN Found("filters") = DOMAIN Kept("filters")
      /\ \A i \in DOMAIN Kept("filters") : Found("filters")[i] = Kept("filters")[i].chain
  BY DEF Found
<1>6. ASSUME NEW i \in DOMAIN Kept("filters")
      PROVE  /\ Kept("filters")[i].chain \in Range(Found("filters"))
             /\ DefaultHolds(row.data, KeptNodes(Kept("filters")[i]), Kept("filters")[i].leaf)
                  <=> row \in DefaultMeans(Kept("filters")[i].chain)
  <2>1. PICK cell : cell = Kept("filters")[i]
    OBVIOUS
  <2>2. PICK chain : chain = cell.chain /\ chain \in Range(Found("filters"))
    BY <1>5, <2>1 DEF Range
  <2>3. /\ chain \in Range(ChainsFrom[plan.root]) /\ Last(chain).kind # "message"
        /\ StoredAs(Last(chain).kind) = DefaultAs(Last(chain).kind)
        /\ NoMaps(chain) /\ Len(chain) \in {1, 2, 3, 5}
    BY <1>4, <2>2 DEF DefaultsComparable
  <2>4. IsHeap(memory) /\ KeptOK(memory, cell)
    <3>1. IsHeap(memory) /\ KeptInv(memory, kept) /\ "filters" \in Lists
      BY DEF QueryInv, WalkInv, Lists
    <3>2. Sound(memory, kept["filters"])
      BY <3>1 DEF KeptInv
    <3>3. /\ DOMAIN Kept("filters") = 1 .. kept["filters"].len
          /\ \A j \in 1 .. kept["filters"].len :
               Kept("filters")[j] = memory[kept["filters"].array][j]
      BY <3>1, <3>2, CellsOf DEF Kept
    <3> QED BY <2>1, <3>1, <3>3 DEF KeptInv
  <2>5. cell.leaf = Last(chain)
    BY <2>2, <2>4 DEF KeptOK
  <2>6. PICK nodes : nodes = KeptNodes(cell)
    OBVIOUS
  <2>7. nodes = [n \in DOMAIN chain |-> FieldNode(chain[n].name, chain[n])]
    <3>1. Ordering(cell) = [column |-> FALSE,
                            nodes |-> [n \in DOMAIN chain |-> FieldNode(chain[n].name, chain[n])]]
      BY <2>2, <2>3, <2>4, KeptOrders
    <3>2. "nodes" \notin DOMAIN cell
      BY <2>4 DEF KeptOK, KeptCells
    <3>3. Ordering(cell) = [column |-> FALSE, nodes |-> nodes]
      BY <2>6, <3>2 DEF Ordering
    <3> QED BY <3>1, <3>3
  <2>8. Follows(nodes, chain)
    <3>1. PICK n \in Nat : n = Len(chain) /\ DOMAIN chain = 1 .. n
      BY <1>1, <2>3, ChainsFilled DEF Chains
    <3>2. DOMAIN nodes = 1 .. n /\ Len(nodes) = n
      BY <2>7, <3>1
    <3> QED BY <2>7, <3>1, <3>2 DEF Follows, FieldNode
  <2>9. DefaultHolds(row.data, nodes, Last(chain)) <=> row \in DefaultMeans(chain)
    BY <1>1, <2>3, <2>8, DefaultMet
  <2> QED BY <2>1, <2>2, <2>5, <2>6, <2>9
<1>7. ASSUME NEW chain \in Range(ChainsFrom[plan.root]), HasDefault(Last(chain))
      PROVE  \E i \in DOMAIN Kept("filters") : chain = Kept("filters")[i].chain
  BY <1>4, <1>5, <1>7 DEF Range
<1> QED BY <1>4, <1>6, <1>7

-----------------------------------------------------------------------------
(***************************************************************************)
(* What a list answers with.                                               *)
(***************************************************************************)
Accepted(req) ==
  /\ req \in plan.requests /\ req.is = "list" /\ CheckRequest(plan.root, req) = "ok"
  /\ RequestBuilds(plan.root, plan.identifier, req) /\ Understood(req)

(* Every search of a request that is valid is valid. *)
LEMMA EachSearchChecked ==
  ASSUME plan \in Plans, NEW req, Accepted(req), NEW i \in DOMAIN req.searches
  PROVE  CheckSearch(NewJSONPath(plan.root, req.searches[i].field)) = "ok"
<1> DEFINE sorted == CheckEach([j \in DOMAIN req.sorts |->
                       CheckSort(NewJSONPath(plan.root, req.sorts[j].field))])
           checks == [j \in DOMAIN req.searches |->
                       CheckSearch(NewJSONPath(plan.root, req.searches[j].field))]
<1>1. CheckEach(checks) = "ok"
  <2>1. Both(sorted, Both(CheckFilters(plan.root, req.filters), CheckEach(checks))) = "ok"
    BY DEF CheckRequest, Accepted
  <2> HIDE DEF sorted, checks
  <2> QED BY <2>1 DEF Both
<1>2. PICK n \in Nat : DOMAIN req.searches = 1 .. n
  <2>1. req.searches \in Seq(Range(req.searches))
    BY PlansAssumption DEF Accepted
  <2> QED BY <2>1
<1>3. checks \in Seq({checks[j] : j \in 1 .. n}) /\ DOMAIN checks = 1 .. n
  BY <1>2
<1>4. checks[i] = "ok"
  <2> HIDE DEF checks
  <2> QED BY <1>1, <1>2, <1>3, EachChecked
<1> QED BY <1>4

(* The rows selected are those that the request means. *)
LEMMA SelectedMeans ==
  ASSUME QueryInv, FoundInv, lister = "ready", NEW req, Accepted(req)
  PROVE  {row \in Addressed(plan.states, req.where) : Selected(req, row)} = RequestMeans(req)
<1>1. plan \in Plans
  BY DEF QueryInv, ListerInv
<1>2. /\ req.filters \in Seq(FilterTrees) /\ Buildable(plan.root, req.filters)
      /\ req.searches \in Seq(Range(req.searches))
      /\ \A search \in Range(req.searches) : search.field \in Seq(Range(search.field))
  BY <1>1, PlansAssumption DEF Accepted, RequestBuilds
<1> DEFINE bare == req.filters = <<>> /\ req.searches = <<>>
           Filtered(row) == \A i \in DOMAIN req.filters :
                              Satisfies(plan.root, row.data, req.filters[i])
           Searched(row) == \A i \in DOMAIN req.searches :
                              SearchFinds(plan.root, plan.identifier, row.data, req.searches[i])
           Defaulted(row) == \A i \in DOMAIN Kept("filters") :
              DefaultHolds(row.data, KeptNodes(Kept("filters")[i]), Kept("filters")[i].leaf)
           ByDefault(row) == \A chain \in Range(ChainsFrom[plan.root]) :
                               HasDefault(Last(chain)) => row \in DefaultMeans(chain)
<1>3. ASSUME NEW row \in plan.states
      PROVE  Filtered(row) <=> \A f \in Range(req.filters) : row \in Means(f)
  <2>1. ASSUME NEW i \in DOMAIN req.filters
        PROVE  Satisfies(plan.root, row.data, req.filters[i]) <=> row \in Means(req.filters[i])
    <3>1. Comparable(req.filters[i])
      BY DEF Accepted, Understood
    <3> QED BY <1>1, <1>2, <3>1, FiltersHold
  <2> QED BY <2>1 DEF Range
<1>4. ASSUME NEW row \in plan.states
      PROVE  Searched(row) <=> \A search \in Range(req.searches) : row \in SearchMeans(search)
  <2>1. ASSUME NEW i \in DOMAIN req.searches
        PROVE  SearchFinds(plan.root, plan.identifier, row.data, req.searches[i])
                 <=> row \in SearchMeans(req.searches[i])
    <3>1. PICK search : search = req.searches[i]
      OBVIOUS
    <3>2. SearchedAlone(search) /\ search.field \in Seq(Range(search.field))
      BY <1>2, <3>1 DEF Accepted, Understood, Range
    <3>3. CheckSearch(NewJSONPath(plan.root, search.field)) = "ok"
      BY <1>1, <3>1, EachSearchChecked
    <3>4. SearchFinds(plan.root, plan.identifier, row.data, search) <=> row \in SearchMeans(search)
      BY <1>1, <3>2, <3>3, SearchMet
    <3> QED BY <3>1, <3>4
  <2> QED BY <2>1 DEF Range
<1>5. ASSUME NEW row \in plan.states, bare PROVE Defaulted(row) <=> ByDefault(row)
  <2>1. DefaultsComparable
    BY <1>5 DEF Accepted, Understood
  <2> QED BY <2>1, DefaultsMet
<1>6. \A row : Selected(req, row) <=> Filtered(row) /\ Searched(row) /\ (bare => Defaulted(row))
  BY DEF Selected
<1>7. Addressed(plan.states, req.where) \subseteq plan.states
  BY DEF Addressed
<1>8. RequestMeans(req) = {row \in Addressed(plan.states, req.where) :
                             /\ \A f \in Range(req.filters) : row \in Means(f)
                             /\ \A search \in Range(req.searches) : row \in SearchMeans(search)
                             /\ bare => ByDefault(row)}
  BY DEF RequestMeans
<1> HIDE DEF bare, Filtered, Searched, Defaulted, ByDefault
<1> QED BY <1>3, <1>4, <1>5, <1>6, <1>7, <1>8

(* The rows are joined to the auth rows that the claim lets them be seen by. *)
LEMMA JoinedOnce ==
  ASSUME plan \in Plans, NEW chosen \in SUBSET plan.states, NEW results,
         results = UNION {{<<row, auth>> : auth \in Seen(plan.authRows, plan.claim, row)} :
                          row \in chosen}
  PROVE  /\ {r[1] : r \in results} = {row \in chosen : Claimed(row)}
         /\ AuthUnique => Cardinality({r[1] : r \in results}) = Cardinality(results)
<1> DEFINE rows   == {r[1] : r \in results}
           Auths(row) == Seen(plan.authRows, plan.claim, row)
<1>1. \A row \in chosen : Claimed(row) <=> Auths(row) # {}
  BY ClaimedIsSeen
<1>2. \A r : r \in results <=> \E row \in chosen : \E auth \in Auths(row) : r = <<row, auth>>
  OBVIOUS
<1>3. rows = {row \in chosen : Claimed(row)}
  <2>1. ASSUME NEW r \in results PROVE r[1] \in chosen /\ Claimed(r[1])
    <3>1. PICK row \in chosen : \E auth \in Auths(row) : r = <<row, auth>>
      BY <1>2
    <3>2. r[1] = row
      BY <3>1
    <3> QED BY <1>1, <3>1, <3>2
  <2>2. ASSUME NEW row \in chosen, Claimed(row) PROVE \E r \in results : row = r[1]
    <3>1. PICK auth \in Auths(row) : TRUE
      BY <1>1, <2>2
    <3>2. <<row, auth>> \in results /\ <<row, auth>>[1] = row
      BY <1>2, <3>1
    <3> QED BY <3>2
  <2> QED BY <2>1, <2>2
<1>4. ASSUME AuthUnique PROVE Cardinality(rows) = Cardinality(results)
  <2> DEFINE f == [row \in rows |-> <<row, CHOOSE auth \in Auths(row) : TRUE>>]
  <2>1. ASSUME NEW row \in rows PROVE row \in chosen /\ Auths(row) = {CHOOSE auth \in Auths(row) : TRUE}
    <3>1. row \in plan.states /\ row \in chosen /\ Auths(row) # {}
      BY <1>1, <1>3
    <3>2. Cardinality(Auths(row)) = 1
      BY <1>4, <3>1, OneSeen
    <3>3. \A a, b \in Auths(row) : a = b
      <4>1. \A a, b \in AuthJoined(plan.authRows, row) : a = b
        BY <1>4 DEF AuthUnique, AuthJoined
      <4> QED BY <4>1 DEF Seen
    <3> HIDE DEF Auths
    <3> QED BY <3>1, <3>3
  <2>2. \A row \in rows : f[row] \in results /\ f[row][1] = row
    BY <1>2, <2>1
  <2>3. \A r \in results : r[1] \in rows /\ f[r[1]] = r
    <3>1. SUFFICES ASSUME NEW r \in results PROVE r[1] \in rows /\ f[r[1]] = r
      OBVIOUS
    <3>2. PICK row \in chosen : \E auth \in Auths(row) : r = <<row, auth>>
      BY <1>2
    <3>3. PICK auth \in Auths(row) : r = <<row, auth>>
      BY <3>2
    <3>4. row \in rows
      BY <3>3
    <3> HIDE DEF rows, Auths
    <3> QED BY <2>1, <3>3, <3>4
  <2>4. IsFiniteSet(rows)
    <3>1. IsFiniteSet(plan.states) /\ rows \subseteq plan.states
      BY <1>3, TablesAssumption
    <3> QED BY <3>1, FS_Subset
  <2>5. f \in Bijection(rows, results)
    <3> HIDE DEF rows
    <3>1. f \in [rows -> results]
      BY <2>2
    <3>2. \A a, b \in rows : f[a] = f[b] => a = b
      BY <2>2
    <3>3. \A r \in results : \E a \in rows : f[a] = r
      BY <2>3
    <3> HIDE DEF f
    <3> QED BY <3>1, <3>2, <3>3 DEF Bijection, Injection, Surjection, IsInjective
  <2>6. ExistsBijection(rows, results)
    BY <2>5 DEF ExistsBijection
  <2> HIDE DEF rows
  <2> QED BY <2>4, <2>6, FS_Bijection
<1> QED BY <1>3, <1>4

LEMMA ResultsMeant ==
  ASSUME QueryInv, FoundInv, lister = "ready", NEW req, Accepted(req)
  PROVE  AsMeant(req, Results(req))
<1>1. PICK chosen : chosen = {row \in Addressed(plan.states, req.where) : Selected(req, row)}
  OBVIOUS
<1>2. chosen = RequestMeans(req) /\ chosen \subseteq plan.states
  BY <1>1, SelectedMeans DEF Addressed
<1>3. PICK results : results = Results(req)
  OBVIOUS
<1>4. results = UNION {{<<row, auth>> : auth \in Seen(plan.authRows, plan.claim, row)} :
                       row \in chosen}
  BY <1>1, <1>3 DEF Results
<1>5. plan \in Plans
  BY DEF QueryInv, ListerInv
<1>6. /\ {r[1] : r \in results} = {row \in chosen : Claimed(row)}
      /\ AuthUnique => Cardinality({r[1] : r \in results}) = Cardinality(results)
  BY <1>2, <1>4, <1>5, JoinedOnce
<1> QED BY <1>2, <1>3, <1>6 DEF AsMeant

(***************************************************************************)
(* A request that is answered with rows has been found valid and built, by *)
(* a service that was ready.                                               *)
(***************************************************************************)
CallerAnswers(caller) ==
  /\ caller.at \in {"validate", "build", "run"} => lister = "ready"
  /\ caller.at \in {"build", "run"} => CheckRequest(plan.root, caller.request) = "ok"
  /\ caller.at = "run" => RequestBuilds(plan.root, plan.identifier, caller.request)
  /\ caller.answer.is = "rows" /\ Understood(caller.request) =>
       AsMeant(caller.request, caller.answer.results)

AnswersInv == \A c \in Callers : CallerAnswers(callers[c])

(* What a request means depends on what the service was built for alone. *)
LEMMA MeaningStays ==
  ASSUME plan' = plan, NEW req, NEW results
  PROVE  (Understood(req)' <=> Understood(req)) /\ (AsMeant(req, results)' <=> AsMeant(req, results))
<1>1. ASSUME NEW filter PROVE (Comparable(filter)' <=> Comparable(filter)) /\ Means(filter)' = Means(filter)
  <2>1. Comparable(filter)' <=> Comparable(filter)
    BY DEF Comparable, ComparableField, ComparableTo, Clear, Meant, Named, HasType, EndOf
  <2>2. Means(filter)' = Means(filter)
    BY DEF Means, FilterMeans, RowsOf, RowsWith, Meant, Named, HasType, EndOf
  <2> QED BY <2>1, <2>2
<1>2. ASSUME NEW search
      PROVE  (SearchedAlone(search)' <=> SearchedAlone(search))
             /\ SearchMeans(search)' = SearchMeans(search)
  <2>1. SearchedAlone(search)' <=> SearchedAlone(search)
    BY DEF SearchedAlone, Clear, Meant, Named, HasType, EndOf
  <2>2. SearchMeans(search)' = SearchMeans(search)
    BY DEF SearchMeans, RowsWith, Meant, Named, HasType, EndOf
  <2> QED BY <2>1, <2>2
<1>3. /\ DefaultsComparable' <=> DefaultsComparable
      /\ \A chain : DefaultMeans(chain)' = DefaultMeans(chain)
  BY DEF DefaultsComparable, DefaultMeans, RowsWith
<1>4. RequestMeans(req)' = RequestMeans(req)
  BY <1>1, <1>2, <1>3 DEF RequestMeans
<1>5. (AuthUnique' <=> AuthUnique) /\ \A row : Claimed(row)' <=> Claimed(row)
  BY DEF AuthUnique, Claimed
<1>6. Understood(req)' <=> Understood(req)
  BY <1>1, <1>2, <1>3 DEF Understood
<1>7. AsMeant(req, results)' <=> AsMeant(req, results)
  BY <1>4, <1>5 DEF AsMeant
<1> QED BY <1>6, <1>7

LEMMA AnswerStays ==
  ASSUME plan' = plan, lister = "ready" => lister' = "ready", NEW caller, CallerAnswers(caller)
  PROVE  CallerAnswers(caller)'
<1>1. /\ Understood(caller.request)' <=> Understood(caller.request)
      /\ AsMeant(caller.request, caller.answer.results)'
           <=> AsMeant(caller.request, caller.answer.results)
  BY MeaningStays
<1> QED BY <1>1 DEF CallerAnswers

LEMMA OneAnswers ==
  ASSUME QueryInv, AnswersInv, NEW c \in Callers, NEW caller, plan' = plan, lister' = lister,
         callers' = [callers EXCEPT ![c] = caller], CallerAnswers(caller)
  PROVE  AnswersInv'
<1>1. DOMAIN callers = Callers
  BY DEF QueryInv, CallersInv
<1>2. ASSUME NEW e \in Callers PROVE CallerAnswers(callers[e])'
  <2>1. PICK other : other = callers'[e] /\ CallerAnswers(other)
    BY <1>1 DEF AnswersInv
  <2>2. CallerAnswers(other)'
    BY <2>1, AnswerStays
  <2> QED BY <2>1, <2>2 DEF CallerAnswers
<1> QED BY <1>2 DEF AnswersInv

LEMMA NextAnswers == QueryInv /\ FoundInv /\ AnswersInv /\ [Next]_vars => AnswersInv'
<1> SUFFICES ASSUME QueryInv, FoundInv, AnswersInv, [Next]_vars PROVE AnswersInv'
  OBVIOUS
<1>1. ASSUME plan' = plan, callers' = callers, lister = "ready" => lister' = "ready"
      PROVE  AnswersInv'
  <2>1. ASSUME NEW c \in Callers PROVE CallerAnswers(callers[c])'
    <3>1. PICK caller : caller = callers[c] /\ CallerAnswers(caller)
      BY DEF AnswersInv
    <3>2. CallerAnswers(caller)'
      BY <1>1, <3>1, AnswerStays
    <3> QED BY <1>1, <3>1, <3>2 DEF CallerAnswers
  <2> QED BY <2>1 DEF AnswersInv
<1>2. CASE Construct \/ FindSort \/ SortsFound \/ FindFilter \/ RefuseDefault \/ Leave
           \/ FiltersFound
  BY <1>1, <1>2 DEF Construct, FindSort, SortsFound, FindFilter, RefuseDefault, Leave,
     FiltersFound
<1>3. CASE UNCHANGED vars
  BY <1>1, <1>3 DEF vars
<1>4. ASSUME NEW c \in Callers,
             AskToList(c) \/ Validate(c) \/ Build(c) \/ Run(c) \/ Fail(c) \/ AskToGet(c)
      PROVE  AnswersInv'
  <2>1. PICK caller : /\ caller = callers[c] /\ CallerAnswers(caller)
                      /\ DOMAIN caller = {"at", "request", "sorts", "order", "answer"}
                      /\ caller.at \in {"validate", "build", "run"} => caller.request.is = "list"
                      /\ caller.request \in plan.requests \cup {Nothing}
    BY DEF AnswersInv, QueryInv, CallersInv, CallerOK
  <2>2. DOMAIN callers = Callers
    BY DEF QueryInv, CallersInv
  <2>3. CASE AskToList(c)
    <3>1. PICK req, sorts : /\ plan' = plan /\ lister' = lister /\ lister = "ready"
            /\ callers' = [callers EXCEPT ![c] = [Idle EXCEPT !.at = "validate",
                                                     !.request = req, !.sorts = sorts]]
      BY <2>3 DEF AskToList, Begin
    <3>2. CallerAnswers([Idle EXCEPT !.at = "validate", !.request = req, !.sorts = sorts])
      BY <3>1 DEF CallerAnswers, Idle, Nothing
    <3> QED BY <3>1, <3>2, OneAnswers
  <2>4. CASE Validate(c)
    <3> DEFINE check == CheckRequest(plan.root, caller.request)
               invalid == [is |-> "invalid", how |-> check]
    <3>1. /\ plan' = plan /\ lister' = lister /\ caller.at = "validate"
          /\ callers' = IF check = "ok" THEN [callers EXCEPT ![c].at = "build"]
                        ELSE [callers EXCEPT ![c].at = "done", ![c].answer = invalid]
      BY <2>1, <2>4 DEF Validate, Goes, Answer
    <3>2. CASE check = "ok"
      <4>1. callers' = [callers EXCEPT ![c] = [caller EXCEPT !.at = "build"]]
        BY <2>1, <3>1, <3>2
      <4>2. CallerAnswers([caller EXCEPT !.at = "build"])
        <5> HIDE DEF check
        <5> QED BY <2>1, <3>1, <3>2 DEF CallerAnswers, check
      <4> QED BY <4>1, <4>2, <3>1, OneAnswers
    <3>3. CASE check # "ok"
      <4>1. callers' = [callers EXCEPT ![c] = [caller EXCEPT !.at = "done", !.answer = invalid]]
        BY <2>1, <2>2, <3>1, <3>3
      <4>2. CallerAnswers([caller EXCEPT !.at = "done", !.answer = invalid])
        BY <2>1 DEF CallerAnswers
      <4> QED BY <4>1, <4>2, <3>1, OneAnswers
    <3> QED BY <3>2, <3>3
  <2>5. ASSUME NEW answer, Answer(c, answer), answer.is # "rows", plan' = plan, lister' = lister
        PROVE  AnswersInv'
    <3>1. callers' = [callers EXCEPT ![c] = [caller EXCEPT !.at = "done", !.answer = answer]]
      BY <2>1, <2>2, <2>5 DEF Answer
    <3>2. CallerAnswers([caller EXCEPT !.at = "done", !.answer = answer])
      BY <2>1, <2>5 DEF CallerAnswers
    <3> QED BY <2>5, <3>1, <3>2, OneAnswers
  <2>6. CASE Build(c)
    <3>1. plan' = plan /\ lister' = lister /\ caller.at = "build"
      BY <2>1, <2>6 DEF Build
    <3>2. PICK order :
            \/ Answer(c, [is |-> "unbuilt"])
            \/ Answer(c, [is |-> "panic"])
            \/ /\ RequestBuilds(plan.root, plan.identifier, caller.request)
               /\ callers' = [callers EXCEPT ![c].at = "run", ![c].order = order]
      BY <2>1, <2>6 DEF Build
    <3>3. CASE /\ RequestBuilds(plan.root, plan.identifier, caller.request)
               /\ callers' = [callers EXCEPT ![c].at = "run", ![c].order = order]
      <4>1. callers' = [callers EXCEPT ![c] = [caller EXCEPT !.at = "run", !.order = order]]
        BY <2>1, <3>3
      <4>2. CallerAnswers([caller EXCEPT !.at = "run", !.order = order])
        BY <2>1, <3>1, <3>3 DEF CallerAnswers
      <4> QED BY <3>1, <4>1, <4>2, OneAnswers
    <3> QED BY <2>5, <3>1, <3>2, <3>3
  <2>7. CASE Fail(c)
    BY <2>5, <2>7 DEF Fail
  <2>8. CASE Run(c)
    <3>1. PICK req : req = caller.request
      OBVIOUS
    <3>2. PICK results : results = Results(req)
      OBVIOUS
    <3>3. PICK answer :
            /\ plan' = plan /\ lister' = lister /\ caller.at = "run"
            /\ answer.results = results
            /\ callers' = [callers EXCEPT ![c].at = "done", ![c].answer = answer]
      BY <2>1, <2>8, <3>1, <3>2 DEF Run, Answer
    <3>4. callers' = [callers EXCEPT ![c] = [caller EXCEPT !.at = "done", !.answer = answer]]
      BY <2>1, <2>2, <3>3
    <3>5. ASSUME Understood(req) PROVE AsMeant(req, results)
      <4>1. req \in plan.requests /\ req.is = "list"
        BY <2>1, <3>1, <3>3 DEF Nothing
      <4>2. Accepted(req) /\ lister = "ready"
        BY <2>1, <3>1, <3>3, <3>5, <4>1 DEF CallerAnswers, Accepted
      <4> QED BY <3>2, <4>2, ResultsMeant
    <3>6. CallerAnswers([caller EXCEPT !.at = "done", !.answer = answer])
      BY <2>1, <3>1, <3>3, <3>5 DEF CallerAnswers
    <3> QED BY <3>3, <3>4, <3>6, OneAnswers
  <2>9. CASE AskToGet(c)
    <3>1. PICK req : /\ plan' = plan /\ lister' = lister
                     /\ callers' = [callers EXCEPT ![c] = [Idle EXCEPT !.at = "done",
                          !.request = req, !.answer = Get(plan.properties, plan.states,
                            plan.events, plan.authRows, plan.claim, req.keys)]]
      BY <2>9 DEF AskToGet
    <3>2. PICK answer :
            /\ plan' = plan /\ answer.is # "rows"
            /\ callers' = [callers EXCEPT ![c] = [Idle EXCEPT !.at = "done", !.request = req,
                                                              !.answer = answer]]
      BY <3>1, GetAnswers
    <3>3. CallerAnswers([Idle EXCEPT !.at = "done", !.request = req, !.answer = answer])
      BY <3>2 DEF CallerAnswers, Idle
    <3> QED BY <3>1, <3>2, <3>3, OneAnswers
  <2> QED BY <1>4, <2>3, <2>4, <2>6, <2>7, <2>8, <2>9
<1> QED BY <1>2, <1>3, <1>4 DEF Next

LEMMA AnswersInvariant == Spec => []AnswersInv
<1>1. Init => AnswersInv
  BY DEF Init, AnswersInv, CallerAnswers, Idle, Nothing
<1>2. QueryInv /\ FoundInv /\ AnswersInv /\ [Next]_vars => AnswersInv'
  BY NextAnswers
<1> QED BY <1>1, <1>2, FoundInvariant, PTL DEF Spec

(***************************************************************************)
(* The rows that a list answers with are those that its filters, searches  *)
(* or default filters mean, as far as BuildQuery is able to compare what   *)
(* they ask for, and that the AuthProvider's claim lets it see: all of     *)
(* them, whatever is requested at the same time, and each of them once if  *)
(* no two auth rows are joined to it.                                      *)
(***************************************************************************)
THEOREM ListsMeant == Spec => []RowsMeant
<1>1. AnswersInv => RowsMeant
  BY DEF AnswersInv, CallerAnswers, RowsMeant, Understood, AsMeant
<1> QED BY <1>1, AnswersInvariant, PTL
-----------------------------------------------------------------------------
(***************************************************************************)
(* What is annotated to be sorted by is not below a list, if it is within  *)
(* two messages.                                                           *)
(***************************************************************************)
LEMMA SortedChains ==
  ASSUME NEW m \in Messages, SortsAnnotated[m], NEW c \in Range(ChainsFrom[m]),
         SortChecked(c), SortAnnotated(Last(c))
  PROVE  ~BelowList(c)
<1>1. Linked(m, c) /\ c \in Seq(FieldRefs)
  BY ChainsLinked, ChainsFilled DEF Chains
<1>2. PICK n \in Nat : n = Len(c) /\ n <= 2
  BY <1>1 DEF SortChecked
<1> SUFFICES ASSUME BelowList(c) PROVE FALSE
  OBVIOUS
<1>3. n = 2 /\ c[1].list
  <2>1. PICK i \in 1 .. n - 1 : c[i].list
    BY <1>2 DEF BelowList
  <2> QED BY <1>2, <2>1
<1>4. PICK f, g : f = c[1] /\ g = c[2] /\ Last(c) = g
  BY <1>2, <1>3 DEF Last
<1>5. f \in FieldSet(m) /\ f.message \in Messages /\ g \in FieldSet(f.message)
  <2>1. 2 \in 1 .. Len(c) /\ 2 > 1 /\ 2 - 1 = 1
    BY <1>2, <1>3
  <2> QED BY <1>1, <1>4, <2>1 DEF Linked
<1>6. f.message # NoMessage
  BY <1>5, PathsAssumption
<1>7. g.message = NoMessage /\ SortAnnotated(g) /\ f.list
  BY <1>3, <1>4 DEF SortChecked
<1>8. SortsIn(SortsAnnotated, m)
  BY SortsUnfold
<1> QED BY <1>5, <1>6, <1>7, <1>8 DEF SortsIn

(* Arrows lead down a chain that no list is above the end of. *)
LEMMA ArrowsLead ==
  ASSUME NEW c \in Chains, c # <<>>, ~BelowList(c), NEW nodes, Follows(nodes, c)
  PROVE  ~ArrowPanics(nodes)
<1>1. PICK n \in Nat : n = Len(c) /\ n = Len(nodes) /\ n # 0
  <2>1. c \in Seq(FieldRefs) /\ c # <<>>
    BY DEF Chains
  <2>2. PICK n \in Nat : n = Len(c)
    BY <2>1
  <2>3. n # 0
    BY <2>1, <2>2
  <2> QED BY <2>2, <2>3 DEF Follows
<1>2. \A i \in 1 .. n : nodes[i].field = c[i] /\ nodes[i].oneof = NoOneof
  BY <1>1 DEF Follows
<1>3. Last(nodes).oneof = NoOneof
  <2>1. n \in 1 .. n
    BY <1>1
  <2> QED BY <1>1, <1>2, <2>1 DEF Last
<1>4. ASSUME NEW i \in 1 .. n - 1 PROVE ~nodes[i].field.list
  <2>1. i \in 1 .. n
    OBVIOUS
  <2> QED BY <1>1, <1>2, <2>1 DEF BelowList
<1> QED BY <1>1, <1>3, <1>4 DEF ArrowPanics

(* A sort that validateQueryRequestSorts lets through is by such a field.  *)
LEMMA AskedSortLeads ==
  ASSUME plan.root \in Messages, SortsAnnotated[plan.root],
         NEW sort, sort.field \in Seq(Range(sort.field)), AskedSelects(sort),
         CheckSort(NewJSONPath(plan.root, sort.field)) = "ok"
  PROVE  ~ArrowPanics(NewJSONPath(plan.root, sort.field).nodes)
<1>1. PICK path : path = NewJSONPath(plan.root, sort.field)
  OBVIOUS
<1>2. PICK names \in Seq(Range(sort.field)) : names = sort.field
  OBVIOUS
<1>3. /\ path.nodes # <<>> /\ Leaf(path).oneof = NoOneof
      /\ Ruled(Leaf(path).field) /\ Leaf(path).field.kind \in SortKinds
      /\ Granted(Leaf(path).field.rules.sort) = "ok"
  BY <1>1 DEF CheckSort, LeadsToField
<1>4. Way(path, names, Len(names))
  BY <1>1, <1>2, PathsGo
<1>5. path # Failed("refused")
  BY <1>3 DEF Failed, Start
<1>6. PICK c : FieldWay(path, c, names, Len(names))
  <2>1. CASE \E c : OneofWay(path, c, names, Len(names))
    <3>1. PICK c : OneofWay(path, c, names, Len(names))
      BY <2>1
    <3>2. PICK nodes \in Seq(Nodes) : path.nodes = Append(nodes, OneofNode("type"))
      BY <3>1 DEF OneofWay
    <3>3. "type" # NoOneof
      BY <3>1 DEF OneofWay, HasType, OneofsOf
    <3>4. PICK node : node = OneofNode("type") /\ node.oneof # NoOneof /\ node \in Nodes
      BY <3>3 DEF OneofNode, Nodes
    <3>5. PICK more \in Seq(Nodes) : more = Append(nodes, node) /\ Len(more) = Len(nodes) + 1
                                     /\ more[Len(nodes) + 1] = node
      <4>1. /\ Append(nodes, node) \in Seq(Nodes) /\ Len(Append(nodes, node)) = Len(nodes) + 1
            /\ Append(nodes, node)[Len(nodes) + 1] = node
        BY <3>4, AppendProperties
      <4> QED BY <4>1
    <3>6. Leaf(path) = node
      BY <3>2, <3>4, <3>5 DEF Leaf, Last
    <3> QED BY <1>3, <3>4, <3>6
  <2> QED BY <1>4, <1>5, <2>1 DEF Way
<1>7. c \in Ways /\ c \in Chains /\ SaidBy(c, names, Len(names))
  BY <1>6, WaysAre DEF FieldWay
<1>8. PICK nodes \in Seq(Nodes) : Follows(nodes, c) /\ path.nodes = nodes
  BY <1>6 DEF FieldWay, OnPath
<1>9. PICK n \in Nat : n = Len(c) /\ n = Len(nodes) /\ n # 0
  <2>1. PICK n \in Nat : n = Len(nodes)
    OBVIOUS
  <2>2. n # 0
    BY <1>3, <1>8, <2>1
  <2> QED BY <1>8, <2>1, <2>2 DEF Follows
<1>10. c # <<>> /\ c \in Range(ChainsFrom[plan.root])
  BY <1>7, <1>9 DEF Ways
<1>11. Last(c) = Leaf(path).field
  <2>1. n \in 1 .. n
    BY <1>9
  <2> QED BY <1>8, <1>9, <2>1 DEF Follows, Leaf, Last
<1>12. names \in NamesFor(c)
  <2>1. PICK said \in NamesFor(c) :
          Len(said) = Len(names) /\ \A i \in 1 .. Len(names) : said[i] = names[i]
    BY <1>7 DEF SaidBy
  <2>2. said \in Seq(FieldNames)
    BY <1>7, <2>1, SaidTyped DEF NamesFor
  <2>3. said = names
    BY <2>1, <2>2, SeqEqual
  <2> QED BY <2>1, <2>3
<1>13. SortAnnotated(Last(c))
  <2>1. Leaf(path).field.rules.sort = "on"
    BY <1>3 DEF Granted
  <2> QED BY <1>3, <1>11, <2>1 DEF SortAnnotated
<1>14. SortChecked(c) \/ ~BelowList(c)
  BY <1>2, <1>10, <1>12 DEF AskedSelects
<1>15. ~BelowList(c)
  BY <1>10, <1>13, <1>14, SortedChains
<1> QED BY <1>1, <1>7, <1>8, <1>10, <1>15, ArrowsLead

(* What a request without sorts is sorted by. *)
Panics(order) == \E i \in DOMAIN order : ~order[i].column /\ ArrowPanics(order[i].nodes)

LEMMA DefaultsLead ==
  ASSUME plan \in Plans, SortsAnnotated[plan.root], DefaultsSelect
  PROVE  ~Panics(AsOrdered)
<1> DEFINE defaults == Those(ChainsFrom[plan.root], DefaultSorts)
           NodesOf(chain) == [i \in DOMAIN chain |-> FieldNode(chain[i].name, chain[i])]
           By(chain) == [column |-> FALSE, nodes |-> NodesOf(chain)]
           sorting == [i \in DOMAIN defaults |-> By(defaults[i])]
<1>1. AsOrdered = sorting \o TieBreakers
  BY DEF AsOrdered
<1>2. plan.root \in Messages
  BY PlansAssumption
<1>3. ChainsFrom[plan.root] \in Seq(Chains)
  BY <1>2, ChainsType
<1>4. defaults \in Seq(Chains)
  <2> HIDE DEF defaults
  <2>1. defaults \in Seq({c \in Chains : \E i \in DOMAIN ChainsFrom[plan.root] :
                            c = ChainsFrom[plan.root][i] /\ Last(c) \in DefaultSorts})
    BY <1>3, ThoseAmong DEF defaults
  <2> QED BY <2>1
<1>5. Range(defaults) = {c \in Range(ChainsFrom[plan.root]) : Last(c) \in DefaultSorts}
  BY <1>3, ThoseRange
<1>6. PICK S : TieBreakers \in Seq(S)
  BY TiesAreSequence
<1>7. ASSUME NEW c \in Range(defaults) PROVE ~ArrowPanics(NodesOf(c))
  <2>1. c \in Range(ChainsFrom[plan.root]) /\ Last(c) \in DefaultSorts
    BY <1>5
  <2>2. c \in Chains /\ c # <<>>
    BY <1>2, <2>1, ChainsFilled
  <2>3. SortAnnotated(Last(c))
    BY <2>1, FiltersAssumption DEF DefaultSorts, IsDefaultSort, SortAnnotated, Ruled
  <2>4. SortChecked(c) \/ ~BelowList(c)
    BY DEF DefaultsSelect
  <2>5. ~BelowList(c)
    BY <1>2, <2>1, <2>3, <2>4, SortedChains
  <2>6. Follows(NodesOf(c), c)
    <3>1. PICK n \in Nat : n = Len(c) /\ DOMAIN c = 1 .. n
      BY <2>2 DEF Chains
    <3> QED BY <3>1 DEF Follows, FieldNode
  <2> HIDE DEF NodesOf
  <2> QED BY <2>2, <2>5, <2>6, ArrowsLead
<1>8. PICK n \in Nat, k \in Nat :
        /\ n = Len(defaults) /\ DOMAIN defaults = 1 .. n
        /\ k = Len(TieBreakers) /\ DOMAIN TieBreakers = 1 .. k
  BY <1>4, <1>6
<1>9. ASSUME NEW i \in 1 .. n PROVE ~ArrowPanics(sorting[i].nodes)
  <2>1. defaults[i] \in Range(defaults)
    BY <1>8 DEF Range
  <2>2. sorting[i].nodes = NodesOf(defaults[i])
    BY <1>8
  <2> HIDE DEF sorting, NodesOf, defaults
  <2> QED BY <1>7, <2>1, <2>2
<1>10. ASSUME NEW i \in 1 .. k PROVE TieBreakers[i].column \/ ~ArrowPanics(TieBreakers[i].nodes)
  <2>1. TieBreakers[i] \in Range(TieBreakers)
    BY <1>8 DEF Range
  <2> QED BY <2>1 DEF DefaultsSelect
<1>11. DOMAIN sorting = 1 .. n
  BY <1>8
<1> DEFINE Q == Range(sorting) \cup S
<1>12. PICK first \in Seq(Q), last \in Seq(Q) : first = sorting /\ last = TieBreakers
  <2>1. sorting \in Seq(Q)
    <3>1. \A i \in 1 .. n : sorting[i] \in Range(sorting)
      BY <1>11 DEF Range
    <3>2. sorting = [i \in 1 .. n |-> sorting[i]]
      BY <1>11
    <3> HIDE DEF sorting
    <3> QED BY <1>8, <3>1, <3>2
  <2> HIDE DEF sorting
  <2> QED BY <1>6, <2>1
<1>13. Len(first) = n /\ Len(last) = k
  BY <1>8, <1>11, <1>12
<1> HIDE DEF sorting, Q, defaults, NodesOf
<1>14. /\ DOMAIN (first \o last) = 1 .. n + k
       /\ \A i \in 1 .. n : (first \o last)[i] = first[i]
       /\ \A i \in 1 .. k : (first \o last)[n + i] = last[i]
  <2>1. /\ first \o last \in Seq(Q) /\ Len(first \o last) = Len(first) + Len(last)
        /\ \A i \in 1 .. Len(first) : (first \o last)[i] = first[i]
        /\ \A i \in 1 .. Len(last) : (first \o last)[Len(first) + i] = last[i]
    BY <1>12
  <2>2. PICK s \in Seq(Q) : s = first \o last
    BY <2>1
  <2>3. DOMAIN s = 1 .. n + k
    BY <1>13, <2>1, <2>2
  <2> QED BY <1>13, <2>1, <2>2, <2>3
<1>15. ASSUME NEW i \in 1 .. n + k
       PROVE  (first \o last)[i].column \/ ~ArrowPanics((first \o last)[i].nodes)
  <2>1. CASE i \in 1 .. n
    BY <1>9, <1>12, <1>14, <2>1
  <2>2. CASE i \notin 1 .. n
    <3>1. PICK j \in 1 .. k : i = n + j
      <4>1. i - n \in 1 .. k /\ i = n + (i - n)
        BY <1>8, <2>2
      <4> QED BY <4>1
    <3> QED BY <1>10, <1>12, <1>14, <3>1
  <2> QED BY <2>1, <2>2
<1> QED BY <1>1, <1>12, <1>14, <1>15 DEF Panics

(***************************************************************************)
(* A request is built once it has been found valid.  Only if it cannot be  *)
(* is the answer that it was not, and only if its order panics, that.      *)
(***************************************************************************)
AskedOrder(req) == IF req.sorts # <<>> THEN RequestedSorts(req) ELSE AsOrdered

CallerBuilds(caller) ==
  /\ caller.at = "build" => CheckRequest(plan.root, caller.request) = "ok"
  /\ caller.answer.is \in {"unbuilt", "panic"} =>
       /\ caller.request.is = "list"
       /\ CheckRequest(plan.root, caller.request) = "ok"
       /\ \/ ~RequestBuilds(plan.root, plan.identifier, caller.request)
          \/ Panics(AskedOrder(caller.request))

BuildsInv == \A c \in Callers : CallerBuilds(callers[c])

LEMMA BuildsStays ==
  ASSUME plan' = plan, NEW caller
  PROVE  CallerBuilds(caller)' = CallerBuilds(caller)
<1>1. AsOrdered' = AsOrdered
  BY DEF AsOrdered, TieBreakers
<1>2. RequestedSorts(caller.request)' = RequestedSorts(caller.request)
  BY DEF RequestedSorts
<1>3. AskedOrder(caller.request)' = AskedOrder(caller.request)
  BY <1>1, <1>2 DEF AskedOrder
<1> QED BY <1>3 DEF CallerBuilds

LEMMA OneBuilds ==
  ASSUME QueryInv, BuildsInv, NEW c \in Callers, NEW caller, plan' = plan,
         callers' = [callers EXCEPT ![c] = caller], CallerBuilds(caller)
  PROVE  BuildsInv'
<1>1. DOMAIN callers = Callers
  BY DEF QueryInv, CallersInv
<1>2. ASSUME NEW e \in Callers PROVE CallerBuilds(callers[e])'
  <2>1. PICK other : other = callers'[e]
    OBVIOUS
  <2>2. CallerBuilds(other)
    <3>1. CASE e = c
      <4>1. other = caller
        BY <1>1, <2>1, <3>1
      <4> QED BY <4>1
    <3>2. CASE e # c
      <4>1. other = callers[e]
        BY <1>1, <2>1, <3>2
      <4> QED BY <4>1 DEF BuildsInv
    <3> QED BY <3>1, <3>2
  <2>3. CallerBuilds(other)'
    BY <2>2, BuildsStays
  <2> QED BY <2>1, <2>3 DEF CallerBuilds
<1> QED BY <1>2 DEF BuildsInv

LEMMA NextBuilds ==
  ASSUME ShortSorts
  PROVE  QueryInv /\ FoundInv /\ OrderInv /\ BuildsInv /\ [Next]_vars => BuildsInv'
<1> SUFFICES ASSUME QueryInv, FoundInv, OrderInv, BuildsInv, [Next]_vars PROVE BuildsInv'
  OBVIOUS
<1>1. ASSUME plan' = plan, callers' = callers PROVE BuildsInv'
  <2>1. ASSUME NEW e \in Callers PROVE CallerBuilds(callers[e])'
    <3>1. PICK other : other = callers[e] /\ other = callers'[e]
      BY <1>1
    <3>2. CallerBuilds(other)
      BY <3>1 DEF BuildsInv
    <3>3. CallerBuilds(other)'
      BY <1>1, <3>2, BuildsStays
    <3> QED BY <3>1, <3>3 DEF CallerBuilds
  <2> QED BY <2>1 DEF BuildsInv
<1>2. CASE Construct \/ FindSort \/ SortsFound \/ FindFilter \/ RefuseDefault \/ Leave
           \/ FiltersFound
  BY <1>1, <1>2 DEF Construct, FindSort, SortsFound, FindFilter, RefuseDefault, Leave,
     FiltersFound
<1>3. CASE UNCHANGED vars
  BY <1>1, <1>3 DEF vars
<1>4. ASSUME NEW c \in Callers,
             AskToList(c) \/ Validate(c) \/ Build(c) \/ Run(c) \/ Fail(c) \/ AskToGet(c)
      PROVE  BuildsInv'
  <2>1. PICK caller : /\ caller = callers[c] /\ CallerBuilds(caller)
                      /\ DOMAIN caller = {"at", "request", "sorts", "order", "answer"}
                      /\ caller.at \in {"validate", "build", "run"} => caller.request.is = "list"
    BY DEF BuildsInv, QueryInv, CallersInv, CallerOK
  <2>2. DOMAIN callers = Callers
    BY DEF QueryInv, CallersInv
  <2>3. CASE AskToList(c)
    <3>1. PICK req, sorts : /\ plan' = plan
            /\ callers' = [callers EXCEPT ![c] = [Idle EXCEPT !.at = "validate",
                                                     !.request = req, !.sorts = sorts]]
      BY <2>3 DEF AskToList, Begin
    <3>2. CallerBuilds([Idle EXCEPT !.at = "validate", !.request = req, !.sorts = sorts])
      BY DEF CallerBuilds, Idle, Nothing
    <3> QED BY <3>1, <3>2, OneBuilds
  <2>4. CASE Validate(c)
    <3> DEFINE check == CheckRequest(plan.root, caller.request)
               invalid == [is |-> "invalid", how |-> check]
    <3>1. /\ plan' = plan /\ caller.at = "validate"
          /\ callers' = IF check = "ok" THEN [callers EXCEPT ![c].at = "build"]
                        ELSE [callers EXCEPT ![c].at = "done", ![c].answer = invalid]
      BY <2>1, <2>4 DEF Validate, Goes, Answer
    <3>2. CASE check = "ok"
      <4>1. callers' = [callers EXCEPT ![c] = [caller EXCEPT !.at = "build"]]
        BY <2>1, <3>1, <3>2
      <4>2. CallerBuilds([caller EXCEPT !.at = "build"])
        <5> HIDE DEF check
        <5> QED BY <2>1, <3>2 DEF CallerBuilds, check
      <4> QED BY <4>1, <4>2, <3>1, OneBuilds
    <3>3. CASE check # "ok"
      <4>1. callers' = [callers EXCEPT ![c] = [caller EXCEPT !.at = "done", !.answer = invalid]]
        BY <2>1, <2>2, <3>1, <3>3
      <4>2. CallerBuilds([caller EXCEPT !.at = "done", !.answer = invalid])
        BY <2>1 DEF CallerBuilds
      <4> QED BY <4>1, <4>2, <3>1, OneBuilds
    <3> QED BY <3>2, <3>3
  <2>5. CASE Build(c)
    <3>1. PICK order : order = OrderOf(c)
      OBVIOUS
    <3>2. PICK req : req = caller.request /\ req = callers[c].request
      BY <2>1
    <3>3. /\ plan' = plan /\ caller.at = "build" /\ callers[c].at = "build"
          /\ \/ /\ ~RequestBuilds(plan.root, plan.identifier, req)
                /\ Answer(c, [is |-> "unbuilt"])
             \/ Panics(order) /\ Answer(c, [is |-> "panic"])
             \/ callers' = [callers EXCEPT ![c].at = "run", ![c].order = order]
      BY <2>1, <2>5, <3>1, <3>2 DEF Build, Panics
    <3>4. order = AskedOrder(req)
      <4>1. CASE req.sorts # <<>>
        BY <3>1, <3>2, <4>1 DEF OrderOf, AskedOrder
      <4>2. CASE req.sorts = <<>>
        <5>1. OrderOf(c) = AsOrdered
          BY <3>2, <3>3, <4>2, DefaultOrder
        <5> QED BY <3>1, <4>2, <5>1 DEF AskedOrder
      <4> QED BY <4>1, <4>2
    <3>5. CheckRequest(plan.root, req) = "ok" /\ req.is = "list"
      BY <2>1, <3>2, <3>3 DEF CallerBuilds
    <3>6. ASSUME NEW answer, Answer(c, answer),
                 \/ ~RequestBuilds(plan.root, plan.identifier, req)
                 \/ Panics(order)
          PROVE  BuildsInv'
      <4>1. PICK now : now = [caller EXCEPT !.at = "done", !.answer = answer]
        OBVIOUS
      <4>2. callers' = [callers EXCEPT ![c] = now]
        BY <2>1, <3>6, <4>1 DEF Answer
      <4>3. now.at = "done" /\ now.request = req
        BY <2>1, <3>2, <4>1
      <4>4. CallerBuilds(now)
        BY <3>4, <3>5, <3>6, <4>3 DEF CallerBuilds
      <4> QED BY <3>3, <4>2, <4>4, OneBuilds
    <3>7. CASE callers' = [callers EXCEPT ![c].at = "run", ![c].order = order]
      <4>1. PICK now : now = [caller EXCEPT !.at = "run", !.order = order]
        OBVIOUS
      <4>2. callers' = [callers EXCEPT ![c] = now]
        BY <2>1, <3>7, <4>1
      <4>3. now.at = "run" /\ now.request = caller.request /\ now.answer = caller.answer
        BY <2>1, <4>1
      <4>4. CallerBuilds(now)
        BY <2>1, <4>3 DEF CallerBuilds
      <4> QED BY <3>3, <4>2, <4>4, OneBuilds
    <3> QED BY <3>3, <3>6, <3>7
  <2>6. CASE Run(c) \/ Fail(c)
    <3>1. PICK answer : /\ plan' = plan /\ answer.is \notin {"unbuilt", "panic"}
                        /\ callers' = [callers EXCEPT ![c].at = "done", ![c].answer = answer]
      <4>1. CASE Run(c)
        <5>1. PICK results : Answer(c, [is |-> "rows", results |-> results])
          BY <4>1 DEF Run
        <5>2. [is |-> "rows", results |-> results].is = "rows" /\ plan' = plan
          BY <4>1 DEF Run
        <5> QED BY <5>1, <5>2 DEF Answer
      <4>2. CASE Fail(c)
        BY <4>2 DEF Fail, Answer
      <4> QED BY <2>6, <4>1, <4>2
    <3>2. callers' = [callers EXCEPT ![c] = [caller EXCEPT !.at = "done", !.answer = answer]]
      BY <2>1, <2>2, <3>1
    <3>3. CallerBuilds([caller EXCEPT !.at = "done", !.answer = answer])
      BY <2>1, <3>1 DEF CallerBuilds
    <3> QED BY <3>1, <3>2, <3>3, OneBuilds
  <2>7. CASE AskToGet(c)
    <3>1. PICK req : /\ plan' = plan
                     /\ callers' = [callers EXCEPT ![c] = [Idle EXCEPT !.at = "done",
                          !.request = req, !.answer = Get(plan.properties, plan.states,
                            plan.events, plan.authRows, plan.claim, req.keys)]]
      BY <2>7 DEF AskToGet
    <3>2. PICK answer :
            /\ plan' = plan /\ answer.is \notin {"unbuilt", "panic"}
            /\ callers' = [callers EXCEPT ![c] = [Idle EXCEPT !.at = "done", !.request = req,
                                                              !.answer = answer]]
      BY <3>1, GetAnswers
    <3>3. CallerBuilds([Idle EXCEPT !.at = "done", !.request = req, !.answer = answer])
      BY <3>2 DEF CallerBuilds, Idle
    <3> QED BY <3>2, <3>3, OneBuilds
  <2> QED BY <1>4, <2>3, <2>4, <2>5, <2>6, <2>7
<1> QED BY <1>2, <1>3, <1>4 DEF Next

LEMMA ValidFromInv == QueryInv /\ OrderInv /\ AnnotationsInv /\ BuildsInv => ValidIsBuilt
<1> SUFFICES ASSUME QueryInv, OrderInv, AnnotationsInv, BuildsInv, NEW c \in Callers,
                    callers[c].answer.is \in {"unbuilt", "panic"},
                    OneDirection(callers[c].request.sorts),
                    ~(Len(callers[c].request.filters) > 1),
                    \A i \in DOMAIN callers[c].request.filters :
                      callers[c].request.filters[i].is = "field",
                    \A i \in DOMAIN callers[c].request.searches :
                      SearchedInSnake(callers[c].request.searches[i]),
                    IF callers[c].request.sorts = <<>> THEN DefaultsSelect
                    ELSE \A i \in DOMAIN callers[c].request.sorts :
                           AskedSelects(callers[c].request.sorts[i])
             PROVE  FALSE
  BY DEF ValidIsBuilt
<1>1. PICK req : req = callers[c].request
  OBVIOUS
<1>2. PICK m : m = plan.root
  OBVIOUS
<1>3. plan \in Plans /\ m \in Messages
  BY <1>2, PlansAssumption DEF QueryInv, ListerInv
<1>4. /\ req.is = "list" /\ CheckRequest(m, req) = "ok"
      /\ ~RequestBuilds(m, plan.identifier, req) \/ Panics(AskedOrder(req))
  BY <1>1, <1>2 DEF BuildsInv, CallerBuilds
<1>5. req \in plan.requests
  BY <1>1, <1>4 DEF QueryInv, CallersInv, CallerOK, Nothing
<1>6. /\ req.filters \in Seq(FilterTrees) /\ req.searches \in Seq(Range(req.searches))
      /\ req.sorts \in Seq(Range(req.sorts))
      /\ \A sort \in Range(req.sorts) : sort.field \in Seq(Range(sort.field))
  BY <1>3, <1>4, <1>5, PlansAssumption
<1> DEFINE sorted == [i \in DOMAIN req.sorts |-> CheckSort(NewJSONPath(m, req.sorts[i].field))]
           checks == [i \in DOMAIN req.searches |->
                        CheckSearch(NewJSONPath(m, req.searches[i].field))]
<1>7. /\ CheckEach(sorted) = "ok" /\ CheckFilters(m, req.filters) = "ok"
      /\ CheckEach(checks) = "ok"
  <2>1. Both(CheckEach(sorted), Both(CheckFilters(m, req.filters), CheckEach(checks))) = "ok"
    BY <1>4 DEF CheckRequest
  <2> HIDE DEF sorted, checks
  <2> QED BY <2>1 DEF Both
<1>8. Buildable(m, req.filters)
  <2>1. PICK filters \in Seq(FilterTrees) : filters = req.filters
    BY <1>6
  <2>2. PICK n \in Nat : n = Len(filters) /\ DOMAIN filters = 1 .. n /\ n <= 1
    BY <1>1, <2>1
  <2>3. filters = <<>> \/ (Len(filters) = 1 /\ filters[1].is = "field")
    <3>1. CASE n = 0
      BY <2>2, <3>1
    <3>2. CASE n = 1
      <4>1. 1 \in DOMAIN filters
        BY <2>2, <3>2
      <4> QED BY <1>1, <2>1, <2>2, <3>2, <4>1
    <3> QED BY <2>2, <3>1, <3>2
  <2> QED BY <1>7, <2>1, <2>3, ValidFilterBuilt
<1>9. ASSUME NEW i \in DOMAIN req.searches
      PROVE  TsvColumns(m, plan.identifier, SearchKey(req.searches[i])) # {}
  <2>1. PICK n \in Nat : DOMAIN req.searches = 1 .. n
    BY <1>6
  <2>2. checks \in Seq({checks[j] : j \in 1 .. n}) /\ DOMAIN checks = 1 .. n
    BY <2>1
  <2>3. checks[i] = "ok"
    <3> HIDE DEF checks
    <3> QED BY <1>7, <2>1, <2>2, EachChecked
  <2>4. PICK search : search = req.searches[i]
    OBVIOUS
  <2>5. CheckSearch(NewJSONPath(m, search.field)) = "ok"
    BY <2>3, <2>4
  <2>6. PICK chain \in Range(ChainsFrom[m]) : InSnake(chain) /\ JSONNames(chain) = search.field
    BY <1>1, <1>2, <2>4 DEF SearchedInSnake
  <2>7. TsvColumns(m, plan.identifier, SearchKey(search)) # {}
    BY <1>3, <2>5, <2>6, SearchHasColumn
  <2> QED BY <2>4, <2>7
<1>10. RequestBuilds(m, plan.identifier, req)
  BY <1>1, <1>8, <1>9 DEF RequestBuilds
<1>11. SortsAnnotated[m]
  <2>1. callers[c].at = "done"
    BY DEF OrderInv, OrderOK, Nothing
  <2>2. lister = "ready"
    BY <2>1 DEF OrderInv, OrderOK
  <2> QED BY <1>2, <2>2 DEF AnnotationsInv
<1>12. CASE req.sorts = <<>>
  <2>1. ~Panics(AsOrdered)
    BY <1>1, <1>2, <1>3, <1>11, <1>12, DefaultsLead
  <2> QED BY <1>4, <1>10, <1>12, <2>1 DEF AskedOrder
<1>13. CASE req.sorts # <<>>
  <2>1. PICK n \in Nat : DOMAIN req.sorts = 1 .. n
    BY <1>6
  <2>2. sorted \in Seq({sorted[j] : j \in 1 .. n}) /\ DOMAIN sorted = 1 .. n
    BY <2>1
  <2>3. ASSUME NEW i \in DOMAIN req.sorts
        PROVE  ~ArrowPanics(NewJSONPath(m, req.sorts[i].field).nodes)
    <3>1. sorted[i] = "ok"
      <4> HIDE DEF sorted
      <4> QED BY <1>7, <2>1, <2>2, <2>3, EachChecked
    <3>2. PICK sort \in Range(req.sorts) : sort = req.sorts[i]
      BY DEF Range
    <3>3. CheckSort(NewJSONPath(m, sort.field)) = "ok" /\ sort.field \in Seq(Range(sort.field))
      BY <1>6, <3>1, <3>2
    <3>4. AskedSelects(sort)
      BY <1>1, <1>13, <2>3, <3>2
    <3>5. ~ArrowPanics(NewJSONPath(m, sort.field).nodes)
      BY <1>2, <1>3, <1>11, <3>3, <3>4, AskedSortLeads
    <3> QED BY <3>2, <3>5
  <2>4. ~Panics(RequestedSorts(req))
    BY <1>2, <2>3 DEF Panics, RequestedSorts
  <2> QED BY <1>4, <1>10, <1>13, <2>4 DEF AskedOrder
<1> QED BY <1>12, <1>13

(***************************************************************************)
(* What validateQueryRequest finds valid is built by BuildQuery, without   *)
(* an error and without a panic: if it sorts in one direction, has one     *)
(* filter at most, and searches by names that camelToSnake turns into      *)
(* those of the fields; if what it sorts by, and is deeper than the sort   *)
(* annotations are checked for lists, is below none; and if no field with  *)
(* a default sort has a path that the walk itself can write over.          *)
(***************************************************************************)
THEOREM ValidRequestsBuilt ==
  ASSUME ShortSorts
  PROVE  Spec => []ValidIsBuilt
<1>1. Init => BuildsInv
  BY DEF Init, BuildsInv, CallerBuilds, Idle, Nothing
<1>2. QueryInv /\ FoundInv /\ OrderInv /\ BuildsInv /\ [Next]_vars => BuildsInv'
  BY NextBuilds
<1> QED BY <1>1, <1>2, FoundInvariant, AnnotationsInvariant, OrderInvariant, ValidFromInv,
           PTL DEF Spec
=============================================================================
