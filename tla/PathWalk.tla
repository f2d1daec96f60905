------------------------------ MODULE PathWalk ------------------------------
(***************************************************************************)
(* WalkPathNodes visits every field under a message, depth first, and      *)
(* hands each path to a callback that may keep it (internal/pgstore/       *)
(* path.go).  A path is a slice of nodes: appending to one with spare      *)
(* capacity writes into the array it shares with its siblings' paths.      *)
(***************************************************************************)
EXTENDS Paths

CONSTANT EmptyCell   \* a cell of an array that nothing was written to

VARIABLES
  memory,  \* the arrays: sequences of cells, as long as their capacity
  stack,   \* the calls of walk in progress, the root first
  kept     \* what the callbacks kept, by the list they keep it in

walkVars == <<memory, stack, kept>>

(***************************************************************************)
(* Slices.  append doubles the capacity, from one; the sizes of pathNode,  *)
(* sortSpec and filterSpec (48, 16 and 32 bytes) are allocated exactly.    *)
(***************************************************************************)
NilSlice == [array |-> 0, len |-> 0]

Capacity(heap, slice) == IF slice.array = 0 THEN 0 ELSE Len(heap[slice.array])

Cells(heap, slice) ==
  IF slice.array = 0 THEN <<>> ELSE SubSeq(heap[slice.array], 1, slice.len)

(* Mutants: capacity only doubles, even from zero; it grows one too far. *)
GrownDouble(len, capacity) == 2 * capacity
GrownByOneMore(len, capacity) == IF len > 2 * capacity THEN len + 1 ELSE 2 * capacity

GrownTo(len, capacity) == IF len > 2 * capacity THEN len ELSE 2 * capacity

(* append: the heap after it and the slice it returns. *)
AppendTo(heap, slice, cells) ==
  LET len == slice.len + Len(cells)
      capacity == Capacity(heap, slice)
      fresh == [i \in 1 .. GrownTo(len, capacity) |->
                  IF i <= len THEN (Cells(heap, slice) \o cells)[i] ELSE EmptyCell]
  IN  IF cells = <<>> THEN [heap |-> heap, slice |-> slice]
      ELSE IF len <= capacity
      THEN [heap |-> [heap EXCEPT ![slice.array] =
                        [i \in DOMAIN @ |->
                           IF i \in slice.len + 1 .. len THEN cells[i - slice.len]
                           ELSE @[i]]],
            slice |-> [slice EXCEPT !.len = len]]
      ELSE [heap |-> Append(heap, fresh),
            slice |-> [array |-> Len(heap) + 1, len |-> len]]

(***************************************************************************)
(* The walk.  A frame is the message, the field to visit next, and the     *)
(* path to the message.  Its chain is not in the code: it is the fields    *)
(* that the walk really went through.                                      *)
(***************************************************************************)
Frame(m, path, chain) == [message |-> m, next |-> 1, path |-> path, chain |-> chain]

WalkInit ==
  /\ memory = <<>> /\ stack = <<>>
  /\ kept = [list \in {"sorts", "filters"} |-> NilSlice]

StartWalk(m) == stack' = <<Frame(m, NilSlice, <<>>)>>

(* Mutant: the last field of each message is left out. *)
MoreFieldsButOne ==
  stack # <<>> /\ Last(stack).next < Len(FieldsOf[Last(stack).message])

MoreFields == stack # <<>> /\ Last(stack).next <= Len(FieldsOf[Last(stack).message])
NextField  == FieldsOf[Last(stack).message][Last(stack).next]

(* One field; the callback keeps paths to the wanted fields in list. *)
Visit(list, wanted) ==
  /\ MoreFields
  /\ LET top == Last(stack)
         f == NextField
         path == AppendTo(memory, top.path, <<FieldNode(f.name, f)>>)
         chain == Append(top.chain, f)
         cell == [path |-> path.slice, leaf |-> f, chain |-> chain]
         keep == AppendTo(path.heap, kept[list], IF f \in wanted THEN <<cell>> ELSE <<>>)
         rest == Append(Front(stack), [top EXCEPT !.next = @ + 1])
     IN  /\ memory' = keep.heap
         /\ kept' = [kept EXCEPT ![list] = keep.slice]
         /\ stack' = IF f.message = NoMessage THEN rest
                     ELSE Append(rest, Frame(f.message, path.slice, chain))

(* The last field of a message has been visited. *)
LeaveMessage ==
  /\ Len(stack) > 1 /\ ~MoreFields
  /\ stack' = Front(stack)
  /\ UNCHANGED <<memory, kept>>

WalkEnds == Len(stack) = 1 /\ ~MoreFields

Kept(list) == Cells(memory, kept[list])

(* What a kept path says now: its nodes are in an array that may be shared. *)
KeptNodes(cell) == Cells(memory, cell.path)

(* IDPath, the names of the nodes. *)
IDPath(cell) ==
  [i \in DOMAIN KeptNodes(cell) |-> KeptNodes(cell)[i].name]

=============================================================================
