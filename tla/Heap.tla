-------------------------------- MODULE Heap --------------------------------
(***************************************************************************)
(* The binary heap of src/utils/heap/heap.c.  The mutex of the heap makes  *)
(* every call atomic for its callers; the model nevertheless takes one     *)
(* step per call of the recursive function reheap, so that what the        *)
(* recursion maintains can be stated as an invariant.                      *)
(*                                                                         *)
(* An element is a read function, its date is rf_next_read, which the      *)
(* comparison function of the scheduler (plugin_compare_read_func) looks   *)
(* at.  The owner of an element sets its date while it is not in the heap. *)
(* Indices are those of the C array and are of type size_t: the sums wrap  *)
(* around at SizeT.  An insertion whose realloc fails changes nothing, as  *)
(* c_heap_get_root of an empty heap does; the realloc that makes the array *)
(* smaller is assumed to succeed.                                          *)
(***************************************************************************)
EXTENDS Integers

CONSTANTS
  Elem,     \* the pointers that can be inserted
  Date,     \* their possible dates
  NULL,     \* what an unused place of the array holds
  Chunk,    \* by how much the array grows; the code has 16
  SizeT,    \* number of values of size_t
  MaxLen    \* bound: how many elements are in the heap

ASSUME HeapAssumption ==
  /\ Date \subseteq Int
  /\ NULL \notin Elem
  /\ Chunk \in Nat \ {0}
  /\ MaxLen \in Nat
  /\ SizeT \in Nat
  /\ SizeT % 2 = 0
  /\ 2 * MaxLen + 2 <= SizeT

VARIABLES
  list,       \* the array; its domain is what is allocated
  list_len,   \* entries used
  list_size,  \* entries allocated
  date,       \* the date of every element
  pc,         \* "idle", in reheap "up" or "down", or about to "shrink"
  root        \* the argument of reheap

vars == <<list, list_len, list_size, date, pc, root>>

-----------------------------------------------------------------------------
\* The positions of the children; 0 means that there is none.
Left(r) == LET l == (2 * r + 1) % SizeT IN IF l >= list_len THEN 0 ELSE l
Right(r) == LET l == (2 * r + 2) % SizeT IN IF l >= list_len THEN 0 ELSE l

\* h->compare(h->list[i], h->list[j]) > 0
Later(i, j) == date[list[i]] > date[list[j]]

\* The child to compare the root with, when there is one.  (Definitions named
\* X_Y are X with a mistake Y: they are used only to show that the properties
\* notice it.)
Smaller_AlwaysLeft(r) == IF Left(r) = 0 THEN Right(r) ELSE Left(r)
Smaller(r) ==
  IF Left(r) = 0 THEN Right(r)
  ELSE IF Right(r) = 0 THEN Left(r)
  ELSE IF Later(Left(r), Right(r)) THEN Right(r) ELSE Left(r)

\* (i - 1) / 2 in unsigned arithmetic: the parent of i, and for the root of
\* the heap a place that has no children in the array.
ParentOf(i) == ((i - 1) % SizeT) \div 2

\* The array after realloc; new places hold anything, and are not looked at.
Resized(n) == [i \in 0..(n - 1) |-> IF i < list_size THEN list[i] ELSE NULL]

-----------------------------------------------------------------------------
\* The array before the new element is stored.
Grown == IF list_len = list_size THEN Resized(list_size + Chunk) ELSE list

\* The new element becomes a leaf, and reheap is called for its parent.
c_heap_insert(e, d) ==
  /\ pc = "idle"
  /\ list_len < MaxLen
  /\ \A i \in 0..(list_len - 1) : list[i] # e
  /\ date' = [date EXCEPT ![e] = d]
  /\ list_size' = IF list_len = list_size THEN list_size + Chunk ELSE list_size
  /\ list' = [Grown EXCEPT ![list_len] = e]
  /\ list_len' = list_len + 1
  /\ pc' = "up"
  /\ root' = ParentOf(list_len)

\* What follows reheap in the two callers.
AfterReheap == IF pc = "up" THEN "idle" ELSE "shrink"

\* The children, if any, are not earlier: nothing to do.
reheap_return ==
  /\ pc \in {"up", "down"}
  /\ Left(root) # 0 \/ Right(root) # 0 => ~Later(root, Smaller(root))
  /\ pc' = AfterReheap
  /\ root' = 0
  /\ UNCHANGED <<list, list_len, list_size, date>>

\* Exchange the root with its earlier child, and go on above or below.
reheap_swap ==
  /\ pc \in {"up", "down"}
  /\ Left(root) # 0 \/ Right(root) # 0
  /\ Later(root, Smaller(root))
  /\ list' = [list EXCEPT ![root] = list[Smaller(root)], ![Smaller(root)] = list[root]]
  /\ \/ pc = "up" /\ root = 0 /\ pc' = AfterReheap /\ root' = 0
     \/ pc = "up" /\ root # 0 /\ root' = ParentOf(root) /\ pc' = pc
     \/ pc = "down" /\ root' = Smaller(root) /\ pc' = pc
  /\ UNCHANGED <<list_len, list_size, date>>

\* The root is taken out; the last leaf takes its place and sinks.
c_heap_get_root ==
  /\ pc = "idle"
  /\ list_len > 0
  /\ list' = [[list EXCEPT ![0] = list[list_len - 1]] EXCEPT ![list_len - 1] = NULL]
  /\ list_len' = list_len - 1
  /\ pc' = IF list_len = 1 THEN "shrink" ELSE "down"
  /\ root' = 0
  /\ UNCHANGED <<list_size, date>>

\* "free some memory", the end of c_heap_get_root.
free_some_memory_ToOneChunk ==
  /\ pc = "shrink"
  /\ \/ /\ list_len + 2 * Chunk < list_size
        /\ list' = Resized(Chunk)
        /\ list_size' = Chunk
     \/ /\ list_len + 2 * Chunk >= list_size
        /\ UNCHANGED <<list, list_size>>
  /\ pc' = "idle"
  /\ UNCHANGED <<list_len, date, root>>
free_some_memory_Never ==
  /\ pc = "shrink"
  /\ pc' = "idle"
  /\ UNCHANGED <<list, list_size, list_len, date, root>>
free_some_memory ==
  /\ pc = "shrink"
  /\ \/ /\ list_len + 2 * Chunk < list_size
        /\ list' = Resized(list_len + Chunk)
        /\ list_size' = list_len + Chunk
     \/ /\ list_len + 2 * Chunk >= list_size
        /\ UNCHANGED <<list, list_size>>
  /\ pc' = "idle"
  /\ UNCHANGED <<list_len, date, root>>

\* c_heap_create
Init ==
  /\ list = [i \in 0..(-1) |-> NULL]
  /\ list_len = 0
  /\ list_size = 0
  /\ date \in [Elem -> Date]
  /\ pc = "idle"
  /\ root = 0

Next ==
  \/ \E e \in Elem, d \in Date : c_heap_insert(e, d)
  \/ reheap_return
  \/ reheap_swap
  \/ c_heap_get_root
  \/ free_some_memory

Spec == Init /\ [][Next]_vars

-----------------------------------------------------------------------------
(* Properties *)

\* Type invariant.  In particular the elements fit into what is allocated, as
\* c_heap_insert asserts, before and after every realloc.
TypeOK ==
  /\ list_len \in 0..MaxLen
  /\ list_size \in Nat
  /\ list_len <= list_size
  /\ list \in [0..(list_size - 1) -> Elem \cup {NULL}]
  /\ \A i \in 0..(list_len - 1) : list[i] \in Elem
  /\ date \in [Elem -> Date]
  /\ pc \in {"idle", "up", "down", "shrink"}
  /\ root \in Nat

\* The heap does what the scheduler expects of it: no element is lost,
\* doubled or invented, and c_heap_get_root returns one whose date no other
\* element in the heap precedes.
Content == {list[i] : i \in 0..(list_len - 1)}
Abstract == INSTANCE PrioritySet WITH content <- Content
ImplementsSet == Abstract!SetSpec

\* After a burst of insertions the array shrinks with the heap: between calls
\* at most two chunks are allocated and unused.
MemoryIsReturned == pc = "idle" => list_size <= list_len + 2 * Chunk
=============================================================================
