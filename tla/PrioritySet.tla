---------------------------- MODULE PrioritySet -----------------------------
(***************************************************************************)
(* What the read scheduler expects of its heap (utils/heap/heap.h): a set  *)
(* of elements with dates, from which only an element with the earliest    *)
(* date can be taken.                                                      *)
(***************************************************************************)
EXTENDS Integers

CONSTANTS Elem, Date

VARIABLES
  content,  \* the elements in the set
  date      \* the date of every element

set == <<content, date>>

\* The caller may have changed the date of the element before, while it was
\* not in the set.
Insert(e, d) ==
  /\ e \in Elem \ content
  /\ content' = content \cup {e}
  /\ date' = [date EXCEPT ![e] = d]

TakeEarliest(e) ==
  /\ e \in content
  /\ \A f \in content : date[e] <= date[f]
  /\ content' = content \ {e}
  /\ UNCHANGED date

SetInit == content = {} /\ date \in [Elem -> Date]

SetNext ==
  \/ \E e \in Elem, d \in Date : Insert(e, d)
  \/ \E e \in Elem : TakeEarliest(e)

SetSpec == SetInit /\ [][SetNext]_set
=============================================================================
