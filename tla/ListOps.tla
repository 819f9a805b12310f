------------------------------ MODULE ListOps ------------------------------
(***************************************************************************)
(* The doubly linked lists of src/common/list.c, as sequences of entries.  *)
(* Insertion at either end of a list is \o or Append.                      *)
(***************************************************************************)
EXTENDS Integers, Sequences

\* The entries of a list.
Listed(list) == {list[k] : k \in 1 .. Len(list)}

\* No node is linked twice.
Distinct(list) == \A j, k \in 1 .. Len(list) : list[j] = list[k] => j = k

\* _detach_from_list, of a node anywhere in the list.
Detach(list, e) ==
  LET i == CHOOSE k \in 1 .. Len(list) : list[k] = e
  IN  [k \in 1 .. (Len(list) - 1) |-> IF k < i THEN list[k] ELSE list[k + 1]]

\* _detach_from_list of the node before the head of the circular list.
WithoutLast(list) == [k \in 1 .. (Len(list) - 1) |-> list[k]]
=============================================================================
