---------------------------- MODULE LinkedLists ----------------------------
(***************************************************************************)
(* The singly linked lists of phase4.c.  A node lives on the stack of the  *)
(* process that waits in it, so a list is the sequence of the owners of    *)
(* its nodes, head first.                                                  *)
(***************************************************************************)
EXTENDS Integers, Sequences

Members(list) == {list[i] : i \in DOMAIN list}

NoRepeat(list) == \A i, j \in DOMAIN list : list[i] = list[j] => i = j

\* Mutants of InsertAfter: links the node before curr; forgets curr->next.
InsertBefore(list, k, p) ==
    [i \in 1 .. Len(list) + 1 |->
        IF i < k THEN list[i] ELSE IF i = k THEN p ELSE list[i - 1]]

InsertLast(list, k, p) ==
    [i \in 1 .. k + 1 |-> IF i <= k THEN list[i] ELSE p]

\* new_node.next = curr->next; curr->next = &new_node: p's node is linked behind
\* the k-th node.
InsertAfter(list, k, p) ==
    [i \in 1 .. Len(list) + 1 |->
        IF i <= k THEN list[i] ELSE IF i = k + 1 THEN p ELSE list[i - 1]]
=============================================================================
