------------------------------ MODULE TaskList ------------------------------
(***************************************************************************)
(* The intrusive, circular, doubly linked list FIFORunner keeps its tasks  *)
(* in (boost::intrusive::list).  A list is a sequence without repetition   *)
(* whose last element is the list's root node, what end() points to.  An   *)
(* iterator is the node it points to, so erasing or moving other nodes     *)
(* does not invalidate it.                                                 *)
(***************************************************************************)
EXTENDS Naturals, Sequences, SequencesExt

\* The nodes linked into s, the root included.
Nodes(s) == {s[i] : i \in 1..Len(s)}

\* No node is linked twice: a list hook has one predecessor and one successor.
NoRepeat(s) == \A i, j \in 1..Len(s) : s[i] = s[j] => i = j

\* Node x comes before node y.
Before(s, x, y) == \E i, j \in 1..Len(s) : i < j /\ s[i] = x /\ s[j] = y

\* Position of a linked node.
Pos(s, x) == CHOOSE i \in 1..Len(s) : s[i] = x

\* ++iterator.
Succ(s, x) == s[Pos(s, x) + 1]

\* list.erase(iterator to x).
Erase(s, x) == RemoveAt(s, Pos(s, x))

\* list.insert(iterator to l, x): x becomes the predecessor of l.
InsertBefore(s, l, x) == InsertAt(s, Pos(s, l), x)

\* list.splice(iterator to l, list, iterator to x): x is moved in front of l.
Splice(s, l, x) == InsertBefore(Erase(s, x), l, x)

=============================================================================
