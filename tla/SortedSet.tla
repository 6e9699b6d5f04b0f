------------------------------ MODULE SortedSet ------------------------------
(***************************************************************************)
(* What the index asks of its container: a sequence of names in ascending  *)
(* order, none twice.  SkipList is shown to implement it, whatever heights *)
(* its random generator picks.                                             *)
(***************************************************************************)
EXTENDS Integers, Sequences

CONSTANTS
  Key,     \* what can be in the container
  Bound    \* what can be searched for: keys and values between them

VARIABLES
  items,   \* the elements in ascending order
  reply    \* what the last operation returned, and what it was asked

vars == <<items, reply>>

None     == 0  \* end()
Elements == {items[i] : i \in DOMAIN items}
Least(S) == IF S = {} THEN None ELSE CHOOSE x \in S : \A y \in S : x <= y

(* The sequence s lists S in ascending order. *)
Lists(s, S) ==
  /\ {s[i] : i \in DOMAIN s} = S
  /\ \A i, j \in DOMAIN s : i < j => s[i] < s[j]

Init == items = <<>> /\ reply = [op |-> "none", at |-> None]

(* An insert says whether the element is new; the position is the element's. *)
Insert(x) ==
  /\ Lists(items', Elements \cup {x})
  /\ reply' = [op |-> IF x \in Elements THEN "kept" ELSE "inserted", at |-> x]

(* An erase returns the position after the element. *)
Erase(x) ==
  /\ x \in Elements
  /\ Lists(items', Elements \ {x})
  /\ reply' = [op |-> "erased", at |-> Least({y \in Elements : y > x})]

LowerBound(x) ==
  /\ reply' = [op |-> "bound", of |-> x, at |-> Least({y \in Elements : y >= x})]
  /\ UNCHANGED items

(* The process ended: its successor starts with a new container. *)
Restart == items' = <<>> /\ reply' = [op |-> "none", at |-> None]

Next ==
  \/ \E x \in Key : Insert(x) \/ Erase(x)
  \/ Restart
  \/ \E x \in Bound : LowerBound(x)

Spec == Init /\ [][Next]_vars
=============================================================================
