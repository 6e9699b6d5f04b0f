------------------------------- MODULE MCIndex -------------------------------
(* TLC instances of Index: five entries, of which four fit; four of them under the
   name <<2>> in two children, one before it. *)
EXTENDS Index

Names == <<<<>>, <<1>>, <<1, 1>>, <<2>>, <<2, 1>>, <<2, 1, 1>>, <<2, 1, 2>>,
           <<2, 2>>, <<2, 2, 1>>, <<2, 2, 2>>, <<3>>>>

Keys   == {3, 6, 7, 9, 10}
Bounds == DOMAIN Names
\* the last two packets under <<2>> have another signer, and none
Signers == [x \in Keys |-> IF x = 9 THEN 2 ELSE IF x = 10 THEN NoKey ELSE 1]

Ask(x, right, min, max, exclude, key) ==
  [name |-> x, rightmost |-> right, min |-> min, max |-> max, exclude |-> exclude, key |-> key]

Interests ==
  {Ask(x, right, NoLimit, NoLimit, {}, NoKey) : x \in {1, 4, 5}, right \in BOOLEAN}
  \cup {Ask(4, right, NoLimit, NoLimit, {2}, NoKey) : right \in BOOLEAN}
  \cup {Ask(4, right, NoLimit, NoLimit, {}, 2) : right \in BOOLEAN}
  \cup {Ask(5, TRUE, 1, 1, {1}, NoKey), Ask(4, TRUE, NoLimit, 1, {}, NoKey)}
=============================================================================
