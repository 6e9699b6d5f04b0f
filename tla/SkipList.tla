------------------------------ MODULE SkipList ------------------------------
(***************************************************************************)
(* The container of the index: nodes on levels 0, 1, ..., each level a     *)
(* doubly linked ring through the head.  The height of a new node is       *)
(* random; the head has as many levels as the highest node, at least one.  *)
(***************************************************************************)
EXTENDS Integers, FiniteSets, Sequences, SequencesExt

CONSTANTS
  Key,       \* elements, numbered in ascending order from 1
  Bound,     \* what lower_bound is asked for
  MaxLevels  \* Traits::getMaxLevels(): the highest level a node can have

ASSUME KeyAssumption == Key \subseteq Nat \ {0} /\ Key \subseteq Bound /\ Bound \subseteq Nat
ASSUME MaxLevelsAssumption == MaxLevels \in Nat

VARIABLES
  nexts,   \* node -> level -> the next node of that level
  prevs,   \* node -> level -> the previous node of that level
  size,    \* m_size
  reply    \* what the last operation returned

list == <<nexts, prevs, size>>

m_head == 0    \* what end() points to
Nodes == DOMAIN nexts
NLevels == Cardinality(DOMAIN nexts[m_head])

Begin == nexts[m_head][0]
End   == m_head

(* initializeHead: one level, empty. *)
EmptyLevels == [n \in {m_head} |-> [i \in {0} |-> m_head]]
NoReply == [op |-> "none", at |-> End]

Init == nexts = EmptyLevels /\ prevs = EmptyLevels /\ size = 0 /\ reply = NoReply

-----------------------------------------------------------------------------
(* Definitions whose name contains Mut are variants of the definition after them with
   a plausible bug, for mutation runs only. *)

(* The nodes of level i, with the head. *)
LevelNodes(i) == {n \in Nodes : i \in DOMAIN nexts[n]}

(* The walk along level i from its node p: the last node before x. *)
Walk(i, x) ==
  LET walk[p \in LevelNodes(i)] ==
        LET q == nexts[p][i] IN IF q # m_head /\ q < x THEN walk[q] ELSE p
  IN  walk

(* insertPositions: the walks of all levels, from the top, each from where the one
   above ended. *)
Positions(x) ==
  LET pos[i \in 0..(NLevels - 1)] ==
        Walk(i, x)[IF i = NLevels - 1 THEN m_head ELSE pos[i + 1]]
  IN  pos

LowerBound(x) == nexts[Positions(x)[0]][0]

Find(x) == LET q == LowerBound(x) IN IF q = End \/ q # x THEN End ELSE q

(* resize(newLevel + 1, m_head) of the head's vectors *)
Grown(levels, height) ==
  [i \in DOMAIN levels \cup 0..(height - 1) |-> IF i \in DOMAIN levels THEN levels[i] ELSE m_head]

(* The new node between pos[i] and its successor, on each of its levels. *)
Link(x, height, pos) ==
  LET nx == [nexts EXCEPT ![m_head] = Grown(@, height)]
      pv == [prevs EXCEPT ![m_head] = Grown(@, height)]
      new == [i \in 0..(height - 1) |-> nx[pos[i]][i]]
  IN
  /\ nexts' = [n \in Nodes \cup {x} |->
       IF n = x THEN new
       ELSE [i \in DOMAIN nx[n] |-> IF i < height /\ pos[i] = n THEN x ELSE nx[n][i]]]
  /\ prevs' = [n \in Nodes \cup {x} |->
       IF n = x THEN [i \in 0..(height - 1) |-> pos[i]]
       ELSE [i \in DOMAIN pv[n] |-> IF i < height /\ new[i] = n THEN x ELSE pv[n][i]]]

(* insert, with the level that pickRandomLevel returned *)
Insert(x, newLevel) ==
  IF LowerBound(x) = x
    THEN /\ reply' = [op |-> "kept", at |-> x]
         /\ UNCHANGED list
    ELSE /\ Link(x, newLevel + 1, Grown(Positions(x), newLevel + 1))
         /\ size' = size + 1
         /\ reply' = [op |-> "inserted", at |-> x]

(* The levels that erasing x leaves empty, which the head gives up. *)
EmptiedMutKept(x) == {}
Emptied(x) == {i \in DOMAIN nexts[x] : i > 0 /\ nexts[x][i] = prevs[x][i]}

(* erase(it) *)
Unlink(x) ==
  LET top == NLevels - Cardinality(Emptied(x))
      kept(links, n) == IF n = m_head THEN 0..(top - 1) ELSE DOMAIN links[n]
  IN
  /\ nexts' = [n \in Nodes \ {x} |-> [i \in kept(nexts, n) |->
                 IF nexts[n][i] = x THEN nexts[x][i] ELSE nexts[n][i]]]
  /\ prevs' = [n \in Nodes \ {x} |-> [i \in kept(prevs, n) |->
                 IF prevs[n][i] = x THEN prevs[x][i] ELSE prevs[n][i]]]
  /\ size' = size - 1

Erase(x) ==
  /\ Find(x) # End
  /\ Unlink(x)
  /\ reply' = [op |-> "erased", at |-> nexts[x][0]]

SearchMutUpperBound(x) ==
  /\ reply' = [op |-> "bound", of |-> x, at |-> LET q == LowerBound(x) IN IF q = x THEN nexts[q][0] ELSE q]
  /\ UNCHANGED list

(* lower_bound *)
Search(x) ==
  /\ reply' = [op |-> "bound", of |-> x, at |-> LowerBound(x)]
  /\ UNCHANGED list

(* The container of the next process. *)
Restart == nexts' = EmptyLevels /\ prevs' = EmptyLevels /\ size' = 0 /\ reply' = NoReply

-----------------------------------------------------------------------------
(* The ring of level i, from the node after the head. *)
Ring(i) ==
  LET from[n \in LevelNodes(i)] == IF n = m_head THEN <<>> ELSE <<n>> \o from[nexts[n][i]]
  IN  from[nexts[m_head][i]]

(* skiplist.hpp:146-155: every level is an ascending ring through the head in both
   directions, made of exactly the nodes that reach so high, so that each level is a
   sublist of the one below; there is no empty level but the lowest; m_size counts the
   nodes. *)
LevelsWellFormed ==
  /\ \A n \in Nodes : \E h \in 1..(MaxLevels + 1) :
       DOMAIN nexts[n] = 0..(h - 1) /\ DOMAIN prevs[n] = 0..(h - 1)
  /\ \A n \in Nodes : \A i \in DOMAIN nexts[n] :
       /\ i \in DOMAIN prevs[nexts[n][i]] /\ prevs[nexts[n][i]][i] = n
       /\ i \in DOMAIN nexts[prevs[n][i]] /\ nexts[prevs[n][i]][i] = n
       /\ nexts[n][i] # m_head => n < nexts[n][i]
  /\ \A i \in DOMAIN nexts[m_head] :
       /\ ToSet(Ring(i)) = {n \in Nodes \ {m_head} : i \in DOMAIN nexts[n]}
       /\ i > 0 => Ring(i) # <<>>
  /\ size = Cardinality(Nodes) - 1

(* What a reader of the lowest level sees, and what the operations return. *)
Sorted == INSTANCE SortedSet WITH items <- Ring(0)
ImplementsSortedSet == Sorted!Spec
=============================================================================
