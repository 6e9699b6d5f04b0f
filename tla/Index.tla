-------------------------------- MODULE Index --------------------------------
(***************************************************************************)
(* Index over its SkipList: entries under a capacity, and the search for   *)
(* the entry that an Interest selects.  A name is a sequence of components *)
(* and has a number in canonical order; the container holds the numbers of *)
(* full names, and lower_bound is asked for any name.                      *)
(*                                                                         *)
(* selectChild is a loop, modelled one round per step; the io_service lets *)
(* nothing else run until it returns.                                      *)
(***************************************************************************)
EXTENDS SkipList

CONSTANTS
  NameOf,      \* number -> name, in canonical order; component numbers are ordered
  KeyOf,       \* full name -> hash of the packet's key locator, NoKey when it has none
  MaxPackets,  \* storage.max-packets
  Interest     \* what readers ask: see InterestAssumption

NoKey == 0
NoLimit == -1

(* Canonical order of names: component by component, a name before all that go on
   from it.  Name::getSuccessor: the first name after those that go on from this one. *)
Precedes(a, b) ==
  \E n \in 0..Len(a) :
    /\ n < Len(b) /\ \A i \in 1..n : a[i] = b[i]
    /\ n < Len(a) => a[n + 1] < b[n + 1]

Successor(name) == [name EXCEPT ![Len(name)] = @ + 1]

(* Names are numbered in their order; what is asked of lower_bound, prefixes and
   successors, has a number too. *)
ASSUME NameAssumption ==
  /\ NameOf \in [Bound -> Seq(Nat)]
  /\ \A x, y \in Bound : x < y => Precedes(NameOf[x], NameOf[y])
  /\ \A x \in Bound : \A n \in 0..Len(NameOf[x]) :
       \E y \in Bound : NameOf[y] = SubSeq(NameOf[x], 1, n)

(* key: the hash of PublisherPublicKeyLocator, NoKey when not asked for *)
ASSUME InterestAssumption ==
  /\ Interest \subseteq [name : Bound, rightmost : BOOLEAN, min : Nat \cup {NoLimit},
                          max : Nat \cup {NoLimit}, exclude : SUBSET Nat, key : Nat]
  /\ \A r \in Interest : r.rightmost /\ NameOf[r.name] # <<>> =>
       \E y \in Bound : NameOf[y] = Successor(NameOf[r.name])

VARIABLES
  m_size,    \* Index::m_size
  search     \* the call of find(interest) that is running or has returned

ivars == <<nexts, prevs, size, reply, m_size, search>>

Idle == [phase |-> "idle"]
Done(r, at) == [phase |-> "done", interest |-> r, at |-> at]

NumberOf(name) == CHOOSE x \in Bound : NameOf[x] = name
FirstOf(name, n) == SubSeq(name, 1, IF n < Len(name) THEN n ELSE Len(name))

-----------------------------------------------------------------------------
Full == m_size >= MaxPackets

(* Index::insert: the capacity is looked at before the container, and throws. *)
InsertEntry(x, level) ==
  /\ search = Idle
  /\ ~Full
  /\ Insert(x, level)
  /\ m_size' = IF reply'.op = "inserted" THEN m_size + 1 ELSE m_size
  /\ UNCHANGED search

(* Index::erase of a name, which may not be there. *)
EraseEntry(x) ==
  /\ search = Idle
  /\ \/ Erase(x) /\ m_size' = m_size - 1
     \/ Find(x) = End /\ Search(x) /\ UNCHANGED m_size
  /\ UNCHANGED search

(* Index::find(name) with findFirstEntry, the search of a deletion. *)
FindByName(x) ==
  LET q == LowerBound(x) IN
  /\ search = Idle
  /\ Search(x)
  /\ search' = Done([name |-> x], IF q # End /\ IsPrefix(NameOf[x], NameOf[q]) THEN q ELSE End)
  /\ UNCHANGED m_size

-----------------------------------------------------------------------------
(* matchesSimpleSelectors up to its last test.  The head, read as an entry, has an
   empty name. *)
EntryName(q) == IF q = m_head THEN <<>> ELSE NameOf[q]

PassesName(r, q) ==
  LET asked  == NameOf[r.name]
      suffix == Len(EntryName(q)) - Len(asked)
  IN
  /\ IsPrefix(asked, EntryName(q))
  /\ r.min # NoLimit => suffix >= r.min
  /\ r.max # NoLimit => suffix <= r.max
  /\ suffix > 0 => EntryName(q)[Len(asked) + 1] \notin r.exclude

Matches(r, q) == PassesName(r, q) /\ (r.key # NoKey => KeyOf[q] = r.key)

(* The last test dereferences the entry's hash, which is a null pointer when the
   packet's signature has no key locator. *)
Dereferences(r, q) == PassesName(r, q) /\ r.key # NoKey /\ KeyOf[q] = NoKey

(* Index::find(interest): nothing at or after the name, or a search starts. *)
FindByInterest(r) ==
  LET start == LowerBound(r.name)
      under == start # End /\ IsPrefix(NameOf[r.name], NameOf[start])
      next  == NumberOf(Successor(NameOf[r.name]))
  IN
  /\ search = Idle
  /\ search' = IF ~under THEN Done(r, End)
               ELSE IF r.rightmost
                 THEN [phase |-> "right", interest |-> r, boundary |-> start,
                       last |-> IF NameOf[r.name] = <<>> THEN End ELSE LowerBound(next)]
                 ELSE [phase |-> "left", interest |-> r, it |-> start]
  /\ Search(r.name)
  /\ UNCHANGED m_size

(* One round of the leftmost search. *)
LeftRound ==
  /\ search.phase = "left"
  /\ LET r  == search.interest
         it == search.it
     IN search' = IF it = End \/ ~IsPrefix(NameOf[r.name], EntryName(it)) THEN Done(r, End)
                  ELSE IF Dereferences(r, it) THEN [phase |-> "crashed", interest |-> r]
                  ELSE IF Matches(r, it) THEN Done(r, it)
                  ELSE [search EXCEPT !.it = nexts[it][0]]
  /\ UNCHANGED <<list, reply, m_size>>

(* find_if over [first, last) stops at the first entry that matches or crashes. *)
Scan(r, first, last) ==
  LET scan[q \in Nodes] ==
        IF q = last \/ Matches(r, q) \/ Dereferences(r, q) THEN q ELSE scan[nexts[q][0]]
  IN  scan[first]

(* The first entry of the group of children that q belongs to. *)
GroupStartMutName(r, q) == LowerBound(NumberOf(FirstOf(EntryName(q), Len(NameOf[r.name]))))
GroupStart(r, q) == LowerBound(NumberOf(FirstOf(EntryName(q), Len(NameOf[r.name]) + 1)))

AtBoundaryMutNever(q) == FALSE
AtBoundary(q) == q = search.boundary

(* One round of the rightmost search: the group of children that ends before last. *)
RightRound ==
  /\ search.phase = "right"
  /\ LET r     == search.interest
         prev  == prevs[search.last][0]
         first == GroupStart(r, prev)
         found == IF AtBoundary(prev) THEN prev ELSE Scan(r, first, search.last)
     IN search' =
          IF found # search.last /\ Dereferences(r, found)
            THEN [phase |-> "crashed", interest |-> r]
          ELSE IF found # search.last /\ Matches(r, found) THEN Done(r, found)
          ELSE IF AtBoundary(prev) THEN Done(r, End)
          ELSE [search EXCEPT !.last = first]
  /\ UNCHANGED <<list, reply, m_size>>

(* The handler goes on with the result. *)
Return ==
  /\ search.phase = "done"
  /\ search' = Idle
  /\ UNCHANGED <<list, reply, m_size>>

(* A crash ends the process; the entries are inserted again when it starts. *)
Crash ==
  /\ search.phase = "crashed"
  /\ Restart
  /\ m_size' = 0
  /\ search' = Idle

IndexInit == Init /\ m_size = 0 /\ search = Idle

IndexNext ==
  \/ \E x \in Key :
       \/ \E level \in 0..MaxLevels : InsertEntry(x, level)
       \/ EraseEntry(x)
  \/ \E x \in Bound : FindByName(x)
  \/ \E r \in Interest : FindByInterest(r)
  \/ LeftRound \/ RightRound \/ Return \/ Crash

(* The loops run until they return; the handler is then resumed. *)
IndexSpec ==
  IndexInit /\ [][IndexNext]_ivars /\ WF_ivars(LeftRound \/ RightRound)

-----------------------------------------------------------------------------
(* The reference: what the selectors ask for, over the set of entries. *)
Entries  == Nodes \ {m_head}
LeastOf(S) == IF S = {} THEN End ELSE CHOOSE x \in S : \A y \in S : x <= y
Child(r, q) == FirstOf(NameOf[q], Len(NameOf[r.name]) + 1)
SameChild(r, q) == {x \in Entries : Child(r, x) = Child(r, q)}
Under(x)    == {q \in Entries : IsPrefix(NameOf[x], NameOf[q])}
Matching(r) == {q \in Entries : Matches(r, q)}

(* ChildSelector 0: the first match.  ChildSelector 1: the first match under the last
   child that has one. *)
Selected(r) ==
  IF ~r.rightmost THEN LeastOf(Matching(r))
  ELSE LeastOf({q \in Matching(r) : \A x \in Matching(r) : x > q => x \in SameChild(r, q)})

(* A deletion's search returns the first entry under the name, and selectChild, when it
   returns, the entry that the selectors ask for, in any container contents, whatever
   lies on either side of the Interest's name (index.hpp:177-187). *)
SelectionIsRight ==
  search.phase = "done" =>
    search.at = IF "rightmost" \in DOMAIN search.interest
                  THEN Selected(search.interest) ELSE LeastOf(Under(search.interest.name))

(* A search returns (or meets an entry without key locator), unless it is a rightmost
   search in which nothing matches and the first child has more than one entry: then
   the bound moves to the first of them, the next round steps over it, and no later
   round meets it (index.cpp:203-223). *)
Hopeless(r) ==
  r.rightmost /\ Matching(r) = {} /\ Cardinality(SameChild(r, LeastOf(Under(r.name)))) > 1

SearchReturns ==
  (search.phase \in {"left", "right"} /\ ~Hopeless(search.interest))
    ~> (search.phase \in {"done", "crashed"})

(* The same for every Interest: find(interest) returns the ID and full name of the Entry,
   or (0, ignored) if not found (index.hpp:177-178). *)
EverySearchReturns ==
  search.phase \in {"left", "right"} ~> search.phase \in {"done", "crashed"}
=============================================================================
