---------------------------- MODULE IndexProofs ----------------------------
(***************************************************************************)
(* Proofs about SkipList and Index, for any finite or infinite set of      *)
(* names, any heights and any order of operations: every level of the      *)
(* skip list is an ascending ring of the nodes that reach so high, the     *)
(* walks end before what they look for, and the whole is a sorted set.     *)
(***************************************************************************)
EXTENDS Index, FiniteSetTheorems, NaturalsInduction, TLAPS

(* A finite set of numbers that is not empty has a largest one: by a minimal
   counterexample among its subsets. *)
LEMMA LargestOfFinite ==
  ASSUME NEW S \in SUBSET Nat, IsFiniteSet(S), S # {}
  PROVE  \E m \in S : \A k \in S : k <= m
<1> DEFINE Largest(U, m) == \A k \in U : k <= m
           bad == {U \in FiniteSubsetsOf(S) : U # {} /\ \A m \in U : ~Largest(U, m)}
<1> SUFFICES ASSUME S \in bad PROVE FALSE
  BY DEF FiniteSubsetsOf
<1>1. IsWellFoundedOn(StrictSubsetOrdering(S), FiniteSubsetsOf(S))
  BY FS_StrictSubsetOrderingWellFounded
<1>2. PICK U \in bad : \A V \in bad : <<V, U>> \notin StrictSubsetOrdering(S)
  <2>1. bad \subseteq FiniteSubsetsOf(S) /\ bad # {}
    OBVIOUS
  <2> HIDE DEF bad
  <2> QED
    BY <1>1, <2>1, WFMin
<1>3. PICK x \in U : TRUE
  BY <1>2
<1> DEFINE rest == U \ {x}
<1>4. rest \in FiniteSubsetsOf(S) /\ <<rest, U>> \in StrictSubsetOrdering(S) /\ U \subseteq Nat
  BY <1>2, <1>3, FS_Subset DEF FiniteSubsetsOf, StrictSubsetOrdering
<1>5. rest \notin bad
  BY <1>2, <1>4
<1>6. rest = {} \/ \E m \in rest : Largest(rest, m)
  BY <1>4, <1>5
<1>7. \E m \in U : Largest(U, m)
  <2>1. CASE rest = {}
    BY <1>3, <1>4, <2>1
  <2>2. ASSUME NEW m \in rest, Largest(rest, m) PROVE \E n \in U : Largest(U, n)
    BY <1>3, <1>4, <2>2
  <2> QED
    BY <1>6, <2>1, <2>2
<1> QED
  BY <1>2, <1>7

-----------------------------------------------------------------------------
(* The invariant, over any links so that it can be said of those in the middle of an
   insert too.  On each level, the next node is the least larger one, and the head when
   there is none; previous and next are inverse. *)
Reaches(nx, i, n) == n \in DOMAIN nx /\ i \in DOMAIN nx[n]

IsNext(nx, i, n, q) ==
  /\ Reaches(nx, i, q)
  /\ q # 0 => n < q
  /\ \A m \in DOMAIN nx : i \in DOMAIN nx[m] /\ n < m => q # 0 /\ q <= m

Heights(nx, pv) ==
  /\ DOMAIN nx \subseteq Nat /\ IsFiniteSet(DOMAIN nx) /\ 0 \in DOMAIN nx
  /\ DOMAIN pv = DOMAIN nx
  /\ \A n \in DOMAIN nx : \E h \in 1..(MaxLevels + 1) :
       DOMAIN nx[n] = 0..(h - 1) /\ DOMAIN pv[n] = 0..(h - 1)
  /\ \A n \in DOMAIN nx : DOMAIN nx[n] \subseteq DOMAIN nx[0]

Rings(nx, pv) ==
  \A n \in DOMAIN nx : \A i \in DOMAIN nx[n] :
    /\ IsNext(nx, i, n, nx[n][i])
    /\ Reaches(nx, i, pv[n][i]) /\ nx[pv[n][i]][i] = n

NoEmptyLevel(nx) == \A i \in DOMAIN nx[0] : i > 0 => \E n \in DOMAIN nx : n # 0 /\ i \in DOMAIN nx[n]

Linked == Heights(nexts, prevs) /\ Rings(nexts, prevs)

ListOK ==
  /\ Nodes \subseteq Key \cup {0}
  /\ Linked
  /\ NoEmptyLevel(nexts)
  /\ size = Cardinality(Nodes) - 1

(* Where x belongs on a level: after m. *)
Before(nx, i, x, m) ==
  /\ Reaches(nx, i, m)
  /\ m = 0 \/ m < x
  /\ nx[m][i] = 0 \/ x <= nx[m][i]

(* There is one such place on each level. *)
LEMMA BeforeUnique ==
  ASSUME NEW nx, NEW pv, Heights(nx, pv), Rings(nx, pv), NEW i, NEW x \in Nat,
         NEW m, NEW n, Before(nx, i, x, m), Before(nx, i, x, n)
  PROVE  m = n
<1>1. ASSUME NEW k, NEW l, Before(nx, i, x, k), Before(nx, i, x, l), k < l PROVE FALSE
  <2>1. k \in Nat /\ l \in Nat /\ Reaches(nx, i, k) /\ Reaches(nx, i, l)
    BY <1>1 DEF Before, Reaches, Heights
  <2>2. l # 0 /\ l < x
    BY <1>1, <2>1 DEF Before
  <2>3. nx[k][i] # 0 /\ nx[k][i] <= l
    BY <1>1, <2>1 DEF Rings, IsNext, Reaches
  <2>4. nx[k][i] \in Nat /\ x <= nx[k][i]
    BY <1>1, <2>1, <2>3 DEF Rings, IsNext, Reaches, Heights, Before
  <2> QED
    BY <2>1, <2>2, <2>3, <2>4
<1>2. m \in Nat /\ n \in Nat
  BY DEF Before, Reaches, Heights
<1> QED
  BY <1>1, <1>2

LEMMA BeforeExists ==
  ASSUME NEW nx, NEW pv, Heights(nx, pv), Rings(nx, pv), NEW i \in DOMAIN nx[0], NEW x \in Nat
  PROVE  \E m : Before(nx, i, x, m)
<1> DEFINE S == {n \in DOMAIN nx : i \in DOMAIN nx[n] /\ (n = 0 \/ n < x)}
<1>1. S \in SUBSET Nat /\ S # {} /\ IsFiniteSet(S)
  BY FS_Subset DEF Heights
<1>2. PICK m \in S : \A k \in S : k <= m
  BY <1>1, LargestOfFinite
<1>3. IsNext(nx, i, m, nx[m][i]) /\ m \in Nat /\ Reaches(nx, i, m)
  BY <1>1, <1>2 DEF Rings, Reaches
<1>4. nx[m][i] \in Nat
  BY <1>3 DEF IsNext, Reaches, Heights
<1>5. nx[m][i] = 0 \/ x <= nx[m][i]
  <2>1. SUFFICES ASSUME nx[m][i] # 0, nx[m][i] < x PROVE FALSE
    BY <1>4
  <2>2. nx[m][i] \in S
    BY <1>3, <2>1 DEF IsNext, Reaches
  <2> QED
    BY <1>2, <1>3, <1>4, <2>1, <2>2 DEF IsNext
<1>6. Before(nx, i, x, m)
  BY <1>2, <1>3, <1>5 DEF Before
<1> QED
  BY <1>6

(* The loop of lower_bound and insert along one level, as a function that satisfies its
   own equation: there is one, since every step goes up. *)
LEMMA WalkEquation ==
  ASSUME Linked, NEW i \in DOMAIN nexts[0], NEW x \in Nat
  PROVE  Walk(i, x) = [p \in LevelNodes(i) |->
           IF nexts[p][i] # m_head /\ nexts[p][i] < x THEN Walk(i, x)[nexts[p][i]] ELSE p]
<1> DEFINE Step(w) == [p \in LevelNodes(i) |->
             IF nexts[p][i] # m_head /\ nexts[p][i] < x THEN w[nexts[p][i]] ELSE p]
           place == CHOOSE m : Before(nexts, i, x, m)
           w == [p \in LevelNodes(i) |-> IF p = 0 \/ p < x THEN place ELSE p]
<1>1. Before(nexts, i, x, place)
  BY BeforeExists DEF Linked
<1>2. w = Step(w)
  <2>1. ASSUME NEW p \in LevelNodes(i)
        PROVE  w[p] = IF nexts[p][i] # m_head /\ nexts[p][i] < x THEN w[nexts[p][i]] ELSE p
    <3>1. p \in Nat /\ Reaches(nexts, i, p) /\ IsNext(nexts, i, p, nexts[p][i])
      BY <2>1 DEF LevelNodes, Nodes, Reaches, Linked, Rings, Heights
    <3>2. nexts[p][i] \in LevelNodes(i) /\ nexts[p][i] \in Nat
      BY <3>1 DEF IsNext, Reaches, LevelNodes, Nodes, Linked, Heights
    <3>3. CASE nexts[p][i] # 0 /\ nexts[p][i] < x
      <4>1. p < x
        BY <3>1, <3>2, <3>3 DEF IsNext
      <4> QED
        BY <3>2, <3>3, <4>1 DEF m_head
    <3>4. CASE ~(nexts[p][i] # 0 /\ nexts[p][i] < x)
      <4>1. CASE p = 0 \/ p < x
        <5>1. Before(nexts, i, x, p)
          BY <3>1, <3>2, <3>4, <4>1 DEF Before
        <5>2. place = p
          BY <1>1, <5>1, BeforeUnique DEF Linked
        <5>3. w[p] = place
          <6> HIDE DEF place
          <6> QED
            BY <2>1, <4>1
        <5> HIDE DEF w
        <5> QED
          BY <3>4, <5>2, <5>3 DEF m_head
      <4>2. CASE ~(p = 0 \/ p < x)
        BY <3>4, <4>2 DEF m_head
      <4> QED
        BY <4>1, <4>2
    <3> QED
      BY <3>3, <3>4
  <2> QED
    BY <2>1
<1>3. Walk(i, x) = CHOOSE v : v = Step(v)
  BY DEF Walk
<1> HIDE DEF w, Step, place
<1>4. Walk(i, x) = Step(Walk(i, x))
  BY <1>2, <1>3
<1> QED
  BY <1>4 DEF Step

(* From any node that lies before x the walk ends right before x. *)
LEMMA WalkEnds ==
  ASSUME Linked, NEW i \in DOMAIN nexts[0], NEW x \in Nat,
         NEW p, Reaches(nexts, i, p), p = 0 \/ p < x
  PROVE  Before(nexts, i, x, Walk(i, x)[p])
<1> DEFINE bad == {n \in Nodes : /\ i \in DOMAIN nexts[n] /\ (n = 0 \/ n < x)
                                 /\ ~Before(nexts, i, x, Walk(i, x)[n])}
<1> SUFFICES ASSUME bad # {} PROVE FALSE
  BY DEF Reaches, Nodes
<1>1. bad \in SUBSET Nat /\ IsFiniteSet(bad)
  BY FS_Subset DEF Linked, Heights, Nodes
<1>2. PICK n \in bad : \A k \in bad : k <= n
  BY <1>1, LargestOfFinite
<1>3. /\ n \in Nat /\ Reaches(nexts, i, n) /\ IsNext(nexts, i, n, nexts[n][i])
      /\ n \in LevelNodes(i) /\ (n = 0 \/ n < x) /\ ~Before(nexts, i, x, Walk(i, x)[n])
  BY <1>1, <1>2 DEF Linked, Rings, Reaches, Nodes, LevelNodes
<1>4. Reaches(nexts, i, nexts[n][i]) /\ nexts[n][i] \in Nat
  BY <1>3 DEF IsNext, Linked, Heights, Reaches
<1>5. Walk(i, x)[n] = IF nexts[n][i] # 0 /\ nexts[n][i] < x THEN Walk(i, x)[nexts[n][i]] ELSE n
  BY <1>3, WalkEquation DEF m_head
<1>6. CASE nexts[n][i] # 0 /\ nexts[n][i] < x
  <2>1. nexts[n][i] \in bad
    BY <1>3, <1>4, <1>5, <1>6 DEF Reaches, Nodes
  <2> QED
    BY <1>2, <1>3, <1>4, <1>6, <2>1 DEF IsNext
<1>7. CASE ~(nexts[n][i] # 0 /\ nexts[n][i] < x)
  <2>1. Before(nexts, i, x, n)
    BY <1>3, <1>4, <1>7 DEF Before
  <2> QED
    BY <1>3, <1>5, <1>7, <2>1
<1> QED
  BY <1>6, <1>7

(* The levels, and their number *)
LEMMA Levels ==
  ASSUME Linked
  PROVE  /\ NLevels \in Nat \ {0} /\ DOMAIN nexts[0] = 0..(NLevels - 1)
         /\ NLevels <= MaxLevels + 1
<1>1. PICK h \in 1..(MaxLevels + 1) : DOMAIN nexts[0] = 0..(h - 1)
  BY DEF Linked, Heights
<1>2. h \in Int /\ h - 1 \in Int /\ h >= 1 /\ h <= MaxLevels + 1
  BY <1>1, MaxLevelsAssumption
<1>3. Cardinality(0..(h - 1)) = h
  BY <1>2, FS_Interval
<1> QED
  BY <1>1, <1>2, <1>3 DEF NLevels, m_head

LEMMA PositionsEquation ==
  ASSUME Linked, NEW x \in Nat
  PROVE  Positions(x) = [i \in 0..(NLevels - 1) |->
           Walk(i, x)[IF i = NLevels - 1 THEN m_head ELSE Positions(x)[i + 1]]]
<1> DEFINE Step(w) == [i \in 0..(NLevels - 1) |->
             Walk(i, x)[IF i = NLevels - 1 THEN m_head ELSE w[i + 1]]]
           place(i) == CHOOSE m : Before(nexts, i, x, m)
           w == [i \in 0..(NLevels - 1) |-> place(i)]
<1>0. NLevels \in Nat \ {0} /\ DOMAIN nexts[0] = 0..(NLevels - 1)
  BY Levels
<1>1. ASSUME NEW i \in 0..(NLevels - 1) PROVE Before(nexts, i, x, place(i))
  BY <1>0, <1>1, BeforeExists DEF Linked
<1>2. ASSUME NEW i \in 0..(NLevels - 1)
      PROVE  w[i] = Walk(i, x)[IF i = NLevels - 1 THEN m_head ELSE w[i + 1]]
  <2> DEFINE start == IF i = NLevels - 1 THEN m_head ELSE w[i + 1]
  <2>1. Reaches(nexts, i, start) /\ (start = 0 \/ start < x)
    <3>1. CASE i = NLevels - 1
      BY <1>0, <3>1 DEF m_head, Reaches, Linked, Heights
    <3>2. CASE i # NLevels - 1
      <4>1. i + 1 \in 0..(NLevels - 1)
        BY <1>0, <3>2
      <4>2. start = place(i + 1) /\ Before(nexts, i + 1, x, start)
        BY <1>1, <3>2, <4>1
      <4>3. Reaches(nexts, i + 1, start)
        BY <4>2 DEF Before
      <4>4. Reaches(nexts, i, start)
        <5>1. PICK h \in 1..(MaxLevels + 1) : DOMAIN nexts[start] = 0..(h - 1)
          BY <4>3 DEF Linked, Heights, Reaches
        <5>2. h \in Int /\ i \in Nat
          BY <1>0, <5>1
        <5> QED
          BY <4>3, <5>1, <5>2 DEF Reaches
      <4> QED
        BY <4>2, <4>4 DEF Before
    <3> QED
      BY <3>1, <3>2
  <2>2. Before(nexts, i, x, Walk(i, x)[start])
    BY <1>0, <2>1, WalkEnds
  <2>3. place(i) = Walk(i, x)[start]
    BY <1>1, <2>2, BeforeUnique DEF Linked
  <2> QED
    BY <2>3
<1>3. w = Step(w)
  <2> HIDE DEF place
  <2> QED
    BY <1>2
<1>4. Positions(x) = CHOOSE v : v = Step(v)
  BY DEF Positions
<1> HIDE DEF w, Step, place
<1>5. Positions(x) = Step(Positions(x))
  BY <1>3, <1>4
<1> QED
  BY <1>5 DEF Step

(* On every level the search stops right before x. *)
LEMMA PositionsBefore ==
  ASSUME Linked, NEW x \in Nat, NEW i \in 0..(NLevels - 1)
  PROVE  Before(nexts, i, x, Positions(x)[i])
<1>0. NLevels \in Nat \ {0} /\ DOMAIN nexts[0] = 0..(NLevels - 1)
  BY Levels
<1> DEFINE bad == {k \in 0..(NLevels - 1) : ~Before(nexts, k, x, Positions(x)[k])}
<1> SUFFICES ASSUME bad # {} PROVE FALSE
  OBVIOUS
<1>1. bad \in SUBSET Nat /\ IsFiniteSet(bad)
  <2>1. IsFiniteSet(0..(NLevels - 1))
    BY <1>0, FS_Interval
  <2> QED
    BY <1>0, <2>1, FS_Subset
<1>2. PICK k \in bad : \A l \in bad : l <= k
  BY <1>1, LargestOfFinite
<1> DEFINE start == IF k = NLevels - 1 THEN m_head ELSE Positions(x)[k + 1]
<1>3. Positions(x)[k] = Walk(k, x)[start]
  BY <1>2, PositionsEquation
<1>4. Reaches(nexts, k, start) /\ (start = 0 \/ start < x)
  <2>1. CASE k = NLevels - 1
    BY <1>0, <1>2, <2>1 DEF m_head, Reaches, Linked, Heights
  <2>2. CASE k # NLevels - 1
    <3>1. k + 1 \in 0..(NLevels - 1) /\ k + 1 \notin bad
      BY <1>0, <1>1, <1>2, <2>2
    <3>2. Before(nexts, k + 1, x, start)
      BY <2>2, <3>1
    <3>3. PICK h \in 1..(MaxLevels + 1) : DOMAIN nexts[start] = 0..(h - 1)
      BY <3>2 DEF Linked, Heights, Reaches, Before
    <3>4. h \in Int /\ k \in Nat
      BY <1>0, <1>2, <3>3
    <3> QED
      BY <3>2, <3>3, <3>4 DEF Reaches, Before
  <2> QED
    BY <2>1, <2>2
<1>5. Before(nexts, k, x, Walk(k, x)[start])
  BY <1>0, <1>2, <1>4, WalkEnds
<1> QED
  BY <1>2, <1>3, <1>5

(* lower_bound returns the first entry that is not smaller, or the head. *)
LEMMA LowerBoundIsLeast ==
  ASSUME Linked, NEW x \in Nat
  PROVE  /\ LowerBound(x) \in Nodes
         /\ LowerBound(x) # 0 => x <= LowerBound(x)
         /\ \A y \in Nodes : y # 0 /\ x <= y => LowerBound(x) # 0 /\ LowerBound(x) <= y
<1>0. NLevels \in Nat \ {0} /\ 0 \in 0..(NLevels - 1) /\ DOMAIN nexts[0] = 0..(NLevels - 1)
  BY Levels
<1>1. PICK m : m = Positions(x)[0]
  OBVIOUS
<1>2. Before(nexts, 0, x, m) /\ LowerBound(x) = nexts[m][0]
  BY <1>0, <1>1, PositionsBefore DEF LowerBound
<1>3. m \in Nat /\ IsNext(nexts, 0, m, nexts[m][0])
  BY <1>2 DEF Before, Reaches, Linked, Rings, Heights
<1>4. \A y \in Nodes : 0 \in DOMAIN nexts[y] /\ y \in Nat
  BY DEF Linked, Heights, Nodes
<1>5. ASSUME NEW y \in Nodes, y # 0, x <= y PROVE nexts[m][0] # 0 /\ nexts[m][0] <= y
  <2>1. m < y
    BY <1>2, <1>3, <1>4, <1>5 DEF Before
  <2> QED
    BY <1>3, <1>4, <2>1 DEF IsNext, Nodes
<1> QED
  BY <1>2, <1>3, <1>5 DEF Before, IsNext, Reaches, Nodes

-----------------------------------------------------------------------------
(* A new node between the places before it and what follows them, on each of its
   levels, leaves the levels in order. *)
SplicedNexts(nx, x, height, pos) ==
  [n \in DOMAIN nx \cup {x} |->
     IF n = x THEN [i \in 0..(height - 1) |-> nx[pos[i]][i]]
     ELSE [i \in DOMAIN nx[n] |-> IF i < height /\ pos[i] = n THEN x ELSE nx[n][i]]]
SplicedPrevs(nx, pv, x, height, pos) ==
  [n \in DOMAIN nx \cup {x} |->
     IF n = x THEN [i \in 0..(height - 1) |-> pos[i]]
     ELSE [i \in DOMAIN pv[n] |-> IF i < height /\ nx[pos[i]][i] = n THEN x ELSE pv[n][i]]]

LEMMA SplicedOK ==
  ASSUME NEW nx, NEW pv, Heights(nx, pv), Rings(nx, pv),
         NEW x \in Nat \ {0}, x \notin DOMAIN nx,
         NEW height \in 1..(MaxLevels + 1), 0..(height - 1) \subseteq DOMAIN nx[0],
         NEW pos, \A i \in 0..(height - 1) : Before(nx, i, x, pos[i])
  PROVE  /\ Heights(SplicedNexts(nx, x, height, pos), SplicedPrevs(nx, pv, x, height, pos))
         /\ Rings(SplicedNexts(nx, x, height, pos), SplicedPrevs(nx, pv, x, height, pos))
<1> DEFINE nx2 == SplicedNexts(nx, x, height, pos)
           pv2 == SplicedPrevs(nx, pv, x, height, pos)
<1>1. /\ DOMAIN nx2 = DOMAIN nx \cup {x} /\ DOMAIN pv2 = DOMAIN nx \cup {x}
      /\ DOMAIN nx2[x] = 0..(height - 1) /\ DOMAIN pv2[x] = 0..(height - 1)
      /\ \A i \in 0..(height - 1) : nx2[x][i] = nx[pos[i]][i] /\ pv2[x][i] = pos[i]
  BY DEF SplicedNexts, SplicedPrevs
<1>2. ASSUME NEW n \in DOMAIN nx
      PROVE  /\ DOMAIN nx2[n] = DOMAIN nx[n] /\ DOMAIN pv2[n] = DOMAIN pv[n]
             /\ DOMAIN pv[n] = DOMAIN nx[n] /\ DOMAIN nx[n] \subseteq Nat
             /\ \A i \in DOMAIN nx[n] :
                  /\ nx2[n][i] = IF i < height /\ pos[i] = n THEN x ELSE nx[n][i]
                  /\ pv2[n][i] = IF i < height /\ nx[pos[i]][i] = n THEN x ELSE pv[n][i]
  <2>1. PICK h \in 1..(MaxLevels + 1) : DOMAIN nx[n] = 0..(h - 1) /\ DOMAIN pv[n] = 0..(h - 1)
    BY DEF Heights
  <2>2. DOMAIN nx[n] = DOMAIN pv[n] /\ DOMAIN nx[n] \subseteq Nat
    BY <2>1
  <2>3. n # x
    OBVIOUS
  <2> QED
    BY <2>2, <2>3 DEF SplicedNexts, SplicedPrevs
<1>3. \A n \in DOMAIN nx : n \in Nat
  BY DEF Heights
<1>4. 0 \in DOMAIN nx /\ x \in Nat /\ x > 0 /\ height \in Nat
  BY MaxLevelsAssumption DEF Heights
<1> HIDE DEF nx2, pv2
<1>5. Heights(nx2, pv2)
  <2>1. DOMAIN nx2 \subseteq Nat /\ IsFiniteSet(DOMAIN nx2) /\ 0 \in DOMAIN nx2
    BY <1>1, <1>3, <1>4, FS_AddElement DEF Heights
  <2>2. ASSUME NEW n \in DOMAIN nx2
        PROVE  \E h \in 1..(MaxLevels + 1) :
                 DOMAIN nx2[n] = 0..(h - 1) /\ DOMAIN pv2[n] = 0..(h - 1)
    BY <1>1, <1>2 DEF Heights
  <2>3. ASSUME NEW n \in DOMAIN nx2 PROVE DOMAIN nx2[n] \subseteq DOMAIN nx2[0]
    BY <1>1, <1>2, <1>4 DEF Heights
  <2> QED
    BY <1>1, <2>1, <2>2, <2>3 DEF Heights
<1>6. ASSUME NEW i \in 0..(height - 1)
      PROVE  /\ pos[i] \in DOMAIN nx /\ i \in DOMAIN nx[pos[i]] /\ pos[i] < x
             /\ IsNext(nx, i, pos[i], nx[pos[i]][i])
             /\ nx[pos[i]][i] \in DOMAIN nx /\ i \in DOMAIN nx[nx[pos[i]][i]]
             /\ nx[pos[i]][i] = 0 \/ x < nx[pos[i]][i]
  <2>1. Before(nx, i, x, pos[i])
    OBVIOUS
  <2>2. pos[i] \in DOMAIN nx /\ i \in DOMAIN nx[pos[i]] /\ pos[i] < x
    BY <1>4, <2>1 DEF Before, Reaches
  <2>3. IsNext(nx, i, pos[i], nx[pos[i]][i])
    BY <2>2 DEF Rings
  <2>4. nx[pos[i]][i] \in DOMAIN nx /\ i \in DOMAIN nx[nx[pos[i]][i]]
    BY <2>3 DEF IsNext, Reaches
  <2>5. nx[pos[i]][i] = 0 \/ x < nx[pos[i]][i]
    BY <1>3, <1>4, <2>1, <2>4 DEF Before
  <2> QED
    BY <2>2, <2>3, <2>4, <2>5
<1>7. ASSUME NEW i, NEW n \in DOMAIN nx2, i \in DOMAIN nx2[n]
      PROVE  /\ n = x => i \in 0..(height - 1)
             /\ n # x => n \in DOMAIN nx /\ i \in DOMAIN nx[n]
             /\ i \in Nat
  BY <1>1, <1>2, <1>4, <1>7
<1>8. ASSUME NEW i, NEW n \in DOMAIN nx, i \in DOMAIN nx[n] PROVE Reaches(nx2, i, n)
  BY <1>1, <1>2, <1>8 DEF Reaches
<1>9. ASSUME NEW n \in DOMAIN nx2, NEW i \in DOMAIN nx2[n] PROVE IsNext(nx2, i, n, nx2[n][i])
  <2>1. CASE n = x
    <3>1. i \in 0..(height - 1) /\ nx2[n][i] = nx[pos[i]][i]
      BY <1>1, <1>7, <2>1
    <3>2. ASSUME NEW m \in DOMAIN nx2, i \in DOMAIN nx2[m], n < m
          PROVE  nx[pos[i]][i] # 0 /\ nx[pos[i]][i] <= m
      <4>1. m \in DOMAIN nx /\ i \in DOMAIN nx[m]
        BY <1>4, <1>7, <2>1, <3>2
      <4>2. pos[i] < m
        BY <1>3, <1>4, <1>6, <2>1, <3>1, <3>2, <4>1
      <4> QED
        BY <1>6, <3>1, <4>1, <4>2 DEF IsNext
    <3> QED
      BY <1>6, <1>8, <2>1, <3>1, <3>2 DEF IsNext
  <2>2. CASE n # x /\ i < height /\ pos[i] = n
    <3>1. n \in DOMAIN nx /\ i \in DOMAIN nx[n] /\ i \in 0..(height - 1) /\ nx2[n][i] = x
      BY <1>2, <1>4, <1>7, <2>2
    <3>2. Reaches(nx2, i, x) /\ n < x
      BY <1>1, <1>6, <2>2, <3>1 DEF Reaches
    <3>3. ASSUME NEW m \in DOMAIN nx2, i \in DOMAIN nx2[m], n < m PROVE x <= m
      <4>1. CASE m = x
        BY <1>4, <4>1
      <4>2. CASE m # x
        <5>1. m \in DOMAIN nx /\ i \in DOMAIN nx[m]
          BY <1>7, <3>3, <4>2
        <5>2. nx[pos[i]][i] # 0 /\ nx[pos[i]][i] <= m
          BY <1>6, <2>2, <3>1, <3>3, <5>1 DEF IsNext
        <5> QED
          BY <1>3, <1>4, <1>6, <3>1, <5>1, <5>2
      <4> QED
        BY <4>1, <4>2
    <3> QED
      BY <1>4, <3>1, <3>2, <3>3 DEF IsNext
  <2>3. CASE n # x /\ ~(i < height /\ pos[i] = n)
    <3>1. n \in DOMAIN nx /\ i \in DOMAIN nx[n] /\ nx2[n][i] = nx[n][i]
      BY <1>2, <1>7, <2>3
    <3>2. IsNext(nx, i, n, nx[n][i]) /\ nx[n][i] \in DOMAIN nx /\ i \in DOMAIN nx[nx[n][i]]
      BY <3>1 DEF Rings, IsNext, Reaches
    <3>3. ASSUME NEW m \in DOMAIN nx2, i \in DOMAIN nx2[m], n < m
          PROVE  nx[n][i] # 0 /\ nx[n][i] <= m
      <4>1. CASE m # x
        BY <1>7, <3>2, <3>3, <4>1 DEF IsNext
      <4>2. CASE m = x
        <5>1. i \in 0..(height - 1) /\ i < height /\ pos[i] # n
          BY <1>4, <1>7, <2>3, <3>3, <4>2
        <5>2. pos[i] \in Nat /\ n \in Nat /\ nx[n][i] \in Nat /\ nx[pos[i]][i] \in Nat
          BY <1>3, <1>6, <3>1, <3>2, <5>1
        <5>3. CASE n < pos[i]
          <6>1. nx[n][i] # 0 /\ nx[n][i] <= pos[i] /\ pos[i] < x
            BY <1>6, <3>2, <5>1, <5>3 DEF IsNext
          <6> QED
            BY <1>4, <4>2, <5>2, <6>1
        <5>4. CASE pos[i] < n
          <6>1. nx[pos[i]][i] # 0 /\ nx[pos[i]][i] <= n
            BY <1>6, <3>1, <5>1, <5>4 DEF IsNext
          <6>2. x < nx[pos[i]][i]
            BY <1>6, <5>1, <6>1
          <6> QED
            BY <1>4, <3>3, <4>2, <5>2, <6>1, <6>2
        <5> QED
          BY <5>1, <5>2, <5>3, <5>4
      <4> QED
        BY <4>1, <4>2
    <3>4. Reaches(nx2, i, nx[n][i])
      BY <1>8, <3>2
    <3> QED
      BY <3>1, <3>2, <3>3, <3>4 DEF IsNext
  <2> QED
    BY <2>1, <2>2, <2>3
<1>10. ASSUME NEW n \in DOMAIN nx2, NEW i \in DOMAIN nx2[n]
       PROVE  Reaches(nx2, i, pv2[n][i]) /\ nx2[pv2[n][i]][i] = n
  <2>1. CASE n = x
    <3>1. i \in 0..(height - 1) /\ pv2[n][i] = pos[i] /\ i < height
      BY <1>1, <1>4, <1>7, <2>1
    <3> QED
      BY <1>2, <1>6, <1>8, <2>1, <3>1
  <2>2. CASE n # x /\ i < height /\ nx[pos[i]][i] = n
    <3>1. n \in DOMAIN nx /\ i \in DOMAIN nx[n] /\ i \in 0..(height - 1) /\ pv2[n][i] = x
      BY <1>2, <1>4, <1>7, <2>2
    <3> QED
      BY <1>1, <2>2, <3>1 DEF Reaches
  <2>3. CASE n # x /\ ~(i < height /\ nx[pos[i]][i] = n)
    <3>1. n \in DOMAIN nx /\ i \in DOMAIN nx[n] /\ pv2[n][i] = pv[n][i]
      BY <1>2, <1>7, <2>3
    <3>2. pv[n][i] \in DOMAIN nx /\ i \in DOMAIN nx[pv[n][i]] /\ nx[pv[n][i]][i] = n
      BY <3>1 DEF Rings, Reaches
    <3>3. ~(i < height /\ pos[i] = pv[n][i])
      BY <2>3, <3>2
    <3> QED
      BY <1>2, <1>8, <3>1, <3>2, <3>3
  <2> QED
    BY <2>1, <2>2, <2>3
<1>11. Rings(nx2, pv2)
  BY <1>9, <1>10 DEF Rings
<1> QED
  BY <1>5, <1>11 DEF nx2, pv2

-----------------------------------------------------------------------------
(* The head's new levels have nothing on them yet. *)
LEMMA GrownOK ==
  ASSUME Linked, NEW height \in 1..(MaxLevels + 1)
  PROVE  LET nx == [nexts EXCEPT ![m_head] = Grown(@, height)]
             pv == [prevs EXCEPT ![m_head] = Grown(@, height)]
         IN  /\ Heights(nx, pv) /\ Rings(nx, pv)
             /\ DOMAIN nx = Nodes /\ DOMAIN nx[0] = DOMAIN nexts[0] \cup 0..(height - 1)
             /\ \A n \in Nodes \ {0} : DOMAIN nx[n] = DOMAIN nexts[n]
             /\ \A n \in Nodes : \A i \in DOMAIN nexts[n] : nx[n][i] = nexts[n][i]
             /\ \A i \in 0..(height - 1) : i \notin DOMAIN nexts[0] => nx[0][i] = 0
<1> DEFINE nx == [nexts EXCEPT ![m_head] = Grown(@, height)]
           pv == [prevs EXCEPT ![m_head] = Grown(@, height)]
<1>1. /\ NLevels \in Nat \ {0} /\ NLevels <= MaxLevels + 1
      /\ DOMAIN nexts[0] = 0..(NLevels - 1) /\ DOMAIN prevs[0] = 0..(NLevels - 1)
  <2>1. PICK h \in 1..(MaxLevels + 1) : DOMAIN nexts[0] = 0..(h - 1) /\ DOMAIN prevs[0] = 0..(h - 1)
    BY DEF Linked, Heights
  <2> QED
    BY <2>1, Levels
<1>2. 0 \in Nodes /\ DOMAIN nexts = Nodes /\ DOMAIN prevs = Nodes /\ Nodes \subseteq Nat
  BY DEF Linked, Heights, Nodes
<1>3. /\ DOMAIN nx = Nodes /\ DOMAIN pv = Nodes
      /\ nx[0] = Grown(nexts[0], height) /\ pv[0] = Grown(prevs[0], height)
      /\ \A n \in Nodes \ {0} : nx[n] = nexts[n] /\ pv[n] = prevs[n]
  BY <1>2 DEF m_head
<1>4. /\ DOMAIN nx[0] = DOMAIN nexts[0] \cup 0..(height - 1) /\ DOMAIN pv[0] = DOMAIN nx[0]
      /\ \A i \in DOMAIN nx[0] : /\ nx[0][i] = IF i \in DOMAIN nexts[0] THEN nexts[0][i] ELSE 0
                                 /\ pv[0][i] = IF i \in DOMAIN nexts[0] THEN prevs[0][i] ELSE 0
  BY <1>1, <1>3 DEF Grown, m_head
<1> HIDE DEF nx, pv
<1>5. ASSUME NEW n \in Nodes PROVE DOMAIN nexts[n] \subseteq DOMAIN nx[n]
  BY <1>3, <1>4
<1>6. ASSUME NEW n \in Nodes, NEW i \in DOMAIN nexts[n]
      PROVE  nx[n][i] = nexts[n][i] /\ pv[n][i] = prevs[n][i]
  BY <1>3, <1>4, <1>6
<1>7. Heights(nx, pv)
  <2>1. ASSUME NEW n \in Nodes
        PROVE  \E h \in 1..(MaxLevels + 1) : DOMAIN nx[n] = 0..(h - 1) /\ DOMAIN pv[n] = 0..(h - 1)
    <3>1. CASE n = 0
      <4> DEFINE h == IF height <= NLevels THEN NLevels ELSE height
      <4>1. h \in 1..(MaxLevels + 1) /\ 0..(NLevels - 1) \cup 0..(height - 1) = 0..(h - 1)
        BY <1>1, MaxLevelsAssumption
      <4> QED
        BY <1>1, <1>4, <3>1, <4>1
    <3>2. CASE n # 0
      BY <1>3, <3>2 DEF Linked, Heights, Nodes
    <3> QED
      BY <3>1, <3>2
  <2>2. ASSUME NEW n \in Nodes PROVE DOMAIN nx[n] \subseteq DOMAIN nx[0]
    BY <1>3, <1>4 DEF Linked, Heights, Nodes
  <2>3. IsFiniteSet(Nodes)
    BY DEF Linked, Heights, Nodes
  <2> QED
    BY <1>2, <1>3, <2>1, <2>2, <2>3 DEF Heights
<1>8. ASSUME NEW n \in Nodes, NEW i \in DOMAIN nx[n]
      PROVE  IsNext(nx, i, n, nx[n][i]) /\ Reaches(nx, i, pv[n][i]) /\ nx[pv[n][i]][i] = n
  <2>1. CASE i \in DOMAIN nexts[n]
    <3>1. /\ IsNext(nexts, i, n, nexts[n][i]) /\ nexts[n][i] \in Nodes /\ i \in DOMAIN nexts[nexts[n][i]]
          /\ prevs[n][i] \in Nodes /\ i \in DOMAIN nexts[prevs[n][i]] /\ nexts[prevs[n][i]][i] = n
      BY <2>1 DEF Linked, Rings, IsNext, Reaches, Nodes
    <3>2. ASSUME NEW m \in Nodes, i \in DOMAIN nx[m], n < m PROVE i \in DOMAIN nexts[m]
      <4>1. i \in DOMAIN nexts[0]
        BY <2>1 DEF Linked, Heights, Nodes
      <4> QED
        BY <1>3, <3>2, <4>1
    <3>3. Reaches(nx, i, nexts[n][i]) /\ Reaches(nx, i, prevs[n][i])
      BY <1>3, <1>5, <3>1 DEF Reaches
    <3> QED
      BY <1>3, <1>6, <2>1, <3>1, <3>2, <3>3 DEF IsNext, Nodes
  <2>2. CASE i \notin DOMAIN nexts[n]
    <3>1. n = 0 /\ i \notin DOMAIN nexts[0] /\ nx[0][i] = 0 /\ pv[0][i] = 0
      BY <1>3, <1>4, <2>2
    <3>2. ASSUME NEW m \in Nodes, i \in DOMAIN nx[m] PROVE m = 0
      BY <1>3, <3>1, <3>2 DEF Linked, Heights, Nodes
    <3>3. Reaches(nx, i, 0)
      BY <1>2, <1>3, <3>1 DEF Reaches
    <3>4. IsNext(nx, i, 0, 0)
      BY <1>3, <3>2, <3>3 DEF IsNext
    <3> QED
      BY <3>1, <3>3, <3>4
  <2> QED
    BY <2>1, <2>2
<1>9. Rings(nx, pv)
  BY <1>3, <1>8 DEF Rings
<1>10. /\ DOMAIN nx = Nodes /\ DOMAIN nx[0] = DOMAIN nexts[0] \cup 0..(height - 1)
       /\ \A n \in Nodes \ {0} : DOMAIN nx[n] = DOMAIN nexts[n]
       /\ \A n \in Nodes : \A i \in DOMAIN nexts[n] : nx[n][i] = nexts[n][i]
       /\ \A i \in 0..(height - 1) : i \notin DOMAIN nexts[0] => nx[0][i] = 0
  BY <1>3, <1>4, <1>6
<1> QED
  BY <1>7, <1>9, <1>10 DEF nx, pv

(* insert of an element that is not there *)
LEMMA LinkOK ==
  ASSUME ListOK, NEW x \in Key, NEW level \in 0..MaxLevels, LowerBound(x) # x, Insert(x, level)
  PROVE  ListOK' /\ Nodes' = Nodes \cup {x} /\ x \notin Nodes
<1> DEFINE height == level + 1
           nx == [nexts EXCEPT ![m_head] = Grown(@, height)]
           pv == [prevs EXCEPT ![m_head] = Grown(@, height)]
           pos == Grown(Positions(x), height)
<1>1. x \in Nat \ {0} /\ height \in 1..(MaxLevels + 1) /\ height - 1 = level
  BY KeyAssumption, MaxLevelsAssumption
<1>2. Linked /\ Nodes \subseteq Nat /\ IsFiniteSet(Nodes) /\ 0 \in Nodes
  BY DEF ListOK, Linked, Heights, Nodes
<1>3. x \notin Nodes
  <2>1. SUFFICES ASSUME x \in Nodes PROVE FALSE
    OBVIOUS
  <2>2. LowerBound(x) # 0 /\ LowerBound(x) <= x /\ x <= LowerBound(x) /\ LowerBound(x) \in Nat
    <3>1. x # 0 /\ x <= x /\ x \in Nat
      BY <1>1
    <3>2. /\ LowerBound(x) \in Nodes
          /\ LowerBound(x) # 0 => x <= LowerBound(x)
          /\ \A y \in Nodes : y # 0 /\ x <= y => LowerBound(x) # 0 /\ LowerBound(x) <= y
      BY <1>2, <3>1, LowerBoundIsLeast
    <3> QED
      BY <1>2, <2>1, <3>1, <3>2
  <2> QED
    BY <1>1, <2>2
<1> HIDE DEF height
<1>4. /\ Heights(nx, pv) /\ Rings(nx, pv)
      /\ DOMAIN nx = Nodes /\ DOMAIN nx[0] = DOMAIN nexts[0] \cup 0..(height - 1)
      /\ \A n \in Nodes \ {0} : DOMAIN nx[n] = DOMAIN nexts[n]
      /\ \A n \in Nodes : \A i \in DOMAIN nexts[n] : nx[n][i] = nexts[n][i]
      /\ \A i \in 0..(height - 1) : i \notin DOMAIN nexts[0] => nx[0][i] = 0
  BY <1>1, <1>2, GrownOK
<1>5. NLevels \in Nat \ {0} /\ DOMAIN nexts[0] = 0..(NLevels - 1)
  BY <1>2, Levels
<1>6. DOMAIN Positions(x) = DOMAIN nexts[0]
  BY <1>1, <1>2, <1>5, PositionsEquation
<1>7. ASSUME NEW i \in 0..(height - 1)
      PROVE  pos[i] = IF i \in DOMAIN nexts[0] THEN Positions(x)[i] ELSE 0
  BY <1>6 DEF Grown, m_head
<1>8. Link(x, height, pos) /\ size' = size + 1
  BY DEF Insert, height
<1> HIDE DEF nx, pv, pos
<1>9. ASSUME NEW i \in 0..(height - 1) PROVE Before(nx, i, x, pos[i])
  <2>1. CASE i \in DOMAIN nexts[0]
    <3>1. Before(nexts, i, x, pos[i])
      BY <1>1, <1>2, <1>5, <1>7, <2>1, PositionsBefore
    <3>2. pos[i] \in Nodes /\ i \in DOMAIN nexts[pos[i]]
      BY <3>1 DEF Before, Reaches, Nodes
    <3>3. i \in DOMAIN nx[pos[i]]
      BY <1>4, <2>1, <3>2
    <3> QED
      BY <1>4, <3>1, <3>2, <3>3 DEF Before, Reaches
  <2>2. CASE i \notin DOMAIN nexts[0]
    BY <1>2, <1>4, <1>7, <2>2 DEF Before, Reaches
  <2> QED
    BY <2>1, <2>2
<1>10. nexts' = SplicedNexts(nx, x, height, pos) /\ prevs' = SplicedPrevs(nx, pv, x, height, pos)
  <2> DEFINE new == [i \in 0..(height - 1) |-> nx[pos[i]][i]]
  <2>1. /\ nexts' = [n \in Nodes \cup {x} |->
             IF n = x THEN new
             ELSE [i \in DOMAIN nx[n] |-> IF i < height /\ pos[i] = n THEN x ELSE nx[n][i]]]
        /\ prevs' = [n \in Nodes \cup {x} |->
             IF n = x THEN [i \in 0..(height - 1) |-> pos[i]]
             ELSE [i \in DOMAIN pv[n] |-> IF i < height /\ new[i] = n THEN x ELSE pv[n][i]]]
    BY <1>8 DEF Link, nx, pv
  <2>2. ASSUME NEW n \in Nodes, NEW i \in DOMAIN pv[n]
        PROVE  (i < height /\ new[i] = n) <=> (i < height /\ nx[pos[i]][i] = n)
    <3>1. i \in Nat
      <4>1. PICK h \in 1..(MaxLevels + 1) : DOMAIN pv[n] = 0..(h - 1)
        BY <1>4 DEF Heights
      <4> QED
        BY <4>1
    <3>2. i < height => i \in 0..(height - 1)
      BY <1>1, <3>1
    <3> QED
      BY <3>2
  <2> HIDE DEF new
  <2>3. ASSUME NEW n \in Nodes
        PROVE  [i \in DOMAIN pv[n] |-> IF i < height /\ new[i] = n THEN x ELSE pv[n][i]]
               = [i \in DOMAIN pv[n] |-> IF i < height /\ nx[pos[i]][i] = n THEN x ELSE pv[n][i]]
    BY <2>2
  <2>4. prevs' = SplicedPrevs(nx, pv, x, height, pos)
    BY <1>3, <1>4, <2>1, <2>3 DEF SplicedPrevs
  <2>5. nexts' = SplicedNexts(nx, x, height, pos)
    BY <1>4, <2>1 DEF SplicedNexts, new
  <2> QED
    BY <2>4, <2>5
<1>11. Heights(nexts', prevs') /\ Rings(nexts', prevs')
  BY <1>1, <1>3, <1>4, <1>9, <1>10, SplicedOK
<1>12. /\ DOMAIN nexts' = Nodes \cup {x} /\ DOMAIN nexts'[x] = 0..(height - 1)
       /\ \A n \in Nodes : DOMAIN nexts'[n] = DOMAIN nx[n]
  BY <1>3, <1>4, <1>10 DEF SplicedNexts
<1>13. NoEmptyLevel(nexts')
  <2>1. SUFFICES ASSUME NEW i \in DOMAIN nexts'[0], i > 0
                 PROVE  \E n \in DOMAIN nexts' : n # 0 /\ i \in DOMAIN nexts'[n]
    BY DEF NoEmptyLevel
  <2>2. CASE i \in 0..(height - 1)
    BY <1>1, <1>12, <2>2
  <2>3. CASE i \notin 0..(height - 1)
    <3>1. i \in DOMAIN nexts[0]
      BY <1>2, <1>4, <1>12, <2>3
    <3>2. PICK n \in Nodes : n # 0 /\ i \in DOMAIN nexts[n]
      BY <2>1, <3>1 DEF ListOK, NoEmptyLevel, Nodes
    <3> QED
      BY <1>4, <1>12, <3>2
  <2> QED
    BY <2>2, <2>3
<1>14. size' = Cardinality(Nodes \cup {x}) - 1
  <2>1. Cardinality(Nodes) \in Nat /\ Cardinality(Nodes \cup {x}) = Cardinality(Nodes) + 1
    BY <1>2, <1>3, FS_AddElement, FS_CardinalityType
  <2> QED
    BY <1>8, <2>1 DEF ListOK
<1> QED
  BY <1>3, <1>11, <1>12, <1>13, <1>14 DEF ListOK, Linked, Nodes

(* What the links of a level say of its nodes *)
LEMMA LinkTypes ==
  ASSUME Linked, NEW n \in Nodes, NEW i \in DOMAIN nexts[n]
  PROVE  /\ n \in Nat /\ i \in Nat /\ i \in DOMAIN nexts[0] /\ i \in DOMAIN prevs[n]
         /\ nexts[n][i] \in Nodes /\ nexts[n][i] \in Nat /\ i \in DOMAIN nexts[nexts[n][i]]
         /\ prevs[n][i] \in Nodes /\ prevs[n][i] \in Nat /\ i \in DOMAIN nexts[prevs[n][i]]
         /\ nexts[prevs[n][i]][i] = n
         /\ nexts[n][i] # 0 => n < nexts[n][i]
         /\ \A m \in Nodes : i \in DOMAIN nexts[m] /\ n < m => nexts[n][i] # 0 /\ nexts[n][i] <= m
         /\ nexts[n][i] = n => n = 0
<1>1. PICK h \in 1..(MaxLevels + 1) : DOMAIN nexts[n] = 0..(h - 1) /\ DOMAIN prevs[n] = 0..(h - 1)
  BY DEF Linked, Heights, Nodes
<1>2. i \in Nat /\ i \in DOMAIN nexts[0] /\ i \in DOMAIN prevs[n] /\ Nodes \subseteq Nat
  BY <1>1 DEF Linked, Heights, Nodes
<1>3. /\ IsNext(nexts, i, n, nexts[n][i])
      /\ Reaches(nexts, i, prevs[n][i]) /\ nexts[prevs[n][i]][i] = n
  BY DEF Linked, Rings, Nodes
<1>4. /\ nexts[n][i] \in Nodes /\ i \in DOMAIN nexts[nexts[n][i]]
      /\ prevs[n][i] \in Nodes /\ i \in DOMAIN nexts[prevs[n][i]]
      /\ nexts[n][i] # 0 => n < nexts[n][i]
      /\ \A m \in Nodes : i \in DOMAIN nexts[m] /\ n < m => nexts[n][i] # 0 /\ nexts[n][i] <= m
  BY <1>3 DEF IsNext, Reaches, Nodes
<1>5. n \in Nat /\ nexts[n][i] \in Nat /\ prevs[n][i] \in Nat
  BY <1>2, <1>4
<1>6. nexts[n][i] = n => n = 0
  BY <1>4, <1>5
<1> QED
  BY <1>2, <1>3, <1>4, <1>5, <1>6

(* A level is one that erasing x leaves empty when x is its only node. *)
LEMMA EmptiedIsAlone ==
  ASSUME ListOK, NEW x \in Nodes \ {0}, NEW i \in DOMAIN nexts[0], i > 0
  PROVE  i \in Emptied(x) <=> \A n \in Nodes : i \in DOMAIN nexts[n] => n \in {0, x}
<1>0. Linked /\ 0 \in Nodes
  BY DEF ListOK, Linked, Heights, Nodes
<1>1. ASSUME i \in DOMAIN nexts[x], nexts[x][i] = prevs[x][i],
             NEW n \in Nodes, i \in DOMAIN nexts[n], n # 0
      PROVE  n = x
  <2> DEFINE q == nexts[x][i]
  <2>1. q = 0
    <3>1. SUFFICES ASSUME q # 0 PROVE FALSE
      OBVIOUS
    <3>2. x \in Nat /\ q \in Nodes /\ q \in Nat /\ i \in DOMAIN nexts[q] /\ x < q /\ nexts[q][i] = x
      BY <1>0, <1>1, <3>1, LinkTypes
    <3>3. q < x
      <4> HIDE DEF q
      <4> QED
        BY <1>0, <3>2, LinkTypes
    <3> QED
      BY <3>2, <3>3
  <2>2. nexts[x][i] = 0 /\ nexts[0][i] = x
    BY <1>0, <1>1, <2>1, LinkTypes
  <2>3. x \in Nat /\ n \in Nat /\ ~(x < n)
    BY <1>0, <1>1, <2>2, LinkTypes
  <2>4. 0 < n => x <= n
    BY <1>0, <1>1, <2>2, LinkTypes
  <2> QED
    BY <1>1, <2>3, <2>4
<1>2. ASSUME \A n \in Nodes : i \in DOMAIN nexts[n] => n \in {0, x}
      PROVE  i \in DOMAIN nexts[x] /\ nexts[x][i] = prevs[x][i]
  <2>1. i \in DOMAIN nexts[x]
    BY <1>2 DEF ListOK, NoEmptyLevel, Nodes
  <2>2. /\ nexts[x][i] \in {0, x} /\ prevs[x][i] \in {0, x}
        /\ nexts[x][i] # x /\ nexts[prevs[x][i]][i] = x
    BY <1>0, <1>2, <2>1, LinkTypes
  <2> QED
    BY <2>1, <2>2
<1>3. i \in Emptied(x) <=> i \in DOMAIN nexts[x] /\ nexts[x][i] = prevs[x][i]
  BY DEF Emptied
<1> QED
  BY <1>1, <1>2, <1>3

(* Those levels are the highest ones of the head: it gives up as many as there are. *)
LEMMA EmptiedAreHighest ==
  ASSUME ListOK, NEW x \in Nodes \ {0}
  PROVE  LET top == NLevels - Cardinality(Emptied(x))
         IN  /\ top \in 1..NLevels
             /\ \A i \in 0..(NLevels - 1) : i \in Emptied(x) <=> top <= i
<1>0. Linked /\ 0 \in Nodes /\ \A n \in Nodes : DOMAIN nexts[n] \subseteq DOMAIN nexts[0]
  BY DEF ListOK, Linked, Heights, Nodes
<1>1. NLevels \in Nat \ {0} /\ DOMAIN nexts[0] = 0..(NLevels - 1)
  BY <1>0, Levels
<1> DEFINE rest == {i \in 0..(NLevels - 1) : i \notin Emptied(x)}
<1>2. Emptied(x) \subseteq 0..(NLevels - 1) /\ 0 \notin Emptied(x)
  BY <1>0, <1>1 DEF Emptied
<1>3. rest \in SUBSET Nat /\ IsFiniteSet(rest) /\ rest # {}
  <2>1. IsFiniteSet(0..(NLevels - 1))
    BY <1>1, FS_Interval
  <2> QED
    BY <1>1, <1>2, <2>1, FS_Subset
<1>4. PICK b \in rest : \A k \in rest : k <= b
  BY <1>3, LargestOfFinite
<1>5. ASSUME NEW i \in 0..(NLevels - 1), NEW j \in 0..(NLevels - 1), i \in Emptied(x), i <= j
      PROVE  j \in Emptied(x)
  <2>1. i > 0 /\ j > 0 /\ i \in DOMAIN nexts[0] /\ j \in DOMAIN nexts[0]
    BY <1>1, <1>2, <1>5
  <2>2. ASSUME NEW n \in Nodes, j \in DOMAIN nexts[n] PROVE i \in DOMAIN nexts[n]
    <3>1. PICK h \in 1..(MaxLevels + 1) : DOMAIN nexts[n] = 0..(h - 1)
      BY <1>0 DEF Linked, Heights, Nodes
    <3> QED
      BY <1>1, <1>5, <2>2, <3>1
  <2>3. \A n \in Nodes : i \in DOMAIN nexts[n] => n \in {0, x}
    BY <1>5, <2>1, EmptiedIsAlone
  <2> QED
    BY <2>1, <2>2, <2>3, EmptiedIsAlone
<1>6. \A i \in 0..(NLevels - 1) : i \in Emptied(x) <=> b + 1 <= i
  <2> SUFFICES ASSUME NEW i \in 0..(NLevels - 1) PROVE i \in Emptied(x) <=> b + 1 <= i
    OBVIOUS
  <2>1. b \in 0..(NLevels - 1) /\ b \notin Emptied(x)
    BY <1>4
  <2>2. i \in Emptied(x) => ~(i <= b)
    BY <1>5, <2>1
  <2>3. i \notin Emptied(x) => i <= b
    BY <1>4
  <2> QED
    BY <1>1, <2>1, <2>2, <2>3
<1>7. Emptied(x) = (b + 1)..(NLevels - 1)
  <2>1. b \in Nat /\ b \in 0..(NLevels - 1)
    BY <1>1, <1>4
  <2>2. \A i \in Emptied(x) : i \in 0..(NLevels - 1) /\ b + 1 <= i
    BY <1>2, <1>6
  <2>3. \A i \in (b + 1)..(NLevels - 1) : i \in 0..(NLevels - 1) /\ b + 1 <= i
    BY <1>1, <2>1
  <2>4. \A i \in Emptied(x) : i \in (b + 1)..(NLevels - 1)
    BY <1>1, <2>1, <2>2
  <2>5. \A i \in (b + 1)..(NLevels - 1) : i \in Emptied(x)
    BY <1>6, <2>3
  <2> QED
    BY <2>4, <2>5
<1>8. Cardinality((b + 1)..(NLevels - 1)) = (NLevels - 1) - (b + 1) + 1
  <2>1. b \in Nat /\ b <= NLevels - 1
    BY <1>1, <1>4
  <2>2. CASE b + 1 <= NLevels - 1
    BY <1>1, <2>1, <2>2, FS_Interval
  <2>3. CASE b = NLevels - 1
    <3>1. (b + 1)..(NLevels - 1) = {}
      BY <1>1, <2>3
    <3> QED
      BY <1>1, <2>3, <3>1, FS_EmptySet
  <2> QED
    BY <1>1, <2>1, <2>2, <2>3
<1>9. NLevels - Cardinality(Emptied(x)) = b + 1 /\ b + 1 \in 1..NLevels
  BY <1>1, <1>4, <1>7, <1>8
<1> QED
  BY <1>6, <1>9

(* erase *)
LEMMA UnlinkOK ==
  ASSUME ListOK, NEW x \in Nodes \ {0}, Unlink(x)
  PROVE  ListOK' /\ Nodes' = Nodes \ {x}
<1> DEFINE top == NLevels - Cardinality(Emptied(x))
<1>0. /\ Linked /\ 0 \in Nodes /\ Nodes \subseteq Nat /\ IsFiniteSet(Nodes)
      /\ DOMAIN nexts = Nodes /\ DOMAIN prevs = Nodes
  BY DEF ListOK, Linked, Heights, Nodes
<1>1. /\ NLevels \in Nat \ {0} /\ NLevels <= MaxLevels + 1 /\ DOMAIN nexts[0] = 0..(NLevels - 1)
      /\ top \in 1..NLevels
      /\ \A i \in 0..(NLevels - 1) : i \in Emptied(x) <=> top <= i
  BY <1>0, Levels, EmptiedAreHighest
<1>2. /\ nexts' = [n \in Nodes \ {x} |-> [i \in IF n = 0 THEN 0..(top - 1) ELSE DOMAIN nexts[n] |->
                     IF nexts[n][i] = x THEN nexts[x][i] ELSE nexts[n][i]]]
      /\ prevs' = [n \in Nodes \ {x} |-> [i \in IF n = 0 THEN 0..(top - 1) ELSE DOMAIN prevs[n] |->
                     IF prevs[n][i] = x THEN prevs[x][i] ELSE prevs[n][i]]]
      /\ size' = size - 1
  BY DEF Unlink, m_head
<1> HIDE DEF top
<1>3. /\ DOMAIN nexts' = Nodes \ {x} /\ DOMAIN prevs' = Nodes \ {x}
      /\ DOMAIN nexts'[0] = 0..(top - 1) /\ DOMAIN prevs'[0] = 0..(top - 1)
      /\ \A n \in Nodes \ {0, x} : DOMAIN nexts'[n] = DOMAIN nexts[n] /\ DOMAIN prevs'[n] = DOMAIN prevs[n]
  BY <1>0, <1>2
(* no other node reaches a level that the head gives up *)
<1>4. ASSUME NEW n \in Nodes \ {x}, NEW i \in DOMAIN nexts'[n]
      PROVE  /\ i \in DOMAIN nexts[n] /\ i \in 0..(top - 1)
             /\ nexts'[n][i] = IF nexts[n][i] = x THEN nexts[x][i] ELSE nexts[n][i]
             /\ prevs'[n][i] = IF prevs[n][i] = x THEN prevs[x][i] ELSE prevs[n][i]
  <2>1. CASE n = 0
    BY <1>0, <1>1, <1>2, <1>3, <2>1
  <2>2. CASE n # 0
    <3>1. i \in DOMAIN nexts[n]
      BY <1>3, <2>2
    <3>2. i \in DOMAIN nexts[0] /\ i \in DOMAIN prevs[n]
      BY <1>0, <3>1, LinkTypes
    <3>3. ~(top <= i)
      <4>1. SUFFICES ASSUME top <= i PROVE FALSE
        OBVIOUS
      <4>2. i \in Emptied(x) /\ i > 0
        BY <1>1, <3>2, <4>1
      <4> QED
        BY <2>2, <3>1, <3>2, <4>2, EmptiedIsAlone
    <3>4. i \in 0..(top - 1)
      BY <1>1, <3>2, <3>3
    <3> QED
      BY <1>2, <2>2, <3>1, <3>2, <3>4
  <2> QED
    BY <2>1, <2>2
<1>5. ASSUME NEW n \in Nodes \ {x}, NEW i \in 0..(top - 1), i \in DOMAIN nexts[n]
      PROVE  Reaches(nexts', i, n)
  BY <1>3, <1>5 DEF Reaches
<1>6. Heights(nexts', prevs')
  <2>1. IsFiniteSet(Nodes \ {x})
    BY <1>0, FS_Subset
  <2>2. ASSUME NEW n \in Nodes \ {x}
        PROVE  \E h \in 1..(MaxLevels + 1) : DOMAIN nexts'[n] = 0..(h - 1) /\ DOMAIN prevs'[n] = 0..(h - 1)
    <3>1. CASE n = 0
      <4>1. top \in 1..(MaxLevels + 1)
        BY <1>1, MaxLevelsAssumption
      <4> QED
        BY <1>3, <3>1, <4>1
    <3>2. CASE n # 0
      BY <1>0, <1>3, <3>2 DEF Linked, Heights
    <3> QED
      BY <3>1, <3>2
  <2>3. ASSUME NEW n \in Nodes \ {x} PROVE DOMAIN nexts'[n] \subseteq DOMAIN nexts'[0]
    BY <1>3, <1>4
  <2> QED
    BY <1>0, <1>3, <2>1, <2>2, <2>3 DEF Heights
<1>7. ASSUME NEW n \in Nodes \ {x}, NEW i \in DOMAIN nexts'[n]
      PROVE  IsNext(nexts', i, n, nexts'[n][i])
  <2>1. /\ i \in DOMAIN nexts[n] /\ i \in 0..(top - 1) /\ n \in Nat
        /\ nexts[n][i] \in Nodes /\ nexts[n][i] \in Nat /\ i \in DOMAIN nexts[nexts[n][i]]
        /\ nexts[n][i] # 0 => n < nexts[n][i]
        /\ \A m \in Nodes : i \in DOMAIN nexts[m] /\ n < m => nexts[n][i] # 0 /\ nexts[n][i] <= m
    BY <1>0, <1>4, LinkTypes
  <2>2. ASSUME NEW m \in DOMAIN nexts', i \in DOMAIN nexts'[m]
        PROVE  m \in Nodes /\ m # x /\ i \in DOMAIN nexts[m] /\ m \in Nat
    BY <1>0, <1>3, <1>4, <2>2
  <2>3. CASE nexts[n][i] = x
    <3>1. nexts'[n][i] = nexts[x][i] /\ x \in Nat /\ x # 0
      BY <1>0, <1>4, <2>3
    <3>2. /\ nexts[x][i] \in Nodes /\ nexts[x][i] \in Nat /\ nexts[x][i] # x
          /\ i \in DOMAIN nexts[nexts[x][i]]
          /\ nexts[x][i] # 0 => x < nexts[x][i]
          /\ \A m \in Nodes : i \in DOMAIN nexts[m] /\ x < m => nexts[x][i] # 0 /\ nexts[x][i] <= m
      BY <1>0, <2>1, <2>3, <3>1, LinkTypes
    <3>3. Reaches(nexts', i, nexts[x][i])
      BY <1>5, <2>1, <3>2
    <3>4. ASSUME NEW m \in DOMAIN nexts', i \in DOMAIN nexts'[m], n < m
          PROVE  nexts[x][i] # 0 /\ nexts[x][i] <= m
      <4>1. x <= m /\ m # x
        BY <2>1, <2>2, <2>3, <3>4
      <4>2. x < m
        BY <2>2, <3>1, <3>4, <4>1
      <4> QED
        BY <2>2, <3>2, <3>4, <4>2
    <3>5. nexts[x][i] # 0 => n < nexts[x][i]
      BY <2>1, <2>3, <3>1, <3>2
    <3> QED
      BY <3>1, <3>3, <3>4, <3>5 DEF IsNext
  <2>4. CASE nexts[n][i] # x
    <3>1. nexts'[n][i] = nexts[n][i] /\ Reaches(nexts', i, nexts[n][i])
      BY <1>4, <1>5, <2>1, <2>4
    <3> QED
      BY <2>1, <2>2, <3>1 DEF IsNext
  <2> QED
    BY <2>3, <2>4
<1>8. ASSUME NEW n \in Nodes \ {x}, NEW i \in DOMAIN nexts'[n]
      PROVE  Reaches(nexts', i, prevs'[n][i]) /\ nexts'[prevs'[n][i]][i] = n
  <2>1. /\ i \in DOMAIN nexts[n] /\ i \in 0..(top - 1)
        /\ prevs[n][i] \in Nodes /\ i \in DOMAIN nexts[prevs[n][i]] /\ nexts[prevs[n][i]][i] = n
    BY <1>0, <1>4, LinkTypes
  <2>2. CASE prevs[n][i] = x
    <3>1. prevs'[n][i] = prevs[x][i]
      BY <1>4, <2>2
    <3>2. /\ prevs[x][i] \in Nodes /\ i \in DOMAIN nexts[prevs[x][i]] /\ nexts[prevs[x][i]][i] = x
          /\ prevs[x][i] # x
      BY <1>0, <2>1, <2>2, LinkTypes
    <3>3. Reaches(nexts', i, prevs[x][i])
      BY <1>5, <2>1, <3>2
    <3>4. nexts'[prevs[x][i]][i] = nexts[x][i]
      BY <1>3, <1>4, <3>2, <3>3 DEF Reaches
    <3> QED
      BY <2>1, <2>2, <3>1, <3>3, <3>4
  <2>3. CASE prevs[n][i] # x
    <3>1. prevs'[n][i] = prevs[n][i]
      BY <1>4, <2>3
    <3>2. Reaches(nexts', i, prevs[n][i])
      BY <1>5, <2>1, <2>3
    <3>3. nexts'[prevs[n][i]][i] = nexts[prevs[n][i]][i]
      BY <1>4, <2>1, <2>3, <3>2 DEF Reaches
    <3> QED
      BY <2>1, <3>1, <3>2, <3>3
  <2> QED
    BY <2>2, <2>3
<1>9. Rings(nexts', prevs')
  BY <1>3, <1>7, <1>8 DEF Rings
<1>10. NoEmptyLevel(nexts')
  <2>1. SUFFICES ASSUME NEW i \in DOMAIN nexts'[0], i > 0
                 PROVE  \E n \in Nodes \ {x} : n # 0 /\ i \in DOMAIN nexts'[n]
    BY <1>3 DEF NoEmptyLevel
  <2>2. i \in 0..(top - 1) /\ i \in DOMAIN nexts[0] /\ i \notin Emptied(x)
    BY <1>1, <1>3
  <2>3. PICK n \in Nodes : i \in DOMAIN nexts[n] /\ n \notin {0, x}
    BY <2>1, <2>2, EmptiedIsAlone
  <2> QED
    BY <1>3, <2>3
<1>11. size' = Cardinality(Nodes \ {x}) - 1
  <2>1. Cardinality(Nodes) \in Nat /\ Cardinality(Nodes \ {x}) = Cardinality(Nodes) - 1
    BY <1>0, FS_RemoveElement, FS_CardinalityType
  <2> QED
    BY <1>2, <2>1 DEF ListOK
<1> QED
  BY <1>3, <1>6, <1>9, <1>10, <1>11 DEF ListOK, Linked, Nodes

(* A new list *)
LEMMA EmptyListOK ==
  ASSUME NEW nx, NEW pv, nx = EmptyLevels, pv = EmptyLevels
  PROVE  /\ DOMAIN nx = {0} /\ Heights(nx, pv) /\ Rings(nx, pv) /\ NoEmptyLevel(nx)
         /\ Cardinality(DOMAIN nx) = 1
<1>1. /\ DOMAIN nx = {0} /\ DOMAIN pv = {0} /\ nx[0] = [i \in {0} |-> 0] /\ pv[0] = [i \in {0} |-> 0]
      /\ DOMAIN nx[0] = {0} /\ DOMAIN pv[0] = {0} /\ nx[0][0] = 0 /\ pv[0][0] = 0
  BY DEF EmptyLevels, m_head
<1>2. IsFiniteSet({0}) /\ Cardinality({0}) = 1
  BY FS_Singleton
<1>3. 0..(1 - 1) = {0} /\ 1 \in 1..(MaxLevels + 1)
  BY MaxLevelsAssumption
<1>4. Heights(nx, pv)
  <2>1. \A n \in {0} : DOMAIN nx[n] = 0..(1 - 1) /\ DOMAIN pv[n] = 0..(1 - 1)
    BY <1>1, <1>3
  <2>2. \A n \in {0} : \E h \in 1..(MaxLevels + 1) :
          DOMAIN nx[n] = 0..(h - 1) /\ DOMAIN pv[n] = 0..(h - 1)
    BY <1>3, <2>1
  <2> QED
    BY <1>1, <1>2, <2>2 DEF Heights
<1>5. Rings(nx, pv) /\ NoEmptyLevel(nx)
  BY <1>1 DEF Rings, IsNext, Reaches, NoEmptyLevel
<1> QED
  BY <1>1, <1>2, <1>4, <1>5

(* Every step of the index keeps its list in order. *)
LEMMA StepKeepsList ==
  ASSUME ListOK, [IndexNext]_ivars
  PROVE  ListOK'
<1>1. ASSUME UNCHANGED list PROVE ListOK'
  BY <1>1 DEF ListOK, Linked, Nodes, list
<1>2. ASSUME NEW x \in Key, NEW level \in 0..MaxLevels, InsertEntry(x, level) PROVE ListOK'
  <2>1. Insert(x, level)
    BY <1>2 DEF InsertEntry
  <2>2. CASE LowerBound(x) = x
    BY <1>1, <2>1, <2>2 DEF Insert
  <2>3. CASE LowerBound(x) # x
    BY <2>1, <2>3, LinkOK
  <2> QED
    BY <2>2, <2>3
<1>3. ASSUME NEW x \in Key, EraseEntry(x) PROVE ListOK'
  <2>1. CASE Erase(x)
    <3>1. LowerBound(x) = x /\ x # 0 /\ x \in Nat
      BY <2>1, KeyAssumption DEF Erase, Find, End, m_head
    <3>2. x \in Nodes \ {0}
      BY <3>1, LowerBoundIsLeast DEF ListOK
    <3>3. Unlink(x)
      BY <2>1 DEF Erase
    <3> QED
      BY <3>2, <3>3, UnlinkOK
  <2>2. CASE Search(x)
    BY <1>1, <2>2 DEF Search
  <2> QED
    BY <1>3, <2>1, <2>2 DEF EraseEntry
<1>4. ASSUME NEW x \in Bound, FindByName(x) PROVE ListOK'
  BY <1>1, <1>4 DEF FindByName, Search
<1>5. ASSUME NEW r \in Interest, FindByInterest(r) PROVE ListOK'
  BY <1>1, <1>5 DEF FindByInterest, Search
<1>6. CASE LeftRound \/ RightRound \/ Return
  BY <1>1, <1>6 DEF LeftRound, RightRound, Return, list
<1>7. CASE Crash
  BY <1>7, EmptyListOK DEF Crash, Restart, ListOK, Linked, Nodes
<1>8. CASE UNCHANGED ivars
  BY <1>1, <1>8 DEF ivars, list
<1> QED
  BY <1>2, <1>3, <1>4, <1>5, <1>6, <1>7, <1>8 DEF IndexNext

(* The list is in order in every state, whatever heights were picked. *)
THEOREM ListIsKept == IndexSpec => []ListOK
<1>1. IndexInit => ListOK
  BY EmptyListOK DEF IndexInit, Init, ListOK, Linked, Nodes
<1>2. ListOK /\ [IndexNext]_ivars => ListOK'
  BY StepKeepsList
<1> QED
  BY <1>1, <1>2, PTL DEF IndexSpec

-----------------------------------------------------------------------------
(* The ring of a level is the sequence of its nodes, in ascending order: there is a
   function that satisfies the equation of the walk around it, since the walk goes up. *)
LEMMA RingExists ==
  ASSUME Linked, NEW i \in DOMAIN nexts[0]
  PROVE  \E f : f = [n \in LevelNodes(i) |-> IF n = m_head THEN <<>> ELSE <<n>> \o f[nexts[n][i]]]
<1> DEFINE Level == LevelNodes(i)
           Value(f, n) == IF n = m_head THEN <<>> ELSE <<n>> \o f[nexts[n][i]]
           From(k) == \E f : DOMAIN f = Level /\ f = [n \in Level |-> f[n]]
                             /\ \A n \in Level : n = 0 \/ k <= n => f[n] = Value(f, n)
           bad == {k \in Level : k # 0 /\ ~From(k)}
<1>0. 0 \in Level /\ Level \in SUBSET Nat /\ IsFiniteSet(Level) /\ Level \subseteq Nodes
  BY FS_Subset DEF Linked, Heights, Nodes, LevelNodes
<1>1. ASSUME NEW n \in Level
      PROVE  /\ nexts[n][i] \in Level
             /\ nexts[n][i] # 0 => n < nexts[n][i]
             /\ \A m \in Level : n < m => nexts[n][i] # 0 /\ nexts[n][i] <= m
  BY LinkTypes DEF LevelNodes
<1>2. ASSUME NEW k \in Level, k # 0, nexts[k][i] = 0 \/ From(nexts[k][i]) PROVE From(k)
  <2>1. PICK f : /\ DOMAIN f = Level /\ f = [n \in Level |-> f[n]]
                 /\ \A n \in Level : n = 0 \/ (nexts[k][i] # 0 /\ nexts[k][i] <= n)
                      => f[n] = Value(f, n)
    <3>1. CASE nexts[k][i] = 0
      <4> DEFINE f == [n \in Level |-> <<>>]
      <4>1. DOMAIN f = Level /\ f = [n \in Level |-> f[n]] /\ f[0] = Value(f, 0)
        BY <1>0 DEF m_head
      <4> QED
        BY <3>1, <4>1
    <3>2. CASE nexts[k][i] # 0
      BY <1>2, <3>2
    <3> QED
      BY <3>1, <3>2
  <2> DEFINE g == [n \in Level |-> IF n = k THEN <<k>> \o f[nexts[k][i]] ELSE f[n]]
  <2>2. ASSUME NEW n \in Level, n = 0 \/ k <= n PROVE g[n] = Value(g, n)
    <3>0. k \in Nat /\ n \in Nat /\ nexts[k][i] \in Nat /\ nexts[n][i] \in Nat
      BY <1>0, <1>1
    <3>1. CASE n = k
      <4>1. nexts[k][i] # k /\ nexts[k][i] \in Level
        BY <1>1, <1>2, <3>0
      <4>2. g[nexts[k][i]] = f[nexts[k][i]] /\ g[n] = <<k>> \o f[nexts[k][i]] /\ n # 0
        BY <1>2, <3>1, <4>1
      <4> HIDE DEF g
      <4> QED
        BY <3>1, <4>2 DEF m_head
    <3>2. CASE n # k
      <4>1. f[n] = Value(f, n)
        BY <1>1, <2>1, <2>2, <3>0, <3>2
      <4>2. n # 0 => nexts[n][i] # k /\ nexts[n][i] \in Level
        BY <1>1, <1>2, <2>2, <3>0
      <4> QED
        BY <3>2, <4>1, <4>2 DEF m_head
    <3> QED
      BY <3>1, <3>2
  <2>3. DOMAIN g = Level /\ g = [n \in Level |-> g[n]]
    OBVIOUS
  <2> HIDE DEF g
  <2> QED
    BY <2>2, <2>3
<1>3. bad = {}
  <2>1. SUFFICES ASSUME bad # {} PROVE FALSE
    OBVIOUS
  <2>2. bad \in SUBSET Nat /\ IsFiniteSet(bad)
    BY <1>0, FS_Subset
  <2>3. PICK k \in bad : \A l \in bad : l <= k
    <3> HIDE DEF bad
    <3> QED
      BY <2>1, <2>2, LargestOfFinite
  <2>4. k \in Level /\ k # 0 /\ ~From(k) /\ k \in Nat
    BY <1>0, <2>3
  <2>5. nexts[k][i] # 0 /\ nexts[k][i] \in Level /\ k < nexts[k][i] /\ nexts[k][i] \in Nat
    BY <1>0, <1>1, <1>2, <2>4
  <2>6. nexts[k][i] \notin bad
    BY <2>3, <2>4, <2>5
  <2> QED
    BY <1>2, <2>4, <2>5, <2>6
<1>4. PICK f : DOMAIN f = Level /\ f = [n \in Level |-> f[n]] /\ \A n \in Level : f[n] = Value(f, n)
  <2>1. CASE nexts[0][i] = 0
    <3> DEFINE f == [n \in Level |-> <<>>]
    <3>1. \A n \in Level : n = 0
      BY <1>0, <1>1, <2>1
    <3>2. \A n \in Level : f[n] = Value(f, n)
      BY <3>1 DEF m_head
    <3>3. DOMAIN f = Level /\ f = [n \in Level |-> f[n]]
      OBVIOUS
    <3> QED
      BY <3>2, <3>3
  <2>2. CASE nexts[0][i] # 0
    <3>1. nexts[0][i] \in Level /\ From(nexts[0][i])
      BY <1>0, <1>1, <1>3, <2>2
    <3>2. \A n \in Level : n = 0 \/ nexts[0][i] <= n
      BY <1>0, <1>1
    <3> QED
      BY <3>1, <3>2
  <2> QED
    BY <2>1, <2>2
<1>5. f = [n \in Level |-> Value(f, n)]
  <2> HIDE DEF Value, Level
  <2> QED
    BY <1>4
<1> QED
  BY <1>5

(* A smaller element in front of an ascending sequence *)
LEMMA PrependLists ==
  ASSUME NEW S \in SUBSET Nat, NEW s \in Seq(Nat), Sorted!Lists(s, S),
         NEW n \in Nat, \A m \in S : n < m
  PROVE  <<n>> \o s \in Seq(Nat) /\ Sorted!Lists(<<n>> \o s, S \cup {n})
<1> DEFINE t == <<n>> \o s
<1>1. /\ t \in Seq(Nat) /\ Len(t) = Len(s) + 1 /\ t[1] = n
      /\ \A k \in 2..Len(t) : t[k] = s[k - 1] /\ k - 1 \in 1..Len(s)
  OBVIOUS
<1>2. DOMAIN t = 1..Len(t) /\ DOMAIN s = 1..Len(s) /\ Len(s) \in Nat
  BY <1>1
<1> HIDE DEF t
<1>3. /\ {s[k] : k \in 1..Len(s)} = S
      /\ \A k, l \in 1..Len(s) : k < l => s[k] < s[l]
  BY <1>2 DEF Sorted!Lists
<1>4. ASSUME NEW k \in 1..Len(t) PROVE t[k] \in S \cup {n}
  <2>1. CASE k = 1
    BY <1>1, <2>1
  <2>2. CASE k # 1
    <3>1. k \in 2..Len(t)
      BY <1>1, <1>2, <2>2
    <3>2. t[k] = s[k - 1] /\ k - 1 \in 1..Len(s)
      BY <1>1, <3>1
    <3> QED
      BY <1>3, <3>2
  <2> QED
    BY <2>1, <2>2
<1>5. ASSUME NEW m \in S \cup {n} PROVE \E k \in 1..Len(t) : t[k] = m
  <2>1. CASE m = n
    BY <1>1, <1>2, <2>1
  <2>2. CASE m \in S
    <3>1. PICK l \in 1..Len(s) : s[l] = m
      BY <1>3, <2>2
    <3>2. l + 1 \in 2..Len(t) /\ (l + 1) - 1 = l /\ l + 1 \in 1..Len(t)
      BY <1>1, <1>2, <3>1
    <3> QED
      BY <1>1, <3>1, <3>2
  <2> QED
    BY <2>1, <2>2
<1>6. ASSUME NEW k \in 1..Len(t), NEW l \in 1..Len(t), k < l PROVE t[k] < t[l]
  <2>1. l \in 2..Len(t) /\ t[l] = s[l - 1] /\ l - 1 \in 1..Len(s)
    BY <1>1, <1>2, <1>6
  <2>2. CASE k = 1
    BY <1>1, <1>3, <2>1, <2>2
  <2>3. CASE k # 1
    <3>1. k \in 2..Len(t) /\ t[k] = s[k - 1] /\ k - 1 \in 1..Len(s) /\ k - 1 < l - 1
      BY <1>1, <1>2, <1>6, <2>1, <2>3
    <3> QED
      BY <1>3, <2>1, <3>1
  <2> QED
    BY <2>2, <2>3
<1>7. {t[k] : k \in 1..Len(t)} = S \cup {n}
  BY <1>4, <1>5
<1>8. t \in Seq(Nat) /\ Sorted!Lists(t, S \cup {n})
  BY <1>1, <1>2, <1>6, <1>7 DEF Sorted!Lists
<1> QED
  BY <1>8 DEF t

LEMMA RingLists ==
  ASSUME Linked, NEW i \in DOMAIN nexts[0]
  PROVE  Ring(i) \in Seq(Nat) /\ Sorted!Lists(Ring(i), {n \in Nodes \ {0} : i \in DOMAIN nexts[n]})
<1> DEFINE Level == LevelNodes(i)
           Step(f) == [n \in Level |-> IF n = m_head THEN <<>> ELSE <<n>> \o f[nexts[n][i]]]
           from == CHOOSE f : f = Step(f)
           Rest(n) == {m \in Level : m # 0 /\ n <= m}
           Good(n) == from[n] \in Seq(Nat) /\ Sorted!Lists(from[n], Rest(n))
           bad == {n \in Level : n # 0 /\ ~Good(n)}
<1>1. from = Step(from)
  <2>1. \E f : f = Step(f)
    BY RingExists
  <2> HIDE DEF Step
  <2> QED
    BY <2>1
<1>2. Ring(i) = from[nexts[0][i]]
  BY DEF Ring, m_head
<1> HIDE DEF from
<1>3. \A n \in Level : from[n] = IF n = 0 THEN <<>> ELSE <<n>> \o from[nexts[n][i]]
  BY <1>1 DEF m_head
<1>4. 0 \in Level /\ Level \in SUBSET Nat /\ IsFiniteSet(Level) /\ Level \subseteq Nodes
  BY FS_Subset DEF Linked, Heights, Nodes, LevelNodes
<1>5. ASSUME NEW n \in Level
      PROVE  /\ nexts[n][i] \in Level
             /\ nexts[n][i] # 0 => n < nexts[n][i]
             /\ \A m \in Level : n < m => nexts[n][i] # 0 /\ nexts[n][i] <= m
  BY LinkTypes DEF LevelNodes
<1>6. from[0] \in Seq(Nat) /\ Sorted!Lists(from[0], {})
  <2>1. from[0] = <<>>
    BY <1>3, <1>4
  <2>2. <<>> \in Seq(Nat) /\ Sorted!Lists(<<>>, {})
    BY DEF Sorted!Lists
  <2> QED
    BY <2>1, <2>2
<1>7. bad = {}
  <2>1. SUFFICES ASSUME bad # {} PROVE FALSE
    OBVIOUS
  <2>2. bad \in SUBSET Nat /\ IsFiniteSet(bad)
    BY <1>4, FS_Subset
  <2>3. PICK n \in bad : \A l \in bad : l <= n
    <3> HIDE DEF bad
    <3> QED
      BY <2>1, <2>2, LargestOfFinite
  <2>4. n \in Level /\ n # 0 /\ n \in Nat /\ ~Good(n)
    BY <1>4, <2>3
  <2> DEFINE q == nexts[n][i]
             after == IF q = 0 THEN {} ELSE Rest(q)
  <2>5. q \in Level /\ q \in Nat /\ (q # 0 => n < q)
    BY <1>4, <1>5, <2>4
  <2>6. from[q] \in Seq(Nat) /\ Sorted!Lists(from[q], after)
    <3>1. CASE q = 0
      BY <1>6, <3>1
    <3>2. CASE q # 0
      <4>1. q \notin bad
        <5> HIDE DEF bad
        <5> QED
          BY <2>3, <2>4, <2>5, <3>2
      <4> QED
        BY <2>5, <3>2, <4>1
    <3> QED
      BY <3>1, <3>2
  <2>7. after \cup {n} = Rest(n)
    <3>1. ASSUME NEW m \in Level, m # 0, n < m PROVE q # 0 /\ q <= m
      BY <1>5, <2>4, <3>1
    <3>2. ASSUME NEW m \in Rest(n) PROVE m \in after \cup {n}
      <4>1. m \in Nat
        BY <1>4
      <4> QED
        BY <2>4, <2>5, <3>1, <3>2, <4>1
    <3>3. ASSUME NEW m \in after \cup {n} PROVE m \in Rest(n)
      <4>1. m \in Nat
        BY <1>4, <2>4
      <4> QED
        BY <2>4, <2>5, <3>3, <4>1
    <3> QED
      BY <3>2, <3>3
  <2>8. after \in SUBSET Nat /\ \A m \in after : n < m
    BY <1>4, <2>4, <2>5
  <2>9. from[n] = <<n>> \o from[q]
    BY <1>3, <2>4
  <2> HIDE DEF after, q, Rest
  <2>10. from[n] \in Seq(Nat) /\ Sorted!Lists(from[n], after \cup {n})
    BY <2>4, <2>6, <2>8, <2>9, PrependLists
  <2> QED
    BY <2>4, <2>7, <2>10
<1> DEFINE all == {n \in Nodes \ {0} : i \in DOMAIN nexts[n]}
           first == nexts[0][i]
<1>8. first \in Level
  BY <1>4, <1>5
<1>9. all = {m \in Level : m # 0}
  BY DEF LevelNodes
<1>10. CASE first = 0
  <2>1. all = {}
    BY <1>4, <1>5, <1>9, <1>10
  <2> QED
    BY <1>2, <1>6, <1>10, <2>1
<1>11. CASE first # 0
  <2>1. all = Rest(first)
    BY <1>4, <1>5, <1>9
  <2>2. from[first] \in Seq(Nat) /\ Sorted!Lists(from[first], Rest(first))
    BY <1>7, <1>8, <1>11
  <2> QED
    BY <1>2, <2>1, <2>2
<1> QED
  BY <1>10, <1>11

(* The levels are rings in both directions, each made of the nodes that reach it. *)
LEMMA ListIsWellFormed ==
  ASSUME ListOK
  PROVE  LevelsWellFormed
<1>0. Linked /\ \A n \in Nodes : n \in Nat
  BY DEF ListOK, Linked, Heights, Nodes
<1>1. ASSUME NEW n \in Nodes
      PROVE  \E h \in 1..(MaxLevels + 1) : DOMAIN nexts[n] = 0..(h - 1) /\ DOMAIN prevs[n] = 0..(h - 1)
  BY <1>0 DEF Linked, Heights, Nodes
<1>2. ASSUME NEW n \in Nodes, NEW i \in DOMAIN nexts[n]
      PROVE  /\ i \in DOMAIN prevs[nexts[n][i]] /\ prevs[nexts[n][i]][i] = n
             /\ i \in DOMAIN nexts[prevs[n][i]] /\ nexts[prevs[n][i]][i] = n
             /\ nexts[n][i] # m_head => n < nexts[n][i]
  <2> DEFINE q == nexts[n][i]
             p == prevs[q][i]
  <2>1. q \in Nodes /\ q \in Nat /\ n \in Nat /\ i \in DOMAIN nexts[q] /\ (q # 0 => n < q)
    BY <1>0, LinkTypes
  <2>2. \A m \in Nodes : i \in DOMAIN nexts[m] /\ n < m => q # 0 /\ q <= m
    BY <1>0, LinkTypes
  <2> HIDE DEF q
  <2>3. p \in Nodes /\ p \in Nat /\ i \in DOMAIN nexts[p] /\ nexts[p][i] = q /\ i \in DOMAIN prevs[q]
    BY <1>0, <2>1, LinkTypes
  <2> HIDE DEF p
  <2>4. (q # 0 => p < q) /\ \A m \in Nodes : i \in DOMAIN nexts[m] /\ p < m => q # 0 /\ q <= m
    BY <1>0, <2>3, LinkTypes
  <2>5. p = n
    <3>1. ~(p < n)
      BY <2>1, <2>3, <2>4
    <3>2. ~(n < p)
      BY <2>1, <2>2, <2>3, <2>4
    <3> QED
      BY <2>1, <2>3, <3>1, <3>2
  <2>6. i \in DOMAIN nexts[prevs[n][i]] /\ nexts[prevs[n][i]][i] = n
    BY <1>0, LinkTypes
  <2> QED
    BY <2>1, <2>3, <2>5, <2>6 DEF p, q, m_head
<1>3. ASSUME NEW i \in DOMAIN nexts[m_head]
      PROVE  /\ ToSet(Ring(i)) = {n \in Nodes \ {m_head} : i \in DOMAIN nexts[n]}
             /\ i > 0 => Ring(i) # <<>>
  <2>1. ToSet(Ring(i)) = {n \in Nodes \ {0} : i \in DOMAIN nexts[n]}
    BY <1>0, RingLists DEF Sorted!Lists, ToSet, m_head
  <2>2. i > 0 => {n \in Nodes \ {0} : i \in DOMAIN nexts[n]} # {}
    BY DEF ListOK, NoEmptyLevel, Nodes, m_head
  <2>3. Ring(i) = <<>> => ToSet(Ring(i)) = {}
    BY DEF ToSet
  <2> QED
    BY <2>1, <2>2, <2>3 DEF m_head
<1>4. size = Cardinality(Nodes) - 1
  BY DEF ListOK
<1> QED
  BY <1>1, <1>2, <1>3, <1>4 DEF LevelsWellFormed

(* After any number of insertions and erasures, with any random heights, every level is
   an ascending ring through the head in both directions, made of the nodes that reach
   it, with no empty level but the lowest, and m_size counts the entries. *)
THEOREM IndexLevelsWellFormed == IndexSpec => []LevelsWellFormed
  BY ListIsKept, ListIsWellFormed, PTL

-----------------------------------------------------------------------------
(* What a reader of the lowest level sees *)
ReadsEntries == Ring(0) \in Seq(Nat) /\ Sorted!Lists(Ring(0), Entries)

LEMMA ListReadsEntries ==
  ASSUME ListOK
  PROVE  ReadsEntries
<1>1. Linked /\ 0 \in DOMAIN nexts[0] /\ \A n \in Nodes : 0 \in DOMAIN nexts[n]
  <2>1. ASSUME NEW n \in Nodes PROVE 0 \in DOMAIN nexts[n]
    <3>1. PICK h \in 1..(MaxLevels + 1) : DOMAIN nexts[n] = 0..(h - 1)
      BY DEF ListOK, Linked, Heights, Nodes
    <3> QED
      BY <3>1
  <2> QED
    BY <2>1 DEF ListOK, Linked, Heights, Nodes
<1>2. {n \in Nodes \ {0} : 0 \in DOMAIN nexts[n]} = Entries
  BY <1>1 DEF Entries, m_head
<1> QED
  BY <1>1, <1>2, RingLists DEF ReadsEntries

(* A sequence that lists nothing is empty. *)
LEMMA EmptyRing ==
  ASSUME NEW s \in Seq(Nat), Sorted!Lists(s, {})
  PROVE  s = <<>>
<1>1. \A k \in 1..Len(s) : FALSE
  BY DEF Sorted!Lists
<1>2. Len(s) = 0
  <2>1. Len(s) \in Nat
    OBVIOUS
  <2>2. Len(s) > 0 => 1 \in 1..Len(s)
    BY <2>1
  <2> QED
    BY <1>1, <2>1, <2>2
<1> QED
  BY <1>2

(* The least element of a set of numbers *)
LEMMA LeastIs ==
  ASSUME NEW S \in SUBSET Nat, NEW m \in S, \A k \in S : m <= k
  PROVE  Sorted!Least(S) = m
<1>1. \A x \in S : (\A y \in S : x <= y) => x = m
  BY DEF Sorted!Least
<1> QED
  BY <1>1 DEF Sorted!Least

(* What lower_bound returns is the least element that is not smaller. *)
LEMMA LowerBoundIsLeastElement ==
  ASSUME ListOK, NEW x \in Nat
  PROVE  Sorted!Least({y \in Entries : y >= x}) = LowerBound(x)
<1> DEFINE S == {y \in Entries : y >= x}
<1>1. Linked /\ Entries \in SUBSET Nat /\ Entries = Nodes \ {0}
  BY DEF ListOK, Linked, Heights, Nodes, Entries, m_head
<1>2. /\ LowerBound(x) \in Nodes
      /\ LowerBound(x) # 0 => x <= LowerBound(x)
      /\ \A y \in Nodes : y # 0 /\ x <= y => LowerBound(x) # 0 /\ LowerBound(x) <= y
  BY <1>1, LowerBoundIsLeast
<1>3. CASE LowerBound(x) = 0
  <2>1. S = {}
    BY <1>1, <1>2, <1>3
  <2> QED
    BY <1>3, <2>1 DEF Sorted!Least, Sorted!None
<1>4. CASE LowerBound(x) # 0
  <2>1. S \in SUBSET Nat /\ LowerBound(x) \in S /\ \A y \in S : LowerBound(x) <= y
    BY <1>1, <1>2, <1>4
  <2> QED
    BY <2>1, LeastIs
<1> QED
  BY <1>3, <1>4

(* What follows x on the lowest level is the least larger element. *)
LEMMA NextIsLeastElement ==
  ASSUME ListOK, NEW x \in Nodes \ {0}
  PROVE  Sorted!Least({y \in Entries : y > x}) = nexts[x][0]
<1> DEFINE S == {y \in Entries : y > x}
<1>1. Linked /\ Entries \in SUBSET Nat /\ Entries = Nodes \ {0} /\ x \in Nat
  BY DEF ListOK, Linked, Heights, Nodes, Entries, m_head
<1>2. \A n \in Nodes : 0 \in DOMAIN nexts[n]
  <2>1. ASSUME NEW n \in Nodes PROVE 0 \in DOMAIN nexts[n]
    <3>1. PICK h \in 1..(MaxLevels + 1) : DOMAIN nexts[n] = 0..(h - 1)
      BY <1>1 DEF Linked, Heights, Nodes
    <3> QED
      BY <3>1
  <2> QED
    BY <2>1
<1>3. /\ nexts[x][0] \in Nodes
      /\ nexts[x][0] # 0 => x < nexts[x][0]
      /\ \A m \in Nodes : 0 \in DOMAIN nexts[m] /\ x < m => nexts[x][0] # 0 /\ nexts[x][0] <= m
  BY <1>1, <1>2, LinkTypes
<1>4. CASE nexts[x][0] = 0
  <2>1. S = {}
    BY <1>1, <1>2, <1>3, <1>4
  <2> QED
    BY <1>4, <2>1 DEF Sorted!Least, Sorted!None
<1>5. CASE nexts[x][0] # 0
  <2>1. S \in SUBSET Nat /\ nexts[x][0] \in S /\ \A y \in S : nexts[x][0] <= y
    BY <1>1, <1>2, <1>3, <1>5
  <2> QED
    BY <2>1, LeastIs
<1> QED
  BY <1>4, <1>5

(* Every step of the index is one of the sorted set, or changes nothing in it. *)
LEMMA StepIsSorted ==
  ASSUME ListOK, ReadsEntries, ReadsEntries', [IndexNext]_ivars
  PROVE  [Sorted!Next]_(Sorted!vars)
<1>0. /\ Sorted!Elements = Entries
      /\ Ring(0)' \in Seq(Nat) /\ Sorted!Lists(Ring(0)', Entries')
  BY DEF ReadsEntries, Sorted!Lists, Sorted!Elements
<1>1. ASSUME UNCHANGED list PROVE Ring(0)' = Ring(0)
  BY <1>1 DEF list, Ring, LevelNodes, Nodes
<1>2. ASSUME NEW x \in Bound, Search(x) PROVE Sorted!Next
  <2>1. x \in Nat
    BY KeyAssumption
  <2>2. Sorted!LowerBound(x)
    BY <1>0, <1>1, <1>2, <2>1, LowerBoundIsLeastElement DEF Search, Sorted!LowerBound
  <2> QED
    BY <2>2 DEF Sorted!Next
<1>3. ASSUME NEW x \in Key, NEW level \in 0..MaxLevels, InsertEntry(x, level) PROVE Sorted!Next
  <2>1. Insert(x, level) /\ x \in Nat /\ x # 0
    BY <1>3, KeyAssumption DEF InsertEntry
  <2>2. Sorted!Insert(x)
    <3>1. CASE LowerBound(x) = x
      <4>1. x \in Entries
        BY <2>1, <3>1, LowerBoundIsLeast DEF ListOK, Entries, m_head
      <4>2. UNCHANGED list /\ reply' = [op |-> "kept", at |-> x]
        BY <2>1, <3>1 DEF Insert
      <4>3. Entries \cup {x} = Entries /\ Ring(0)' = Ring(0)
        BY <1>1, <4>1, <4>2
      <4> QED
        BY <1>0, <4>1, <4>2, <4>3 DEF Sorted!Insert, ReadsEntries
    <3>2. CASE LowerBound(x) # x
      <4>1. Nodes' = Nodes \cup {x} /\ x \notin Nodes
        BY <2>1, <3>2, LinkOK
      <4>2. Entries' = Entries \cup {x} /\ x \notin Entries
        BY <2>1, <4>1 DEF Entries, m_head
      <4>3. reply' = [op |-> "inserted", at |-> x]
        BY <2>1, <3>2 DEF Insert
      <4> QED
        BY <1>0, <4>2, <4>3 DEF Sorted!Insert
    <3> QED
      BY <3>1, <3>2
  <2> QED
    BY <2>2 DEF Sorted!Next
<1>4. ASSUME NEW x \in Key, EraseEntry(x) PROVE Sorted!Next
  <2>1. CASE Erase(x)
    <3>1. LowerBound(x) = x /\ x # 0 /\ x \in Nat
      BY <2>1, KeyAssumption DEF Erase, Find, End, m_head
    <3>2. x \in Nodes \ {0}
      BY <3>1, LowerBoundIsLeast DEF ListOK
    <3>3. Unlink(x) /\ reply' = [op |-> "erased", at |-> nexts[x][0]]
      BY <2>1 DEF Erase
    <3>4. Entries' = Entries \ {x} /\ x \in Entries
      BY <3>2, <3>3, UnlinkOK DEF Entries, m_head
    <3>5. Sorted!Erase(x)
      BY <1>0, <3>2, <3>3, <3>4, NextIsLeastElement DEF Sorted!Erase
    <3> QED
      BY <3>5 DEF Sorted!Next
  <2>2. CASE Search(x)
    BY <1>2, <2>2, KeyAssumption
  <2> QED
    BY <1>4, <2>1, <2>2 DEF EraseEntry
<1>5. ASSUME NEW x \in Bound, FindByName(x) PROVE Sorted!Next
  BY <1>2, <1>5 DEF FindByName
<1>6. ASSUME NEW r \in Interest, FindByInterest(r) PROVE Sorted!Next
  BY <1>2, <1>6, InterestAssumption DEF FindByInterest
<1>7. CASE LeftRound \/ RightRound \/ Return \/ UNCHANGED ivars
  <2>1. UNCHANGED list /\ UNCHANGED reply
    BY <1>7 DEF LeftRound, RightRound, Return, ivars, list
  <2> QED
    BY <1>1, <2>1 DEF Sorted!vars
<1>8. CASE Crash
  <2>1. nexts' = EmptyLevels /\ reply' = NoReply
    BY <1>8 DEF Crash, Restart
  <2>2. Entries' = {}
    BY <2>1 DEF Entries, Nodes, EmptyLevels, m_head
  <2>3. Ring(0)' = <<>>
    BY <1>0, <2>2, EmptyRing
  <2> QED
    BY <2>1, <2>3 DEF Sorted!Next, Sorted!Restart, Sorted!None, NoReply, End, m_head
<1> QED
  BY <1>3, <1>4, <1>5, <1>6, <1>7, <1>8 DEF IndexNext

(* Whatever heights the generator picks, the skip list under the index is a sorted set:
   an insertion adds its element or finds it there, an erasure returns the element
   after, lower_bound the first that is not smaller. *)
THEOREM IndexImplementsSortedSet == IndexSpec => ImplementsSortedSet
<1>1. IndexInit /\ ReadsEntries => Sorted!Init
  <2> SUFFICES ASSUME IndexInit, ReadsEntries PROVE Sorted!Init
    OBVIOUS
  <2>1. Entries = {} /\ reply = NoReply
    BY DEF IndexInit, Init, Entries, Nodes, EmptyLevels, m_head
  <2>2. Ring(0) = <<>>
    BY <2>1, EmptyRing DEF ReadsEntries
  <2> QED
    BY <2>1, <2>2 DEF Sorted!Init, Sorted!None, NoReply, End, m_head
<1>2. ListOK /\ ReadsEntries /\ ReadsEntries' /\ [IndexNext]_ivars => [Sorted!Next]_(Sorted!vars)
  BY StepIsSorted
<1>3. ListOK => ReadsEntries
  BY ListReadsEntries
<1> QED
  BY <1>1, <1>2, <1>3, ListIsKept, PTL DEF IndexSpec, ImplementsSortedSet, Sorted!Spec

-----------------------------------------------------------------------------
(* Names and their numbers.  A prefix, component by component. *)
LEMMA PrefixIs ==
  ASSUME NEW s \in Seq(Nat), NEW t \in Seq(Nat)
  PROVE  IsPrefix(s, t) <=> Len(s) <= Len(t) /\ \A i \in 1..Len(s) : s[i] = t[i]
<1>1. /\ Len(s) \in Nat /\ SubSeq(s, 1, Len(s)) \in Seq(Nat) /\ Len(SubSeq(s, 1, Len(s))) = Len(s)
      /\ \A i \in 1..Len(s) : SubSeq(s, 1, Len(s))[i] = s[i]
  OBVIOUS
<1>2. ASSUME Len(s) <= Len(t)
      PROVE  /\ SubSeq(t, 1, Len(s)) \in Seq(Nat) /\ Len(SubSeq(t, 1, Len(s))) = Len(s)
             /\ \A i \in 1..Len(s) : SubSeq(t, 1, Len(s))[i] = t[i]
  BY <1>2
<1> QED
  BY <1>1, <1>2 DEF IsPrefix

LEMMA PrecedesIs ==
  ASSUME NEW x \in Bound, NEW y \in Bound, x < y
  PROVE  LET a == NameOf[x]
             b == NameOf[y]
         IN  \E n \in Nat : /\ n <= Len(a) /\ n < Len(b) /\ \A i \in 1..n : a[i] = b[i]
                            /\ n < Len(a) => a[n + 1] < b[n + 1]
  BY NameAssumption DEF Precedes

LEMMA NameIs ==
  ASSUME NEW x \in Bound
  PROVE  /\ NameOf[x] \in Seq(Nat) /\ Len(NameOf[x]) \in Nat /\ x \in Nat
         /\ \A i \in 1..Len(NameOf[x]) : NameOf[x][i] \in Nat
  BY NameAssumption, KeyAssumption

(* Names that go on from a name come after it, *)
LEMMA PrefixFirst ==
  ASSUME NEW x \in Bound, NEW z \in Bound, IsPrefix(NameOf[x], NameOf[z])
  PROVE  x <= z
<1> DEFINE p == NameOf[x]
           c == NameOf[z]
<1>1. /\ p \in Seq(Nat) /\ c \in Seq(Nat) /\ x \in Nat /\ z \in Nat /\ Len(p) \in Nat /\ Len(c) \in Nat
      /\ Len(p) <= Len(c) /\ (\A i \in 1..Len(p) : p[i] = c[i] /\ p[i] \in Nat)
  BY NameIs, PrefixIs
<1>2. SUFFICES ASSUME z < x PROVE FALSE
  BY <1>1
<1>3. PICK n \in Nat : /\ n <= Len(c) /\ n < Len(p) /\ \A i \in 1..n : c[i] = p[i]
                       /\ n < Len(c) => c[n + 1] < p[n + 1]
  BY <1>2, PrecedesIs
<1>4. n + 1 \in 1..Len(p) /\ n < Len(c)
  BY <1>1, <1>3
<1> QED
  BY <1>1, <1>3, <1>4

(* and nothing else lies between it and them. *)
LEMMA PrefixBetween ==
  ASSUME NEW x \in Bound, NEW y \in Bound, NEW z \in Bound, x <= y, y <= z,
         IsPrefix(NameOf[x], NameOf[z])
  PROVE  IsPrefix(NameOf[x], NameOf[y])
<1> DEFINE p == NameOf[x]
           b == NameOf[y]
           c == NameOf[z]
<1>1. /\ p \in Seq(Nat) /\ b \in Seq(Nat) /\ c \in Seq(Nat) /\ x \in Nat /\ y \in Nat /\ z \in Nat
      /\ Len(p) \in Nat /\ Len(b) \in Nat /\ Len(c) \in Nat
      /\ Len(p) <= Len(c) /\ (\A i \in 1..Len(p) : p[i] = c[i] /\ p[i] \in Nat)
      /\ \A i \in 1..Len(b) : b[i] \in Nat
  BY NameIs, PrefixIs
<1>2. CASE x = y
  <2>1. Len(p) <= Len(p) /\ \A i \in 1..Len(p) : p[i] = p[i]
    BY <1>1
  <2> QED
    BY <1>1, <1>2, <2>1, PrefixIs
<1>3. CASE y = z
  BY <1>3
<1>4. CASE x < y /\ y < z
  <2>1. PICK n \in Nat : /\ n <= Len(p) /\ n < Len(b) /\ \A i \in 1..n : p[i] = b[i]
                         /\ n < Len(p) => p[n + 1] < b[n + 1]
    BY <1>4, PrecedesIs
  <2>2. PICK m \in Nat : /\ m <= Len(b) /\ m < Len(c) /\ \A i \in 1..m : b[i] = c[i]
                         /\ m < Len(b) => b[m + 1] < c[m + 1]
    BY <1>4, PrecedesIs
  <2> HIDE DEF p, b, c
  <2>3. CASE n = Len(p)
    <3>1. Len(p) <= Len(b) /\ \A i \in 1..Len(p) : p[i] = b[i]
      <4>1. n <= Len(b)
        BY <1>1, <2>1
      <4> QED
        BY <2>1, <2>3, <4>1
    <3>2. IsPrefix(p, b)
      BY <1>1, <3>1, PrefixIs
    <3> QED
      BY <3>2 DEF p, b
  <2>4. CASE n < Len(p)
    <3>1. n + 1 \in 1..Len(p) /\ n + 1 \in 1..Len(b) /\ p[n + 1] = c[n + 1] /\ p[n + 1] < b[n + 1]
      <4>1. n + 1 \in 1..Len(p) /\ n + 1 \in 1..Len(b)
        <5>1. n \in Nat /\ n < Len(p) /\ n < Len(b) /\ Len(p) \in Nat /\ Len(b) \in Nat
          BY <1>1, <2>1, <2>4
        <5> QED
          BY <5>1
      <4>2. p[n + 1] = c[n + 1]
        BY <1>1, <4>1
      <4> QED
        BY <2>1, <2>4, <4>1, <4>2
    <3>2. CASE n + 1 <= m
      <4>1. b[n + 1] = c[n + 1]
        BY <2>2, <3>1, <3>2
      <4>2. p[n + 1] \in Nat /\ b[n + 1] \in Nat
        BY <1>1, <3>1
      <4> QED
        BY <3>1, <4>1, <4>2
    <3>3. CASE m <= n
      <4>1. m + 1 \in 1..Len(p) /\ m + 1 \in 1..Len(b) /\ b[m + 1] < p[m + 1]
        <5>1. m + 1 \in 1..Len(p) /\ m + 1 \in 1..Len(b)
          <6>1. n \in Nat /\ m \in Nat /\ m <= n /\ n < Len(p) /\ n < Len(b) /\ Len(p) \in Nat /\ Len(b) \in Nat
            BY <1>1, <2>1, <2>4, <3>3
          <6> QED
            BY <6>1
        <5>2. m < Len(b) /\ c[m + 1] = p[m + 1]
          BY <1>1, <2>1, <3>3, <5>1
        <5> QED
          BY <2>2, <5>1, <5>2
      <4>2. CASE m < n
        <5>1. m + 1 \in 1..n
          BY <4>2
        <5>2. p[m + 1] = b[m + 1]
          BY <2>1, <5>1
        <5>3. b[m + 1] \in Nat
          BY <1>1, <4>1
        <5> QED
          BY <4>1, <5>2, <5>3
      <4>3. CASE m = n
        <5>1. b[n + 1] < p[n + 1] /\ p[n + 1] < b[n + 1]
          BY <3>1, <4>1, <4>3
        <5>2. b[n + 1] \in Nat /\ p[n + 1] \in Nat
          BY <1>1, <3>1, <4>1, <4>3
        <5> QED
          BY <5>1, <5>2
      <4> QED
        BY <3>3, <4>2, <4>3
    <3> QED
      BY <3>2, <3>3
  <2> QED
    BY <1>1, <2>1, <2>3, <2>4
<1> QED
  BY <1>1, <1>2, <1>3, <1>4

LEMMA NumberIs ==
  ASSUME NEW x \in Bound
  PROVE  NumberOf(NameOf[x]) = x
<1>1. ASSUME NEW y \in Bound, NameOf[y] = NameOf[x] PROVE y = x
  <2>1. IsPrefix(NameOf[x], NameOf[x])
    <3>1. NameOf[x] \in Seq(Nat) /\ Len(NameOf[x]) \in Nat
      BY NameIs
    <3> QED
      BY <3>1, PrefixIs
  <2>2. x <= y /\ y <= x
    BY <1>1, <2>1, PrefixFirst
  <2> QED
    BY <2>2, NameIs
<1> QED
  BY <1>1 DEF NumberOf

(* The successor of a name comes after exactly those that go on from it. *)
LEMMA SuccessorIs ==
  ASSUME NEW x \in Bound, NEW s \in Bound, NameOf[x] # <<>>, NameOf[s] = Successor(NameOf[x]),
         NEW z \in Bound
  PROVE  /\ IsPrefix(NameOf[x], NameOf[z]) => z < s
         /\ x <= z /\ z < s => IsPrefix(NameOf[x], NameOf[z])
<1> DEFINE p == NameOf[x]
           q == NameOf[s]
           c == NameOf[z]
           L == Len(p)
<1>1. /\ p \in Seq(Nat) /\ q \in Seq(Nat) /\ c \in Seq(Nat) /\ x \in Nat /\ s \in Nat /\ z \in Nat
      /\ L \in Nat /\ Len(c) \in Nat
      /\ (\A i \in 1..L : p[i] \in Nat) /\ \A i \in 1..Len(c) : c[i] \in Nat
  BY NameIs
<1>2. L \in Nat \ {0} /\ L \in 1..L
  <2>1. L # 0
    BY <1>1
  <2> QED
    BY <1>1, <2>1
<1>3. Len(q) = L /\ q[L] = p[L] + 1 /\ \A i \in 1..L : i # L => q[i] = p[i]
  BY <1>1, <1>2 DEF Successor
<1> HIDE DEF p, q, c, L
<1>4. ASSUME IsPrefix(p, c), ~(z < s) PROVE FALSE
  <2>1. L <= Len(c) /\ \A i \in 1..L : p[i] = c[i]
    BY <1>1, <1>4, PrefixIs DEF L
  <2>2. s # z
    <3>1. q[L] # c[L]
      BY <1>1, <1>2, <1>3, <2>1
    <3> QED
      BY <3>1 DEF q, c
  <2>3. PICK n \in Nat : /\ n <= Len(q) /\ n < Len(c) /\ \A i \in 1..n : q[i] = c[i]
                         /\ n < Len(q) => q[n + 1] < c[n + 1]
    <3>1. s < z
      BY <1>1, <1>4, <2>2
    <3> QED
      BY <3>1, PrecedesIs DEF q, c
  <2>4. ~(L <= n)
    BY <1>1, <1>2, <1>3, <2>1, <2>3
  <2>5. n + 1 \in 1..L /\ q[n + 1] < p[n + 1]
    <3>1. n < L /\ n + 1 \in 1..L
      BY <1>1, <2>4
    <3>2. q[n + 1] < c[n + 1]
      BY <1>3, <2>3, <3>1
    <3>3. c[n + 1] = p[n + 1]
      BY <2>1, <3>1
    <3> QED
      BY <3>1, <3>2, <3>3
  <2>6. p[n + 1] \in Nat /\ (q[n + 1] = p[n + 1] \/ q[n + 1] = p[n + 1] + 1)
    BY <1>1, <1>3, <2>5
  <2> QED
    BY <2>5, <2>6
<1>5. ASSUME x <= z, z < s PROVE IsPrefix(p, c)
  <2>1. CASE x = z
    BY <1>1, <2>1, PrefixIs DEF p, c
  <2>2. CASE x < z
    <3>1. PICK n \in Nat : /\ n <= L /\ n < Len(c) /\ \A i \in 1..n : p[i] = c[i]
                           /\ n < L => p[n + 1] < c[n + 1]
      BY <2>2, PrecedesIs DEF p, c, L
    <3>2. PICK m \in Nat : /\ m <= Len(c) /\ m < Len(q) /\ \A i \in 1..m : c[i] = q[i]
                           /\ m < Len(c) => c[m + 1] < q[m + 1]
      BY <1>5, PrecedesIs DEF q, c
    <3>3. CASE n = L
      <4>1. Len(p) <= Len(c) /\ \A i \in 1..Len(p) : p[i] = c[i]
        BY <1>1, <3>1, <3>3 DEF L
      <4> QED
        BY <1>1, <4>1, PrefixIs
    <3>4. CASE n < L
      <4>1. n + 1 \in 1..L /\ n + 1 \in 1..Len(c) /\ p[n + 1] < c[n + 1] /\ m < L
        <5>1. n + 1 \in 1..L /\ n + 1 \in 1..Len(c)
          BY <1>1, <3>1, <3>4
        <5>2. m < L
          BY <1>3, <3>2
        <5> QED
          BY <3>1, <3>4, <5>1, <5>2
      <4>2. CASE n < m
        <5>1. c[n + 1] = q[n + 1] /\ n + 1 # L
          BY <1>1, <3>2, <4>1, <4>2
        <5> QED
          BY <1>1, <1>3, <4>1, <5>1
      <4>3. CASE m < n
        <5>1. m + 1 \in 1..L /\ m + 1 # L /\ m + 1 \in 1..n /\ c[m + 1] < q[m + 1]
          BY <1>1, <3>1, <3>2, <4>1, <4>3
        <5>2. c[m + 1] = p[m + 1] /\ q[m + 1] = p[m + 1]
          BY <1>3, <3>1, <5>1
        <5>3. p[m + 1] \in Nat
          BY <1>1, <5>1
        <5> QED
          BY <5>1, <5>2, <5>3
      <4>4. CASE m = n
        <5>1. c[n + 1] < q[n + 1]
          BY <3>1, <3>2, <4>4
        <5>2. q[n + 1] = p[n + 1] \/ q[n + 1] = p[n + 1] + 1
          BY <1>3, <4>1
        <5>3. p[n + 1] \in Nat /\ c[n + 1] \in Nat
          BY <1>1, <4>1
        <5> QED
          BY <4>1, <5>1, <5>2, <5>3
      <4> QED
        BY <4>2, <4>3, <4>4
    <3> QED
      BY <1>1, <3>1, <3>3, <3>4
  <2> QED
    BY <1>1, <1>5, <2>1, <2>2
<1> QED
  BY <1>4, <1>5 DEF p, q, c

(* The first components of a name *)
LEMMA FirstOfIs ==
  ASSUME NEW x \in Bound, NEW n \in Nat
  PROVE  /\ FirstOf(NameOf[x], n) \in Seq(Nat)
         /\ Len(FirstOf(NameOf[x], n)) = IF n < Len(NameOf[x]) THEN n ELSE Len(NameOf[x])
         /\ \A i \in 1..Len(FirstOf(NameOf[x], n)) : FirstOf(NameOf[x], n)[i] = NameOf[x][i]
         /\ NumberOf(FirstOf(NameOf[x], n)) \in Bound
         /\ NameOf[NumberOf(FirstOf(NameOf[x], n))] = FirstOf(NameOf[x], n)
<1> DEFINE k == IF n < Len(NameOf[x]) THEN n ELSE Len(NameOf[x])
<1>1. NameOf[x] \in Seq(Nat) /\ k \in 0..Len(NameOf[x])
  BY NameIs
<1>2. /\ SubSeq(NameOf[x], 1, k) \in Seq(Nat) /\ Len(SubSeq(NameOf[x], 1, k)) = k
      /\ \A i \in 1..k : SubSeq(NameOf[x], 1, k)[i] = NameOf[x][i]
  BY <1>1
<1>3. FirstOf(NameOf[x], n) = SubSeq(NameOf[x], 1, k)
  BY DEF FirstOf
<1>4. PICK y \in Bound : NameOf[y] = SubSeq(NameOf[x], 1, k)
  BY <1>1, NameAssumption
<1> QED
  BY <1>2, <1>3, <1>4, NumberIs

-----------------------------------------------------------------------------
(* Least elements *)
LEMMA LeastOfNat ==
  ASSUME NEW S \in SUBSET Nat, S # {}
  PROVE  LeastOf(S) \in S /\ \A y \in S : LeastOf(S) <= y
<1> DEFINE R == {ss \in Nat \X Nat : ss[1] < ss[2]}
<1>1. IsWellFoundedOn(R, Nat)
  BY NatLessThanWellFounded DEF OpToRel
<1>2. PICK m \in S : \A k \in S : ~(<<k, m>> \in R)
  <2> HIDE DEF R
  <2> QED
    BY <1>1, WFMin
<1>3. ASSUME NEW k \in S PROVE m <= k
  <2>1. <<k, m>> \in Nat \X Nat /\ <<k, m>>[1] = k /\ <<k, m>>[2] = m
    OBVIOUS
  <2> QED
    BY <1>2, <2>1
<1>4. \E x \in S : \A y \in S : x <= y
  BY <1>3
<1> QED
  BY <1>4 DEF LeastOf

LEMMA LeastOfIs ==
  ASSUME NEW S \in SUBSET Nat, NEW m \in S, \A k \in S : m <= k
  PROVE  LeastOf(S) = m
<1>1. LeastOf(S) \in S /\ LeastOf(S) <= m /\ m <= LeastOf(S)
  BY LeastOfNat
<1>2. LeastOf(S) \in Nat /\ m \in Nat
  BY <1>1
<1> QED
  BY <1>1, <1>2

(* The lowest level: every entry is on it. *)
LEMMA LowestLevel ==
  ASSUME ListOK, NEW n \in Nodes
  PROVE  /\ n \in Nat /\ (n # 0 => n \in Entries /\ n \in Key /\ n \in Bound)
         /\ nexts[n][0] \in Nodes /\ nexts[n][0] \in Nat
         /\ prevs[n][0] \in Nodes /\ prevs[n][0] \in Nat /\ nexts[prevs[n][0]][0] = n
         /\ nexts[n][0] # 0 => n < nexts[n][0]
         /\ \A m \in Nodes : n < m => nexts[n][0] # 0 /\ nexts[n][0] <= m
<1>1. Linked /\ 0 \in Nodes
  BY DEF ListOK, Linked, Heights, Nodes
<1>2. \A m \in Nodes : 0 \in DOMAIN nexts[m]
  <2>1. ASSUME NEW m \in Nodes PROVE 0 \in DOMAIN nexts[m]
    <3>1. PICK h \in 1..(MaxLevels + 1) : DOMAIN nexts[m] = 0..(h - 1)
      BY <1>1 DEF Linked, Heights, Nodes
    <3> QED
      BY <3>1
  <2> QED
    BY <2>1
<1>3. n # 0 => n \in Entries /\ n \in Key /\ n \in Bound
  BY KeyAssumption DEF ListOK, Entries, m_head
<1>4. /\ n \in Nat /\ nexts[n][0] \in Nodes /\ nexts[n][0] \in Nat
      /\ prevs[n][0] \in Nodes /\ prevs[n][0] \in Nat /\ nexts[prevs[n][0]][0] = n
      /\ nexts[n][0] # 0 => n < nexts[n][0]
      /\ \A m \in Nodes : 0 \in DOMAIN nexts[m] /\ n < m => nexts[n][0] # 0 /\ nexts[n][0] <= m
  BY <1>1, <1>2, LinkTypes
<1> QED
  BY <1>2, <1>3, <1>4

LEMMA EntryIs ==
  ASSUME ListOK
  PROVE  /\ Entries = Nodes \ {0} /\ 0 \in Nodes /\ Entries \in SUBSET Nat
         /\ \A q \in Entries : q \in Nat /\ q # 0 /\ q \in Nodes /\ q \in Bound /\ EntryName(q) = NameOf[q]
<1>1. Entries = Nodes \ {0} /\ 0 \in Nodes
  BY DEF ListOK, Linked, Heights, Nodes, Entries, m_head
<1>2. ASSUME NEW q \in Entries
      PROVE  q \in Nat /\ q # 0 /\ q \in Nodes /\ q \in Bound /\ EntryName(q) = NameOf[q]
  BY <1>1, <1>2, LowestLevel DEF EntryName, m_head
<1> QED
  BY <1>1, <1>2

-----------------------------------------------------------------------------
(* find_if: a function that satisfies its equation exists, since the list is a ring
   through the node where it stops. *)
LEMMA ScanExists ==
  ASSUME ListOK, NEW r, NEW last \in Nodes
  PROVE  \E f : f = [q \in Nodes |->
           IF q = last \/ Matches(r, q) \/ Dereferences(r, q) THEN q ELSE f[nexts[q][0]]]
<1> DEFINE stops == {q \in Nodes : q = last \/ Matches(r, q) \/ Dereferences(r, q)}
           up(q) == {s \in stops : s # 0 /\ q # 0 /\ q <= s}
           value(q) == IF up(q) # {} THEN LeastOf(up(q)) ELSE IF 0 \in stops THEN 0 ELSE LeastOf(stops)
           f == [q \in Nodes |-> value(q)]
<1>1. last \in stops /\ stops \in SUBSET Nat /\ stops \subseteq Nodes
  BY LowestLevel
<1>2. ASSUME NEW q \in Nodes
      PROVE  value(q) = IF q \in stops THEN q ELSE value(nexts[q][0])
  <2>1. /\ q \in Nat /\ nexts[q][0] \in Nodes /\ nexts[q][0] \in Nat
        /\ nexts[q][0] # 0 => q < nexts[q][0]
        /\ \A m \in Nodes : q < m => nexts[q][0] # 0 /\ nexts[q][0] <= m
    BY LowestLevel
  <2> HIDE DEF stops
  <2>2. CASE q \in stops /\ q # 0
    <3>1. up(q) \in SUBSET Nat /\ q \in up(q) /\ \A s \in up(q) : q <= s
      <4>1. \A s \in up(q) : s \in stops /\ q <= s
        OBVIOUS
      <4>2. q \in up(q)
        BY <2>1, <2>2
      <4> HIDE DEF up
      <4> QED
        BY <1>1, <4>1, <4>2
    <3>2. LeastOf(up(q)) = q
      <4> HIDE DEF up
      <4> QED
        BY <3>1, LeastOfIs
    <3> QED
      BY <2>2, <3>1, <3>2
  <2>3. CASE q \in stops /\ q = 0
    <3>1. up(q) = {}
      BY <2>3
    <3> QED
      BY <2>3, <3>1
  <2>4. CASE q \notin stops /\ q # 0
    <3>1. CASE nexts[q][0] = 0
      <4>1. up(q) = {}
        <5>1. ASSUME NEW s \in stops, s # 0, q <= s PROVE FALSE
          <6>1. s \in Nat /\ s \in Nodes /\ s # q
            BY <1>1, <2>4
          <6>2. q < s
            BY <2>1, <5>1, <6>1
          <6> QED
            BY <2>1, <3>1, <6>1, <6>2
        <5> QED
          BY <5>1
      <4>2. up(nexts[q][0]) = {}
        BY <3>1
      <4> HIDE DEF up
      <4> QED
        BY <2>4, <4>1, <4>2
    <3>2. CASE nexts[q][0] # 0
      <4>1. ASSUME NEW s \in stops PROVE q <= s <=> nexts[q][0] <= s
        <5>1. s \in Nat /\ s \in Nodes /\ s # q
          BY <1>1, <2>4
        <5> QED
          BY <2>1, <3>2, <5>1
      <4>2. up(q) = up(nexts[q][0])
        BY <2>4, <3>2, <4>1
      <4> HIDE DEF up
      <4> QED
        BY <2>4, <4>2
    <3> QED
      BY <3>1, <3>2
  <2>5. CASE q \notin stops /\ q = 0
    <3>1. \A s \in stops : s \in Nat /\ s # 0 /\ 0 < s /\ nexts[q][0] # 0 /\ nexts[q][0] <= s
      BY <1>1, <2>1, <2>5
    <3>2. up(nexts[q][0]) = stops /\ stops # {} /\ up(q) = {}
      BY <1>1, <2>5, <3>1
    <3> HIDE DEF up
    <3> QED
      BY <2>5, <3>2
  <2> QED
    BY <2>2, <2>3, <2>4, <2>5
<1>3. f = [q \in Nodes |-> IF q = last \/ Matches(r, q) \/ Dereferences(r, q)
                             THEN q ELSE f[nexts[q][0]]]
  <2>1. \A q \in Nodes : q \in stops <=> q = last \/ Matches(r, q) \/ Dereferences(r, q)
    OBVIOUS
  <2>2. \A q \in Nodes : nexts[q][0] \in Nodes
    BY LowestLevel
  <2> HIDE DEF stops, value
  <2> QED
    BY <1>2, <2>1, <2>2
<1> QED
  BY <1>3

(* It returns the first entry from first on, and before last, that matches or that it
   cannot compare; last when there is none. *)
Between(first, last) == {q \in Entries : first <= q /\ (last = 0 \/ q < last)}
Stops(r, q) == Matches(r, q) \/ Dereferences(r, q)
IsFirstStop(r, first, last, f) ==
  \/ f = last /\ \A q \in Between(first, last) : ~Stops(r, q)
  \/ /\ f \in Between(first, last) /\ f # last /\ Stops(r, f)
     /\ \A q \in Between(first, last) : q < f => ~Stops(r, q)

LEMMA ScanIs ==
  ASSUME ListOK, NEW r, NEW last \in Nodes, NEW first \in Entries, last = 0 \/ first <= last
  PROVE  IsFirstStop(r, first, last, Scan(r, first, last))
<1> DEFINE Step(f) == [q \in Nodes |->
             IF q = last \/ Matches(r, q) \/ Dereferences(r, q) THEN q ELSE f[nexts[q][0]]]
           scan == CHOOSE f : f = Step(f)
           bad == {q \in Entries : (last = 0 \/ q <= last) /\ ~IsFirstStop(r, q, last, scan[q])}
<1>1. scan = Step(scan)
  <2>1. \E f : f = Step(f)
    BY ScanExists
  <2> HIDE DEF Step
  <2> QED
    BY <2>1
<1>2. Scan(r, first, last) = scan[first]
  BY DEF Scan
<1> HIDE DEF scan
<1>3. \A q \in Nodes : scan[q] = IF q = last \/ Stops(r, q) THEN q ELSE scan[nexts[q][0]]
  BY <1>1 DEF Stops
<1>4. SUFFICES ASSUME bad # {} PROVE FALSE
  BY <1>2
<1>5. bad \in SUBSET Nat /\ IsFiniteSet(bad)
  <2>1. IsFiniteSet(Nodes) /\ Nodes \subseteq Nat
    BY DEF ListOK, Linked, Heights, Nodes
  <2>2. bad \subseteq Nodes
    BY DEF Entries
  <2> QED
    BY <2>1, <2>2, FS_Subset
<1>6. PICK k \in bad : \A l \in bad : l <= k
  <2> HIDE DEF bad
  <2> QED
    BY <1>4, <1>5, LargestOfFinite
<1>7. /\ k \in Entries /\ k \in Nodes /\ k \in Nat /\ k # 0 /\ (last = 0 \/ k <= last) /\ last \in Nat
      /\ ~IsFirstStop(r, k, last, scan[k])
  BY <1>6, EntryIs, LowestLevel
<1> DEFINE n == nexts[k][0]
<1>8. /\ n \in Nodes /\ n \in Nat /\ (n # 0 => k < n /\ n \in Entries)
      /\ \A m \in Nodes : k < m => n # 0 /\ n <= m
  BY <1>7, LowestLevel
<1>9. \A q \in Entries : q \in Nat /\ q \in Nodes
  BY EntryIs
<1>10. CASE k = last
  <2>1. scan[k] = last /\ Between(k, last) = {}
    <3>1. scan[k] = last
      BY <1>3, <1>7, <1>10
    <3>2. ASSUME NEW q \in Entries, k <= q, last = 0 \/ q < last PROVE FALSE
      <4>1. q \in Nat
        BY <1>9
      <4> QED
        BY <1>7, <1>10, <3>2, <4>1
    <3> QED
      BY <3>1, <3>2 DEF Between
  <2> QED
    BY <1>7, <2>1 DEF IsFirstStop
<1>11. CASE k # last /\ Stops(r, k)
  <2>1. scan[k] = k /\ k \in Between(k, last) /\ \A q \in Between(k, last) : k <= q /\ q \in Nat
    <3>1. scan[k] = k
      BY <1>3, <1>7, <1>11
    <3>2. k <= k /\ (last = 0 \/ k < last)
      BY <1>7, <1>11
    <3> QED
      BY <1>7, <1>9, <3>1, <3>2 DEF Between
  <2> QED
    BY <1>7, <1>11, <2>1 DEF IsFirstStop
<1>12. CASE k # last /\ ~Stops(r, k)
  <2>1. scan[k] = scan[n]
    BY <1>3, <1>7, <1>12
  <2> HIDE DEF n
  <2>2. CASE n = 0
    <3>1. last = 0 /\ scan[n] = 0
      BY <1>3, <1>7, <1>8, <1>12, <2>2
    <3>2. \A q \in Between(k, last) : q = k
      BY <1>7, <1>8, <1>9, <2>2 DEF Between
    <3> QED
      BY <1>7, <1>12, <2>1, <3>1, <3>2 DEF IsFirstStop
  <2>3. CASE n # 0
    <3>1. last = 0 \/ n <= last
      BY <1>7, <1>8, <1>12
    <3>2. n \notin bad
      <4> HIDE DEF bad
      <4> QED
        BY <1>6, <1>7, <1>8, <2>3
    <3>3. IsFirstStop(r, n, last, scan[n])
      BY <1>8, <2>3, <3>1, <3>2
    <3>4. \A q \in Between(k, last) : q = k \/ q \in Between(n, last)
      BY <1>7, <1>8, <1>9 DEF Between
    <3>5. Between(n, last) \subseteq Between(k, last)
      <4>1. ASSUME NEW q \in Entries, n <= q PROVE k <= q
        <5>1. q \in Nat /\ k < n
          BY <1>8, <1>9, <2>3
        <5> QED
          BY <1>7, <1>8, <4>1, <5>1
      <4> QED
        BY <4>1 DEF Between
    <3>6. k \notin Between(n, last)
      BY <1>7, <1>8, <2>3 DEF Between
    <3> QED
      BY <1>7, <1>12, <2>1, <3>3, <3>4, <3>5, <3>6 DEF IsFirstStop
  <2> QED
    BY <2>2, <2>3
<1> QED
  BY <1>10, <1>11, <1>12

-----------------------------------------------------------------------------
(* The invariant of a search.  A leftmost search has passed no entry that matches.  A
   rightmost one has none from last on; and last is either beyond the first entry under
   the name, with nothing but entries under the name between them, or the search has
   stepped over that entry, and then nothing matches at all. *)
AsksFor(r, q) == IsPrefix(NameOf[r.name], NameOf[q])

LeftOK(r, it) ==
  /\ r \in Interest /\ ~r.rightmost /\ it \in Nodes
  /\ it # 0 => r.name <= it
  /\ \A y \in Entries : it = 0 \/ y < it => ~Matches(r, y)

RightOK(r, boundary, last) ==
  /\ r \in Interest /\ r.rightmost
  /\ boundary \in Entries /\ AsksFor(r, boundary)
  /\ \A y \in Entries : y < boundary => ~AsksFor(r, y)
  /\ last \in Nodes
  /\ \/ /\ last = 0 \/ boundary < last
        /\ \A y \in Between(boundary, last) : AsksFor(r, y)
     \/ last # 0 /\ last <= boundary
  /\ \A y \in Entries : last # 0 /\ last <= y => ~Matches(r, y)

SearchOK ==
  /\ SelectionIsRight
  /\ search.phase = "left" =>
       /\ search = [phase |-> "left", interest |-> search.interest, it |-> search.it]
       /\ LeftOK(search.interest, search.it)
  /\ search.phase = "right" =>
       /\ search = [phase |-> "right", interest |-> search.interest,
                    boundary |-> search.boundary, last |-> search.last]
       /\ RightOK(search.interest, search.boundary, search.last)

LEMMA InterestIs ==
  ASSUME NEW r \in Interest
  PROVE  /\ r.name \in Bound /\ r.name \in Nat /\ r.rightmost \in BOOLEAN
         /\ "rightmost" \in DOMAIN r
         /\ NameOf[r.name] \in Seq(Nat) /\ Len(NameOf[r.name]) \in Nat
  BY InterestAssumption, NameIs

(* What stops a search is under its name. *)
LEMMA StopsAreAskedFor ==
  ASSUME ListOK, NEW r, NEW q \in Entries, ~AsksFor(r, q)
  PROVE  ~Stops(r, q) /\ ~Matches(r, q)
<1>1. EntryName(q) = NameOf[q]
  BY EntryIs
<1> QED
  BY <1>1 DEF Stops, Matches, Dereferences, PassesName, AsksFor

LEMMA SelectedNone ==
  ASSUME NEW r, \A y \in Entries : ~Matches(r, y)
  PROVE  Selected(r) = 0
<1>1. Matching(r) = {}
  BY DEF Matching
<1> QED
  BY <1>1 DEF Selected, LeastOf, End, m_head

LEMMA SelectedLeft ==
  ASSUME ListOK, NEW r \in Interest, ~r.rightmost, NEW f \in Entries, Matches(r, f),
         \A y \in Entries : y < f => ~Matches(r, y)
  PROVE  Selected(r) = f
<1>1. Matching(r) \in SUBSET Nat /\ f \in Matching(r) /\ \A y \in Matching(r) : f <= y
  BY EntryIs DEF Matching
<1> QED
  BY <1>1, LeastOfIs DEF Selected

LEMMA SelectedRight ==
  ASSUME ListOK, NEW r \in Interest, r.rightmost, NEW f \in Entries, Matches(r, f),
         \A y \in Entries : y > f /\ Matches(r, y) => Child(r, y) = Child(r, f),
         \A y \in Entries : y < f /\ Matches(r, y) => Child(r, y) # Child(r, f)
  PROVE  Selected(r) = f
<1> DEFINE S == {q \in Matching(r) : \A x \in Matching(r) : x > q => x \in SameChild(r, q)}
<1>1. f \in S /\ S \in SUBSET Nat
  BY EntryIs DEF Matching, SameChild
<1>2. ASSUME NEW q \in S, ~(f <= q) PROVE FALSE
  <2>1. q \in Nat /\ f \in Nat /\ q \in Entries /\ Matches(r, q) /\ f \in Matching(r)
    BY <1>1 DEF Matching
  <2>2. f \in SameChild(r, q)
    BY <1>2, <2>1
  <2>3. Child(r, q) = Child(r, f)
    BY <2>2 DEF SameChild
  <2> QED
    BY <1>2, <2>1, <2>3
<1>3. LeastOf(S) = f
  <2> HIDE DEF S
  <2> QED
    BY <1>1, <1>2, LeastOfIs
<1> QED
  BY <1>3 DEF Selected

(* The handler that calls find gets the entry in question. *)
LEMMA DoneIsRight ==
  ASSUME UNCHANGED nexts, NEW r \in Interest, NEW at, at = Selected(r), search' = Done(r, at)
  PROVE  SearchOK'
<1>1. search'.phase = "done" /\ search'.interest = r /\ search'.at = at
  BY DEF Done
<1>2. Selected(r)' = Selected(r)
  BY DEF Selected, Matching, SameChild, Entries, Nodes
<1> QED
  BY <1>1, <1>2, InterestIs DEF SearchOK, SelectionIsRight

(* A search goes on: the container is the same in the next state. *)
LEMMA LeftGoesOn ==
  ASSUME UNCHANGED nexts, NEW r, NEW it, LeftOK(r, it),
         search' = [phase |-> "left", interest |-> r, it |-> it]
  PROVE  SearchOK'
<1>1. search'.phase = "left" /\ search'.interest = r /\ search'.it = it
  OBVIOUS
<1>2. LeftOK(r, it)'
  BY DEF LeftOK, Entries, Nodes
<1> QED
  BY <1>1, <1>2 DEF SearchOK, SelectionIsRight

LEMMA RightGoesOn ==
  ASSUME UNCHANGED nexts, NEW r, NEW boundary, NEW last, RightOK(r, boundary, last),
         search' = [phase |-> "right", interest |-> r, boundary |-> boundary, last |-> last]
  PROVE  SearchOK'
<1>1. /\ search'.phase = "right" /\ search'.interest = r /\ search'.boundary = boundary
      /\ search'.last = last
  OBVIOUS
<1>2. RightOK(r, boundary, last)'
  BY DEF RightOK, Between, Entries, Nodes
<1> QED
  BY <1>1, <1>2 DEF SearchOK, SelectionIsRight

(* The first entry at or after a name is under it, if any is. *)
LEMMA FirstUnder ==
  ASSUME ListOK, NEW x \in Bound
  PROVE  LET start == LowerBound(x) IN
         /\ start \in Nodes
         /\ start # 0 => start \in Entries /\ x <= start
         /\ \A y \in Entries : x <= y => start # 0 /\ start <= y
         /\ \A y \in Entries : IsPrefix(NameOf[x], NameOf[y]) =>
              start # 0 /\ start <= y /\ IsPrefix(NameOf[x], NameOf[start])
<1> DEFINE start == LowerBound(x)
<1>1. Linked /\ x \in Nat
  BY NameIs DEF ListOK
<1>2. /\ start \in Nodes
      /\ start # 0 => x <= start
      /\ \A y \in Nodes : y # 0 /\ x <= y => start # 0 /\ start <= y
  BY <1>1, LowerBoundIsLeast
<1>3. start # 0 => start \in Entries
  BY <1>2, EntryIs
<1>4. \A y \in Entries : x <= y => start # 0 /\ start <= y
  BY <1>2, EntryIs
<1>5. ASSUME NEW y \in Entries, IsPrefix(NameOf[x], NameOf[y])
      PROVE  start # 0 /\ start <= y /\ IsPrefix(NameOf[x], NameOf[start])
  <2>1. y \in Bound
    BY EntryIs
  <2>2. x <= y
    BY <1>5, <2>1, PrefixFirst
  <2>3. start # 0 /\ start <= y /\ x <= start
    BY <1>2, <1>4, <2>2
  <2>4. start \in Bound
    BY <1>3, <2>3, EntryIs
  <2> HIDE DEF start
  <2> QED
    BY <1>5, <2>1, <2>3, <2>4, PrefixBetween
<1> QED
  BY <1>2, <1>3, <1>4, <1>5

(* A deletion's search *)
LEMMA FindByNameOK ==
  ASSUME ListOK, NEW x \in Bound, FindByName(x)
  PROVE  SearchOK'
<1> DEFINE q == LowerBound(x)
           at == IF q # End /\ IsPrefix(NameOf[x], NameOf[q]) THEN q ELSE End
<1>1. search' = [phase |-> "done", interest |-> [name |-> x], at |-> at] /\ UNCHANGED nexts
  BY DEF FindByName, Search, list, Done
<1>2. /\ q \in Nodes /\ (q # 0 => q \in Entries /\ x <= q)
      /\ \A y \in Entries : IsPrefix(NameOf[x], NameOf[y]) =>
              q # 0 /\ q <= y /\ IsPrefix(NameOf[x], NameOf[q])
  BY FirstUnder
<1> HIDE DEF q
<1>3. at = LeastOf(Under(x))
  <2>1. CASE q # 0 /\ IsPrefix(NameOf[x], NameOf[q])
    <3>1. q \in Under(x) /\ Under(x) \in SUBSET Nat /\ \A y \in Under(x) : q <= y
      BY <1>2, <2>1, EntryIs DEF Under
    <3> QED
      BY <2>1, <3>1, LeastOfIs DEF End, m_head
  <2>2. CASE ~(q # 0 /\ IsPrefix(NameOf[x], NameOf[q]))
    <3>1. Under(x) = {}
      BY <1>2, <2>2 DEF Under
    <3> QED
      BY <2>2, <3>1 DEF LeastOf, End, m_head
  <2> QED
    BY <2>1, <2>2
<1> HIDE DEF at
<1>4. search'.phase = "done" /\ search'.interest = [name |-> x] /\ search'.at = at
  BY <1>1
<1>5. search'.interest.name = x /\ "rightmost" \notin DOMAIN (search'.interest)
  <2>1. DOMAIN [name |-> x] = {"name"}
    OBVIOUS
  <2> QED
    BY <1>4, <2>1
<1>6. Under(x)' = Under(x)
  BY <1>1 DEF Under, Entries, Nodes
<1> QED
  BY <1>3, <1>4, <1>5, <1>6 DEF SearchOK, SelectionIsRight

(* The start of a search for an Interest *)
LEMMA FindByInterestOK ==
  ASSUME ListOK, NEW r \in Interest, FindByInterest(r)
  PROVE  SearchOK'
<1> DEFINE x == r.name
           start == LowerBound(x)
           next == NumberOf(Successor(NameOf[x]))
           last == IF NameOf[x] = <<>> THEN End ELSE LowerBound(next)
<1>1. UNCHANGED nexts
  BY DEF FindByInterest, Search, list
<1>2. x \in Bound /\ x \in Nat /\ r.rightmost \in BOOLEAN
  BY InterestIs
<1>3. /\ start \in Nodes /\ (start # 0 => start \in Entries /\ x <= start)
      /\ \A y \in Entries : x <= y => start # 0 /\ start <= y
      /\ \A y \in Entries : AsksFor(r, y) => start # 0 /\ start <= y /\ AsksFor(r, start)
  BY <1>2, FirstUnder DEF AsksFor
<1>4. search' = IF ~(start # 0 /\ AsksFor(r, start)) THEN Done(r, 0)
                ELSE IF r.rightmost
                  THEN [phase |-> "right", interest |-> r, boundary |-> start, last |-> last]
                  ELSE [phase |-> "left", interest |-> r, it |-> start]
  BY DEF FindByInterest, AsksFor, End, m_head
<1> HIDE DEF start, last
<1>5. CASE ~(start # 0 /\ AsksFor(r, start))
  <2>1. \A y \in Entries : ~Matches(r, y)
    BY <1>3, <1>5, StopsAreAskedFor
  <2>2. Selected(r) = 0
    BY <2>1, SelectedNone
  <2> QED
    BY <1>1, <1>4, <1>5, <2>2, DoneIsRight
<1>6. ASSUME start # 0, AsksFor(r, start), ~r.rightmost PROVE SearchOK'
  <2>1. search' = [phase |-> "left", interest |-> r, it |-> start]
    BY <1>4, <1>6
  <2>3. \A y \in Entries : y < start => ~Matches(r, y)
    <3>1. SUFFICES ASSUME NEW y \in Entries, y < start, Matches(r, y) PROVE FALSE
      OBVIOUS
    <3>2. AsksFor(r, y) /\ y \in Nat /\ start \in Nat
      BY <1>3, <1>6, <3>1, StopsAreAskedFor, EntryIs
    <3> QED
      BY <1>3, <3>1, <3>2
  <2>4. LeftOK(r, start)
    BY <1>3, <1>6, <2>3 DEF LeftOK
  <2> QED
    BY <1>1, <2>1, <2>4, LeftGoesOn
<1>7. ASSUME start # 0, AsksFor(r, start), r.rightmost PROVE SearchOK'
  <2>1. search' = [phase |-> "right", interest |-> r, boundary |-> start, last |-> last]
    BY <1>4, <1>7
  <2>3. \A y \in Entries : y < start => ~AsksFor(r, y)
    <3>1. SUFFICES ASSUME NEW y \in Entries, y < start, AsksFor(r, y) PROVE FALSE
      OBVIOUS
    <3>2. y \in Nat /\ start \in Nat
      BY <1>3, <1>7, EntryIs
    <3> QED
      BY <1>3, <3>1, <3>2
  <2>4. /\ last \in Nodes
        /\ last = 0 \/ start < last
        /\ \A y \in Between(start, last) : AsksFor(r, y)
        /\ \A y \in Entries : last # 0 /\ last <= y => ~Matches(r, y)
    <3>1. CASE NameOf[x] = <<>>
      <4>1. last = 0 /\ last \in Nodes
        BY <3>1, EntryIs DEF last, End, m_head
      <4>2. \A y \in Entries : AsksFor(r, y)
        <5>1. SUFFICES ASSUME NEW y \in Entries PROVE IsPrefix(<<>>, NameOf[y])
          BY <3>1 DEF AsksFor
        <5>2. NameOf[y] \in Seq(Nat) /\ <<>> \in Seq(Nat) /\ Len(NameOf[y]) \in Nat
          BY EntryIs, NameIs
        <5>3. Len(<<>>) = 0 /\ 1..0 = {}
          OBVIOUS
        <5>4. Len(<<>>) <= Len(NameOf[y]) /\ \A i \in 1..Len(<<>>) : <<>>[i] = NameOf[y][i]
          BY <5>2, <5>3
        <5> QED
          BY <5>2, <5>4, PrefixIs
      <4> QED
        BY <4>1, <4>2 DEF Between
    <3>2. CASE NameOf[x] # <<>>
      <4>1. PICK s \in Bound : NameOf[s] = Successor(NameOf[x])
        BY <1>7, <3>2, InterestAssumption
      <4>2. next = s /\ s \in Nat
        BY <4>1, NumberIs, NameIs
      <4>3. last = LowerBound(s)
        BY <3>2, <4>2 DEF last
      <4>4. /\ last \in Nodes /\ (last # 0 => last \in Entries /\ s <= last)
            /\ \A y \in Entries : s <= y => last # 0 /\ last <= y
        BY <4>3, FirstUnder
      <4>5. start < s
        <5>1. start \in Bound
          BY <1>3, <1>7, EntryIs
        <5> QED
          BY <1>2, <1>7, <3>2, <4>1, <5>1, SuccessorIs DEF AsksFor
      <4>6. last = 0 \/ start < last
        <5>1. start \in Nat /\ (last # 0 => last \in Nat)
          BY <1>3, <1>7, <4>4, EntryIs
        <5> QED
          BY <4>2, <4>4, <4>5, <5>1
      <4>7. ASSUME NEW y \in Between(start, last) PROVE AsksFor(r, y)
        <5>1. y \in Entries /\ y \in Bound /\ y \in Nat /\ start <= y /\ (last = 0 \/ y < last)
          BY EntryIs DEF Between
        <5>2. start \in Nat /\ (last # 0 => last \in Nat)
          BY <1>3, <1>7, <4>4, EntryIs
        <5>3. x <= y
          BY <1>2, <1>3, <1>7, <5>1, <5>2
        <5>4. y < s
          BY <4>2, <4>4, <5>1, <5>2
        <5> QED
          BY <1>2, <3>2, <4>1, <5>1, <5>3, <5>4, SuccessorIs DEF AsksFor
      <4>8. ASSUME NEW y \in Entries, last # 0, last <= y PROVE ~Matches(r, y)
        <5>1. y \in Bound /\ y \in Nat /\ last \in Nat /\ s <= last
          BY <4>4, <4>8, EntryIs
        <5>2. ~(y < s)
          BY <4>2, <4>8, <5>1
        <5>3. ~AsksFor(r, y)
          BY <1>2, <3>2, <4>1, <5>1, <5>2, SuccessorIs DEF AsksFor
        <5> QED
          BY <5>3, StopsAreAskedFor
      <4> QED
        BY <4>4, <4>6, <4>7, <4>8
    <3> QED
      BY <3>1, <3>2
  <2>5. RightOK(r, start, last)
    BY <1>3, <1>7, <2>3, <2>4 DEF RightOK
  <2> QED
    BY <1>1, <2>1, <2>5, RightGoesOn
<1> QED
  BY <1>2, <1>5, <1>6, <1>7

(* One round of the leftmost search *)
LEMMA LeftRoundOK ==
  ASSUME ListOK, SearchOK, LeftRound
  PROVE  SearchOK'
<1>1. PICK r, it : search = [phase |-> "left", interest |-> r, it |-> it] /\ LeftOK(r, it)
  BY DEF LeftRound, SearchOK
<1>2. search.interest = r /\ search.it = it /\ UNCHANGED nexts
  BY <1>1 DEF LeftRound, list
<1>3. search' = IF it = 0 \/ ~IsPrefix(NameOf[r.name], EntryName(it)) THEN Done(r, 0)
                ELSE IF Dereferences(r, it) THEN [phase |-> "crashed", interest |-> r]
                ELSE IF Matches(r, it) THEN Done(r, it)
                ELSE [phase |-> "left", interest |-> r, it |-> nexts[it][0]]
  BY <1>1, <1>2 DEF LeftRound, End, m_head
<1>4. /\ r \in Interest /\ ~r.rightmost /\ it \in Nodes /\ (it # 0 => r.name <= it)
      /\ \A y \in Entries : it = 0 \/ y < it => ~Matches(r, y)
  BY <1>1 DEF LeftOK
<1>5. it # 0 => it \in Entries /\ it \in Bound /\ it \in Nat /\ EntryName(it) = NameOf[it]
  BY <1>4, EntryIs
<1>6. \A y \in Entries : y \in Bound /\ y \in Nat
  BY EntryIs
<1>7. CASE it = 0 \/ ~IsPrefix(NameOf[r.name], EntryName(it))
  <2>1. ASSUME NEW y \in Entries, Matches(r, y) PROVE FALSE
    <3>1. AsksFor(r, y)
      BY <2>1, StopsAreAskedFor
    <3>2. it # 0 /\ it <= y
      BY <1>4, <1>5, <1>6, <2>1
    <3>3. IsPrefix(NameOf[r.name], NameOf[it])
      BY <1>4, <1>5, <1>6, <3>1, <3>2, InterestIs, PrefixBetween DEF AsksFor
    <3> QED
      BY <1>5, <1>7, <3>2, <3>3
  <2>2. Selected(r) = 0
    BY <2>1, SelectedNone
  <2> QED
    BY <1>2, <1>3, <1>4, <1>7, <2>2, DoneIsRight
<1>8. CASE it # 0 /\ IsPrefix(NameOf[r.name], EntryName(it)) /\ Dereferences(r, it)
  <2>1. search'.phase = "crashed"
    BY <1>3, <1>8
  <2> QED
    BY <2>1 DEF SearchOK, SelectionIsRight
<1>9. CASE /\ it # 0 /\ IsPrefix(NameOf[r.name], EntryName(it))
           /\ ~Dereferences(r, it) /\ Matches(r, it)
  <2>1. Selected(r) = it
    BY <1>4, <1>5, <1>9, SelectedLeft
  <2> QED
    BY <1>2, <1>3, <1>4, <1>9, <2>1, DoneIsRight
<1>10. CASE /\ it # 0 /\ IsPrefix(NameOf[r.name], EntryName(it))
            /\ ~Dereferences(r, it) /\ ~Matches(r, it)
  <2>1. PICK n : n = nexts[it][0]
    OBVIOUS
  <2>2. /\ n \in Nodes /\ n \in Nat /\ (n # 0 => it < n)
        /\ \A m \in Nodes : it < m => n # 0 /\ n <= m
    BY <1>4, <2>1, LowestLevel
  <2>3. n # 0 => r.name <= n
    BY <1>4, <1>5, <1>10, <2>2, InterestIs
  <2>4. ASSUME NEW y \in Entries, n = 0 \/ y < n PROVE ~Matches(r, y)
    <3>1. y \in Nat /\ y \in Nodes
      BY EntryIs
    <3>2. ~(it < y)
      BY <2>2, <2>4, <3>1
    <3>3. y < it \/ y = it
      BY <1>5, <1>10, <3>1, <3>2
    <3> QED
      BY <1>4, <1>10, <3>3
  <2>5. LeftOK(r, n)
    BY <1>4, <2>2, <2>3, <2>4 DEF LeftOK
  <2> QED
    BY <1>2, <1>3, <1>10, <2>1, <2>5, LeftGoesOn
<1> QED
  BY <1>7, <1>8, <1>9, <1>10

-----------------------------------------------------------------------------
(* The entries that begin with the same components stand together; lower_bound of those
   components is the first of them. *)
LEMMA GroupIs ==
  ASSUME ListOK, NEW p \in Entries, NEW n \in Nat
  PROVE  LET g == FirstOf(NameOf[p], n)
             first == LowerBound(NumberOf(g))
         IN  /\ first \in Entries /\ first <= p
             /\ \A y \in Entries : first <= y /\ y <= p => IsPrefix(g, NameOf[y])
             /\ \A y \in Entries : IsPrefix(g, NameOf[y]) => first <= y
<1>1. PICK g : g = FirstOf(NameOf[p], n)
  OBVIOUS
<1>2. PICK x : x = NumberOf(g)
  OBVIOUS
<1>3. /\ p \in Bound /\ p \in Nat
      /\ g \in Seq(Nat) /\ Len(g) = (IF n < Len(NameOf[p]) THEN n ELSE Len(NameOf[p]))
      /\ \A i \in 1..Len(g) : g[i] = NameOf[p][i]
      /\ x \in Bound /\ NameOf[x] = g
  BY <1>1, <1>2, EntryIs, FirstOfIs
<1>4. IsPrefix(g, NameOf[p])
  <2>1. NameOf[p] \in Seq(Nat) /\ Len(NameOf[p]) \in Nat
    BY <1>3, NameIs
  <2>2. Len(g) <= Len(NameOf[p])
    BY <1>3, <2>1
  <2> QED
    BY <1>3, <2>1, <2>2, PrefixIs
<1>5. PICK first : first = LowerBound(x)
  OBVIOUS
<1>6. /\ first # 0 => first \in Entries /\ x <= first
      /\ \A y \in Entries : IsPrefix(g, NameOf[y]) => first # 0 /\ first <= y
  BY <1>3, <1>5, FirstUnder
<1>7. first \in Entries /\ x <= first /\ first <= p
  BY <1>4, <1>6
<1>8. ASSUME NEW y \in Entries, first <= y, y <= p PROVE IsPrefix(g, NameOf[y])
  <2>1. y \in Bound /\ y \in Nat /\ first \in Nat /\ x \in Nat
    BY <1>3, <1>7, EntryIs, NameIs
  <2>2. x <= y
    BY <1>7, <1>8, <2>1
  <2> QED
    BY <1>3, <1>4, <1>8, <2>1, <2>2, PrefixBetween
<1> QED
  BY <1>1, <1>2, <1>5, <1>6, <1>7, <1>8

LEMMA SameFirst ==
  ASSUME NEW x \in Bound, NEW y \in Bound, NEW n \in Nat, n <= Len(NameOf[x])
  PROVE  IsPrefix(FirstOf(NameOf[x], n), NameOf[y]) <=> FirstOf(NameOf[y], n) = FirstOf(NameOf[x], n)
<1>1. PICK a : a = FirstOf(NameOf[x], n)
  OBVIOUS
<1>2. PICK b : b = FirstOf(NameOf[y], n)
  OBVIOUS
<1>3. /\ NameOf[x] \in Seq(Nat) /\ Len(NameOf[x]) \in Nat
      /\ NameOf[y] \in Seq(Nat) /\ Len(NameOf[y]) \in Nat
  BY NameIs
<1>4. a \in Seq(Nat) /\ Len(a) = n
  <2>1. a \in Seq(Nat) /\ Len(a) = IF n < Len(NameOf[x]) THEN n ELSE Len(NameOf[x])
    BY <1>1, FirstOfIs
  <2> QED
    BY <1>3, <2>1
<1>5. /\ b \in Seq(Nat) /\ Len(b) = (IF n < Len(NameOf[y]) THEN n ELSE Len(NameOf[y]))
      /\ \A i \in 1..Len(b) : b[i] = NameOf[y][i]
  BY <1>2, FirstOfIs
<1>6. ASSUME IsPrefix(a, NameOf[y]) PROVE b = a
  <2>1. n <= Len(NameOf[y]) /\ \A i \in 1..n : a[i] = NameOf[y][i]
    BY <1>3, <1>4, <1>6, PrefixIs
  <2>2. Len(b) = n
    BY <1>3, <1>5, <2>1
  <2>3. \A i \in 1..n : a[i] = b[i]
    BY <1>5, <2>1, <2>2
  <2> QED
    BY <1>4, <1>5, <2>2, <2>3
<1>7. ASSUME b = a PROVE IsPrefix(a, NameOf[y])
  <2>1. Len(a) <= Len(NameOf[y]) /\ \A i \in 1..Len(a) : a[i] = NameOf[y][i]
    BY <1>3, <1>5, <1>7
  <2> QED
    BY <1>3, <1>4, <2>1, PrefixIs
<1> QED
  BY <1>1, <1>2, <1>6, <1>7

(* The group of children that an entry after the first one under the name belongs to *)
LEMMA GroupStartIs ==
  ASSUME ListOK, NEW r \in Interest, NEW p \in Entries, AsksFor(r, p), r.name < p
  PROVE  LET first == GroupStart(r, p) IN
         /\ first \in Entries /\ first <= p /\ AsksFor(r, first)
         /\ \A y \in Entries : first <= y /\ y <= p => Child(r, y) = Child(r, p)
         /\ \A y \in Entries : Child(r, y) = Child(r, p) => first <= y
<1>1. PICK a : a = NameOf[r.name]
  OBVIOUS
<1>2. /\ r.name \in Bound /\ r.name \in Nat /\ a \in Seq(Nat) /\ Len(a) \in Nat
      /\ p \in Bound /\ p \in Nat /\ EntryName(p) = NameOf[p]
      /\ NameOf[p] \in Seq(Nat) /\ Len(NameOf[p]) \in Nat
  BY <1>1, InterestIs, EntryIs, NameIs
<1>3. Len(a) <= Len(NameOf[p]) /\ \A i \in 1..Len(a) : a[i] = NameOf[p][i]
  BY <1>1, <1>2, PrefixIs DEF AsksFor
<1>4. Len(a) + 1 <= Len(NameOf[p])
  <2>1. SUFFICES ASSUME Len(a) = Len(NameOf[p]) PROVE FALSE
    BY <1>2, <1>3
  <2>2. NameOf[p] = NameOf[r.name]
    <3>1. PICK c : c = NameOf[p]
      OBVIOUS
    <3>2. c \in Seq(Nat) /\ Len(c) = Len(a) /\ \A i \in 1..Len(a) : a[i] = c[i]
      BY <1>2, <1>3, <2>1, <3>1
    <3>3. c = a
      <4>1. PICK n \in Nat : n = Len(a)
        BY <1>2
      <4>2. a \in Seq(Nat) /\ c \in Seq(Nat) /\ Len(c) = n /\ Len(a) = n /\ \A i \in 1..n : a[i] = c[i]
        BY <1>2, <3>2, <4>1
      <4> QED
        BY <4>2
    <3> QED
      BY <1>1, <3>1, <3>3
  <2>3. p = r.name
    <3>1. NumberOf(NameOf[p]) = p /\ NumberOf(NameOf[r.name]) = r.name
      BY <1>2, NumberIs
    <3> QED
      BY <2>2, <3>1
  <2> QED
    BY <1>2, <2>3
<1>5. PICK g : g = FirstOf(NameOf[p], Len(a) + 1)
  OBVIOUS
<1>6. PICK first : first = GroupStart(r, p)
  OBVIOUS
<1>7. /\ first \in Entries /\ first <= p
      /\ \A y \in Entries : first <= y /\ y <= p => IsPrefix(g, NameOf[y])
      /\ \A y \in Entries : IsPrefix(g, NameOf[y]) => first <= y
  <2>1. Len(a) + 1 \in Nat /\ first = LowerBound(NumberOf(FirstOf(NameOf[p], Len(a) + 1)))
    BY <1>1, <1>2, <1>6 DEF GroupStart
  <2> QED
    BY <1>5, <2>1, GroupIs
<1>8. \A y \in Entries : IsPrefix(g, NameOf[y]) <=> Child(r, y) = Child(r, p)
  BY <1>1, <1>2, <1>4, <1>5, SameFirst, EntryIs DEF Child
<1>9. AsksFor(r, first)
  <2>1. IsPrefix(g, NameOf[first]) /\ first \in Bound
    <3>1. first <= first
      BY <1>7, EntryIs
    <3> QED
      BY <1>7, <3>1, EntryIs
  <2>2. NameOf[first] \in Seq(Nat) /\ Len(NameOf[first]) \in Nat
    BY <2>1, NameIs
  <2>3. g \in Seq(Nat) /\ Len(g) = Len(a) + 1 /\ \A i \in 1..Len(g) : g[i] = NameOf[p][i]
    <3>1. /\ g \in Seq(Nat)
          /\ Len(g) = (IF Len(a) + 1 < Len(NameOf[p]) THEN Len(a) + 1 ELSE Len(NameOf[p]))
          /\ \A i \in 1..Len(g) : g[i] = NameOf[p][i]
      <4>1. Len(a) + 1 \in Nat
        BY <1>2
      <4> QED
        BY <1>2, <1>5, <4>1, FirstOfIs
    <3> QED
      BY <1>2, <1>4, <3>1
  <2>4. Len(g) <= Len(NameOf[first]) /\ \A i \in 1..Len(g) : g[i] = NameOf[first][i]
    BY <2>1, <2>2, <2>3, PrefixIs
  <2>5. Len(a) <= Len(NameOf[first])
    BY <1>2, <2>2, <2>3, <2>4
  <2>6. ASSUME NEW i \in 1..Len(a) PROVE a[i] = NameOf[first][i]
    <3>1. i \in 1..Len(g)
      BY <1>2, <2>3
    <3>2. a[i] = NameOf[p][i] /\ g[i] = NameOf[p][i] /\ g[i] = NameOf[first][i]
      BY <1>3, <2>3, <2>4, <3>1
    <3> QED
      BY <3>2
  <2> QED
    BY <1>1, <1>2, <2>2, <2>5, <2>6, PrefixIs DEF AsksFor
<1> QED
  BY <1>6, <1>7, <1>8, <1>9

(* One round of the rightmost search.  Beyond the first entry under the name: the group of
   the entry before last. *)
LEMMA LastGroup ==
  ASSUME ListOK, NEW r, NEW boundary, NEW last, RightOK(r, boundary, last),
         last = 0 \/ boundary < last
  PROVE  LET prev == prevs[last][0] IN
         /\ prev \in Between(boundary, last) /\ AsksFor(r, prev)
         /\ \A y \in Entries : prev < y => last # 0 /\ last <= y
<1>1. /\ boundary \in Entries /\ last \in Nodes
      /\ boundary \in Nat /\ boundary # 0 /\ boundary \in Nodes /\ last \in Nat
  BY EntryIs, LowestLevel DEF RightOK
<1>2. PICK prev : prev = prevs[last][0]
  OBVIOUS
<1>3. prev \in Nodes /\ prev \in Nat /\ nexts[prev][0] = last
  BY <1>1, <1>2, LowestLevel
<1>4. /\ last # 0 => prev < last
      /\ \A m \in Nodes : prev < m => last # 0 /\ last <= m
  BY <1>3, LowestLevel
<1>5. boundary <= prev /\ prev # 0
  <2>1. ~(prev < boundary)
    <3>1. SUFFICES ASSUME prev < boundary PROVE FALSE
      OBVIOUS
    <3>2. last # 0 /\ last <= boundary
      BY <1>1, <1>4, <3>1
    <3> QED
      BY <1>1, <3>2
  <2> QED
    BY <1>1, <1>3, <2>1
<1>6. prev \in Entries /\ \A y \in Entries : y \in Nodes
  BY <1>3, <1>5, EntryIs
<1>7. prev \in Between(boundary, last)
  BY <1>4, <1>5, <1>6 DEF Between
<1>8. AsksFor(r, prev)
  BY <1>1, <1>7 DEF RightOK
<1> QED
  BY <1>2, <1>4, <1>6, <1>7, <1>8

(* When the search has stepped over the first entry under the name, nothing matches, and
   a round moves last down. *)
LEMMA SteppedOver ==
  ASSUME ListOK, NEW r, NEW boundary, NEW last, RightOK(r, boundary, last),
         last # 0, last <= boundary
  PROVE  LET prev == prevs[last][0]
             first == GroupStart(r, prev)
         IN  /\ prev # boundary
             /\ first \in Nodes /\ first # 0 /\ first <= boundary
             /\ Scan(r, first, last) = last
             /\ \A y \in Entries : ~Matches(r, y)
<1>1. /\ r \in Interest /\ boundary \in Entries /\ last \in Nodes
      /\ boundary \in Nat /\ boundary # 0 /\ last \in Nat /\ last \in Entries
  BY EntryIs, LowestLevel DEF RightOK
<1>2. PICK prev : prev = prevs[last][0]
  OBVIOUS
<1>3. prev \in Nodes /\ prev \in Nat /\ nexts[prev][0] = last /\ prev < last
  BY <1>1, <1>2, LowestLevel
<1>4. PICK first : first = GroupStart(r, prev)
  OBVIOUS
<1>5. \A y \in Entries : y < last => ~Stops(r, y) /\ ~Matches(r, y)
  <2>1. SUFFICES ASSUME NEW y \in Entries, y < last PROVE ~AsksFor(r, y)
    BY StopsAreAskedFor
  <2>2. y < boundary
    BY <1>1, <2>1, EntryIs
  <2> QED
    BY <2>2 DEF RightOK
<1>6. \A y \in Entries : ~Matches(r, y)
  <2>1. \A y \in Entries : last <= y => ~Matches(r, y)
    BY <1>1 DEF RightOK
  <2>2. \A y \in Entries : y < last \/ last <= y
    BY <1>1, EntryIs
  <2> QED
    BY <1>5, <2>1, <2>2
<1>7. first \in Entries /\ first <= last
  <2>1. Len(NameOf[r.name]) + 1 \in Nat
    BY <1>1, InterestIs
  <2>2. CASE prev # 0
    <3>1. prev \in Entries /\ EntryName(prev) = NameOf[prev]
      BY <1>3, <2>2, EntryIs
    <3>2. first = LowerBound(NumberOf(FirstOf(NameOf[prev], Len(NameOf[r.name]) + 1)))
      BY <1>4, <3>1 DEF GroupStart
    <3>3. first \in Entries /\ first <= prev
      BY <2>1, <3>1, <3>2, GroupIs
    <3> QED
      BY <1>1, <1>3, <3>3, EntryIs
  <2>3. CASE prev = 0
    <3>1. FirstOf(EntryName(prev), Len(NameOf[r.name]) + 1) = <<>>
      <4>1. EntryName(prev) = <<>>
        BY <2>3 DEF EntryName, m_head
      <4>2. Len(<<>>) = 0
        OBVIOUS
      <4>3. ~(Len(NameOf[r.name]) + 1 < 0)
        BY <2>1
      <4>4. SubSeq(<<>>, 1, 0) = <<>>
        OBVIOUS
      <4> QED
        BY <4>1, <4>2, <4>3, <4>4 DEF FirstOf
    <3>2. PICK z \in Bound : NameOf[z] = <<>>
      <4>1. r.name \in Bound /\ Len(NameOf[r.name]) \in Nat /\ NameOf[r.name] \in Seq(Nat)
        BY <1>1, InterestIs
      <4>2. PICK z \in Bound : NameOf[z] = SubSeq(NameOf[r.name], 1, 0)
        BY <4>1, NameAssumption
      <4>3. SubSeq(NameOf[r.name], 1, 0) = <<>>
        BY <4>1
      <4> QED
        BY <4>2, <4>3
    <3>3. first = LowerBound(z)
      BY <1>4, <3>1, <3>2, NumberIs DEF GroupStart
    <3>4. IsPrefix(NameOf[z], NameOf[last])
      <4>1. NameOf[last] \in Seq(Nat) /\ <<>> \in Seq(Nat) /\ Len(NameOf[last]) \in Nat
        BY <1>1, EntryIs, NameIs
      <4>2. Len(<<>>) = 0 /\ 1..0 = {}
        OBVIOUS
      <4>3. Len(<<>>) <= Len(NameOf[last]) /\ \A i \in 1..Len(<<>>) : <<>>[i] = NameOf[last][i]
        BY <4>1, <4>2
      <4>4. IsPrefix(<<>>, NameOf[last])
        BY <4>1, <4>3, PrefixIs
      <4> QED
        BY <3>2, <4>4
    <3> QED
      BY <1>1, <3>3, <3>4, FirstUnder
  <2> QED
    BY <2>2, <2>3
<1>8. Scan(r, first, last) = last
  <2>1. IsFirstStop(r, first, last, Scan(r, first, last))
    BY <1>1, <1>7, ScanIs
  <2>2. \A y \in Between(first, last) : ~Stops(r, y)
    BY <1>5 DEF Between
  <2> QED
    BY <2>1, <2>2 DEF IsFirstStop
<1>9. first <= boundary /\ first # 0 /\ first \in Nodes
  BY <1>1, <1>7, EntryIs
<1> QED
  BY <1>1, <1>2, <1>3, <1>4, <1>6, <1>8, <1>9

(* The group of the entry before last: it holds the entry to return, or last moves to its
   start. *)
LEMMA RightRoundOK ==
  ASSUME ListOK, SearchOK, RightRound
  PROVE  SearchOK'
<1>1. PICK r, boundary, last :
        /\ search = [phase |-> "right", interest |-> r, boundary |-> boundary, last |-> last]
        /\ RightOK(r, boundary, last)
  BY DEF RightRound, SearchOK
<1>2. /\ search.interest = r /\ search.boundary = boundary /\ search.last = last
      /\ UNCHANGED nexts
  BY <1>1 DEF RightRound, list
<1>3. PICK prev : prev = prevs[last][0]
  OBVIOUS
<1>4. PICK first : first = GroupStart(r, prev)
  OBVIOUS
<1>5. PICK found : found = IF prev = boundary THEN prev ELSE Scan(r, first, last)
  OBVIOUS
<1>6. search' = IF found # last /\ Dereferences(r, found)
                  THEN [phase |-> "crashed", interest |-> r]
                ELSE IF found # last /\ Matches(r, found) THEN Done(r, found)
                ELSE IF prev = boundary THEN Done(r, 0)
                ELSE [phase |-> "right", interest |-> r, boundary |-> boundary, last |-> first]
  BY <1>1, <1>2, <1>3, <1>4, <1>5 DEF RightRound, AtBoundary, End, m_head
<1>7. /\ r \in Interest /\ r.rightmost
      /\ boundary \in Entries /\ AsksFor(r, boundary)
      /\ \A y \in Entries : y < boundary => ~AsksFor(r, y)
      /\ last \in Nodes
      /\ \A y \in Entries : last # 0 /\ last <= y => ~Matches(r, y)
  BY <1>1 DEF RightOK
<1>8. /\ boundary \in Nat /\ last \in Nat
      /\ \A y \in Entries : y \in Nat /\ y \in Nodes /\ y # 0 /\ y \in Bound
  BY <1>7, EntryIs, LowestLevel
<1>9. CASE last # 0 /\ last <= boundary
  <2>1. /\ prev # boundary /\ first \in Nodes /\ first # 0 /\ first <= boundary
        /\ found = last /\ \A y \in Entries : ~Matches(r, y)
    BY <1>1, <1>3, <1>4, <1>5, <1>9, SteppedOver
  <2>2. search' = [phase |-> "right", interest |-> r, boundary |-> boundary, last |-> first]
    BY <1>6, <2>1
  <2>3. RightOK(r, boundary, first)
    BY <1>7, <2>1 DEF RightOK
  <2> QED
    BY <1>2, <2>2, <2>3, RightGoesOn
<1>10. CASE last = 0 \/ boundary < last
  <2>1. /\ prev \in Entries /\ boundary <= prev /\ (last = 0 \/ prev < last) /\ AsksFor(r, prev)
        /\ \A y \in Entries : prev < y => last # 0 /\ last <= y
    BY <1>1, <1>3, <1>10, LastGroup DEF Between
  <2>2. prev \in Nat /\ prev # 0 /\ prev # last
    BY <1>8, <2>1
  <2>3. \A y \in Entries : prev < y => ~Matches(r, y)
    BY <1>7, <2>1
  <2>4. CASE found # last /\ Dereferences(r, found)
    <3>1. search'.phase = "crashed"
      BY <1>6, <2>4
    <3> QED
      BY <3>1 DEF SearchOK, SelectionIsRight
  <2>5. CASE prev = boundary /\ ~Dereferences(r, found)
    <3>1. found = boundary /\ found # last
      BY <1>5, <2>2, <2>5
    <3>2. \A y \in Entries : y < boundary => ~Matches(r, y)
      BY <1>7, StopsAreAskedFor
    <3>3. CASE Matches(r, boundary)
      <4>1. Selected(r) = boundary
        BY <1>7, <2>3, <2>5, <3>2, <3>3, SelectedRight
      <4> QED
        BY <1>2, <1>6, <1>7, <2>5, <3>1, <3>3, <4>1, DoneIsRight
    <3>4. CASE ~Matches(r, boundary)
      <4>1. ASSUME NEW y \in Entries, Matches(r, y) PROVE FALSE
        <5>1. y \in Nat /\ ~(y < boundary) /\ ~(boundary < y) /\ y # boundary
          BY <1>8, <2>3, <2>5, <3>2, <3>4, <4>1
        <5> QED
          BY <1>8, <5>1
      <4>2. Selected(r) = 0
        BY <4>1, SelectedNone
      <4> QED
        BY <1>2, <1>6, <1>7, <2>5, <3>1, <3>4, <4>2, DoneIsRight
    <3> QED
      BY <3>3, <3>4
  <2>6. CASE prev # boundary
    <3>1. r.name < prev
      <4>1. r.name \in Bound /\ r.name \in Nat
        BY <1>7, InterestIs
      <4>2. r.name <= boundary
        BY <1>7, <1>8, <4>1, PrefixFirst DEF AsksFor
      <4> QED
        BY <1>8, <2>1, <2>2, <2>6, <4>1, <4>2
    <3>2. /\ first \in Entries /\ first <= prev /\ AsksFor(r, first)
          /\ \A y \in Entries : first <= y /\ y <= prev => Child(r, y) = Child(r, prev)
          /\ \A y \in Entries : Child(r, y) = Child(r, prev) => first <= y
      BY <1>4, <1>7, <2>1, <3>1, GroupStartIs
    <3>3. first \in Nat /\ first # 0 /\ first \in Nodes /\ boundary <= first
          /\ (last = 0 \/ first < last)
      <4>1. ~(first < boundary)
        BY <1>7, <3>2
      <4>2. first \in Nat /\ first # 0 /\ first \in Nodes
        BY <1>8, <3>2
      <4> QED
        BY <1>8, <2>1, <2>2, <3>2, <4>1, <4>2
    <3>4. IsFirstStop(r, first, last, found)
      <4>1. last = 0 \/ first <= last
        BY <1>8, <3>3
      <4> QED
        BY <1>5, <1>7, <2>6, <3>2, <4>1, ScanIs
    <3>5. \A y \in Between(first, last) : y \in Entries /\ Child(r, y) = Child(r, prev)
      <4>1. SUFFICES ASSUME NEW y \in Entries, first <= y, last = 0 \/ y < last
                     PROVE  Child(r, y) = Child(r, prev)
        BY DEF Between
      <4>2. y \in Nat /\ ~(last # 0 /\ last <= y)
        BY <1>8, <4>1
      <4>3. ~(prev < y)
        BY <2>1, <4>2
      <4>4. y <= prev
        BY <2>2, <4>2, <4>3
      <4> QED
        BY <3>2, <4>1, <4>4
    <3>6. CASE found # last /\ Matches(r, found) /\ ~Dereferences(r, found)
      <4>1. /\ found \in Between(first, last)
            /\ \A q \in Between(first, last) : q < found => ~Stops(r, q)
        BY <3>4, <3>6 DEF IsFirstStop
      <4>2. /\ found \in Entries /\ found \in Nat /\ first <= found
            /\ (last = 0 \/ found < last) /\ Child(r, found) = Child(r, prev)
        BY <1>8, <3>5, <4>1 DEF Between
      <4>3. ASSUME NEW y \in Entries, y > found, Matches(r, y)
            PROVE  Child(r, y) = Child(r, found)
        <5>1. y \in Nat /\ ~(last # 0 /\ last <= y)
          BY <1>7, <1>8, <4>3
        <5>2. first <= y /\ (last = 0 \/ y < last)
          BY <1>8, <3>3, <4>2, <4>3, <5>1
        <5> QED
          BY <3>5, <4>2, <5>2 DEF Between
      <4>4. ASSUME NEW y \in Entries, y < found, Matches(r, y)
            PROVE  Child(r, y) # Child(r, found)
        <5>1. SUFFICES ASSUME Child(r, y) = Child(r, prev) PROVE FALSE
          BY <4>2
        <5>2. y \in Nat /\ first <= y
          BY <1>8, <3>2, <5>1
        <5>3. y \in Between(first, last)
          BY <1>8, <4>2, <4>4, <5>2 DEF Between
        <5> QED
          BY <4>1, <4>4, <5>3 DEF Stops
      <4>5. Selected(r) = found
        BY <1>7, <3>6, <4>2, <4>3, <4>4, SelectedRight
      <4> QED
        BY <1>2, <1>6, <1>7, <3>6, <4>5, DoneIsRight
    <3>7. CASE ~(found # last /\ Matches(r, found)) /\ ~(found # last /\ Dereferences(r, found))
      <4>1. \A y \in Between(first, last) : ~Matches(r, y)
        BY <3>4, <3>7 DEF IsFirstStop, Stops
      <4>2. search' = [phase |-> "right", interest |-> r, boundary |-> boundary, last |-> first]
        BY <1>6, <2>6, <3>7
      <4>3. ASSUME NEW y \in Entries, first <= y PROVE ~Matches(r, y)
        <5>1. CASE last = 0 \/ y < last
          BY <4>1, <4>3, <5>1 DEF Between
        <5>2. CASE ~(last = 0 \/ y < last)
          BY <1>7, <1>8, <5>2
        <5> QED
          BY <5>1, <5>2
      <4>4. \A y \in Between(boundary, first) : AsksFor(r, y)
        <5>1. SUFFICES ASSUME NEW y \in Entries, boundary <= y, y < first PROVE AsksFor(r, y)
          BY <3>3 DEF Between
        <5>2. last = 0 \/ y < last
          BY <1>8, <3>3, <5>1
        <5>3. \A z \in Between(boundary, last) : AsksFor(r, z)
          BY <1>1, <1>8, <1>10 DEF RightOK
        <5> QED
          BY <5>1, <5>2, <5>3 DEF Between
      <4>5. boundary < first \/ first <= boundary
        BY <1>8, <3>3
      <4>6. RightOK(r, boundary, first)
        BY <1>7, <3>3, <4>3, <4>4, <4>5 DEF RightOK
      <4> QED
        BY <1>2, <4>2, <4>6, RightGoesOn
    <3> QED
      BY <2>4, <3>6, <3>7
  <2>7. prev = boundary => found # last
    BY <1>5, <2>2
  <2> QED
    BY <2>4, <2>5, <2>6, <2>7
<1> QED
  BY <1>8, <1>9, <1>10

(* Every step keeps the invariant of the search. *)
LEMMA StepKeepsSearch ==
  ASSUME ListOK, SearchOK, [IndexNext]_ivars
  PROVE  SearchOK'
<1>1. ASSUME search' = Idle PROVE SearchOK'
  <2>1. search'.phase = "idle"
    BY <1>1 DEF Idle
  <2> QED
    BY <2>1 DEF SearchOK, SelectionIsRight
<1>2. ASSUME NEW x \in Key, NEW level \in 0..MaxLevels, InsertEntry(x, level) PROVE SearchOK'
  BY <1>1, <1>2 DEF InsertEntry
<1>3. ASSUME NEW x \in Key, EraseEntry(x) PROVE SearchOK'
  BY <1>1, <1>3 DEF EraseEntry
<1>4. ASSUME NEW x \in Bound, FindByName(x) PROVE SearchOK'
  BY <1>4, FindByNameOK
<1>5. ASSUME NEW r \in Interest, FindByInterest(r) PROVE SearchOK'
  BY <1>5, FindByInterestOK
<1>6. CASE LeftRound
  BY <1>6, LeftRoundOK
<1>7. CASE RightRound
  BY <1>7, RightRoundOK
<1>8. CASE Return
  BY <1>1, <1>8 DEF Return
<1>9. CASE Crash
  BY <1>1, <1>9 DEF Crash
<1>10. CASE UNCHANGED ivars
  <2>1. UNCHANGED <<nexts, prevs, search>>
    BY <1>10 DEF ivars
  <2>2. SelectionIsRight' = SelectionIsRight
    BY <2>1 DEF SelectionIsRight, Selected, Matching, SameChild, Under, Entries, Nodes
  <2>3. CASE search.phase \notin {"left", "right"}
    BY <2>1, <2>2, <2>3 DEF SearchOK
  <2>4. CASE search.phase = "left"
    <3>1. PICK r, it : search = [phase |-> "left", interest |-> r, it |-> it] /\ LeftOK(r, it)
      BY <2>4 DEF SearchOK
    <3> QED
      BY <2>1, <3>1, LeftGoesOn
  <2>5. CASE search.phase = "right"
    <3>1. PICK r, boundary, last :
            /\ search = [phase |-> "right", interest |-> r, boundary |-> boundary, last |-> last]
            /\ RightOK(r, boundary, last)
      BY <2>5 DEF SearchOK
    <3> QED
      BY <2>1, <3>1, RightGoesOn
  <2> QED
    BY <2>3, <2>4, <2>5
<1> QED
  BY <1>2, <1>3, <1>4, <1>5, <1>6, <1>7, <1>8, <1>9, <1>10 DEF IndexNext

(* In any container contents and for every Interest: when a search returns, a deletion gets
   the first entry under the name, and a reader the entry that the selectors ask for, the
   first match or the first match of the last child that has one. *)
THEOREM SearchesAreRight == IndexSpec => []SelectionIsRight
<1>1. IndexInit => SearchOK
  <2>1. IndexInit => search.phase = "idle"
    BY DEF IndexInit, Idle
  <2> QED
    BY <2>1 DEF SearchOK, SelectionIsRight
<1>2. ListOK /\ SearchOK /\ [IndexNext]_ivars => SearchOK'
  BY StepKeepsSearch
<1>3. SearchOK => SelectionIsRight
  BY DEF SearchOK
<1> QED
  BY <1>1, <1>2, <1>3, ListIsKept, PTL DEF IndexSpec

=============================================================================
