-------------------------- MODULE RepoStorageProofs --------------------------
(***************************************************************************)
(* Proofs about RepoStorage: its type invariant, that the index leads to   *)
(* the right rows when no write is lost silently, and that no row is left  *)
(* behind when moreover the index cannot be full.                          *)
(***************************************************************************)
EXTENDS RepoStorage, FiniteSetTheorems, WellFoundedInduction, TLAPS

USE DEF disk, memory, Ids, RowNames, NoReply, Threw, Inserted, Deleted, Empty

(* A set of naturals that is not empty has a least element. *)
LEMMA LeastElement ==
  ASSUME NEW S \in SUBSET Nat, S # {}
  PROVE  \E m \in S : \A k \in S : m <= k
<1> DEFINE R == {ss \in Nat \X Nat : ss[1] < ss[2]}
<1>1. IsWellFoundedOn(R, Nat)
  BY NatLessThanWellFounded DEF OpToRel
<1>2. \E m \in S : \A k \in S : ~ (<<k, m>> \in R)
  <2> HIDE DEF R
  <2> QED
    BY <1>1, WFMin
<1>3. PICK m \in S : \A k \in S : ~ (<<k, m>> \in R)
  BY <1>2
<1>4. ASSUME NEW k \in S PROVE m <= k
  <2>1. <<k, m>> \in Nat \X Nat /\ <<k, m>>[1] = k /\ <<k, m>>[2] = m
    OBVIOUS
  <2>2. ~(k < m)
    BY <1>3, <2>1
  <2> QED
    BY <2>2
<1> QED
  BY <1>4

(* A start has read every row when there is no next one. *)
LEMMA AllRowsRead ==
  ASSUME TypeOK, Loading, NextRow = {}
  PROVE  \A i \in Ids : i <= cursor
<1> SUFFICES ASSUME NEW k \in Ids, cursor < k PROVE FALSE
  BY DEF TypeOK, Loading, NotLoading
<1> DEFINE S == {i \in Ids : i > cursor}
<1>1. S \in SUBSET Nat /\ S # {}
  BY DEF TypeOK
<1>2. PICK i \in S : \A j \in S : i <= j
  <2> HIDE DEF S
  <2> QED
    BY <1>1, LeastElement
<1>3. i \in NextRow
  BY <1>2 DEF NextRow
<1> QED
  BY <1>3

(* An id that fits in an int is read back as it was written. *)
LEMMA ColumnIntIsId ==
  ASSUME MaxId <= IntMax, NEW i \in 0..MaxId
  PROVE  ColumnInt(i) = i
<1>1. i + IntMax + 1 \in 0..(2 * (IntMax + 1) - 1) /\ 2 * (IntMax + 1) \in Nat \ {0}
  BY IntMaxAssumption, MaxIdAssumption
<1>2. (i + IntMax + 1) % (2 * (IntMax + 1)) = i + IntMax + 1
  BY <1>1, IntMaxAssumption, MaxIdAssumption
<1> QED
  BY <1>2, IntMaxAssumption, MaxIdAssumption DEF ColumnInt

-----------------------------------------------------------------------------
(* A step of a module over the storage: one of its operations, with any query, or none,
   whatever becomes of the last reply. *)
AnyNext ==
  \/ Next
  \/ \E q : DeleteData(q) \/ DeleteError(q) \/ ReadData(q) \/ ReadError(q)
  \/ UNCHANGED <<disk, memory, up>>

(* The steps of the storage itself are among them. *)
LEMMA NextIsAny == [Next]_vars => AnyNext
BY DEF AnyNext, vars

(* The initial state has the right shape. *)
LEMMA InitTypeOK == Init => TypeOK
<1> SUFFICES ASSUME Init PROVE TypeOK
  OBVIOUS
<1>1. DOMAIN Empty = {}
  OBVIOUS
<1>2. rows \in [Ids -> Name \ Nameless] /\ index \in [DOMAIN index -> [id : Int, hashed : BOOLEAN]]
  BY <1>1 DEF Init
<1>3. Ids = {} /\ DOMAIN index = {}
  BY <1>1 DEF Init
<1>4. lastId \in 0..MaxId /\ rowid \in 0..lastId /\ size \in Int
  BY MaxIdAssumption DEF Init
<1>5. up \in BOOLEAN /\ index = Empty
  BY Zenon DEF Init
<1>6. cursor \in {NotLoading} \cup 0..lastId /\ ~Loading
  BY Zenon DEF Init, Loading
<1> QED
  BY <1>2, <1>3, <1>4, <1>5, <1>6 DEF TypeOK

(* Every operation keeps the shape of the state. *)
LEMMA NextTypeOK == TypeOK /\ AnyNext => TypeOK'
<1> SUFFICES ASSUME TypeOK, AnyNext PROVE TypeOK'
  OBVIOUS
<1> USE DEF TypeOK, Loading, NotLoading
<1>1. ASSUME NEW n \in Name, InsertDuplicate(n) PROVE TypeOK'
  BY <1>1 DEF InsertDuplicate, Throw, Die
<1>2. ASSUME NEW n \in Name, InsertNameless(n) PROVE TypeOK'
  BY <1>2 DEF InsertNameless
<1>3. ASSUME NEW n \in Name, InsertData(n) PROVE TypeOK'
  <2>1. /\ lastId' \in 0..MaxId /\ lastId <= lastId'
        /\ DOMAIN rows' \subseteq 1..lastId'
        /\ rows' \in [DOMAIN rows' -> Name \ Nameless]
        /\ rowid' \in 0..lastId'
        /\ size' \in Int
    BY <1>3, MaxIdAssumption DEF InsertData, PutRow, LoseRow
  <2>2. CASE Throw
    <3>1. CASE UNCHANGED <<index, cursor, up>>
      BY <1>3, <2>1, <3>1 DEF InsertData
    <3>2. CASE up' = FALSE /\ index' = Empty /\ cursor' = NotLoading
      BY <2>1, <3>2
    <3> QED
      BY <2>2, <3>1, <3>2 DEF Throw, Die
  <2>3. CASE index' = [m \in DOMAIN index \cup {n} |->
                         IF m = n THEN [id |-> rowid', hashed |-> TRUE] ELSE index[m]]
             /\ UNCHANGED <<cursor, up>>
    BY <1>3, <2>1, <2>3 DEF InsertData
  <2> QED
    BY <1>3, <2>2, <2>3 DEF InsertData, AddEntry
<1>4. ASSUME NEW n \in Name, InsertError(n) PROVE TypeOK'
  BY <1>4 DEF InsertError, Throw, Die
<1>5. ASSUME NEW q, DeleteData(q) PROVE TypeOK'
  <2>1. IsFiniteSet(IdsOf(Visited(q)) \cap Ids)
    BY FS_Interval, FS_Subset, 1 \in Int, lastId \in Int
  <2>2. size' \in Int
    BY <1>5, <2>1, FS_CardinalityType DEF DeleteData, EraseRows
  <2> QED
    BY <1>5, <2>2 DEF DeleteData, EraseRows
<1>6. ASSUME NEW q, DeleteError(q) PROVE TypeOK'
  BY <1>6 DEF DeleteError, Die
<1>7. ASSUME NEW q, ReadData(q) PROVE TypeOK'
  BY <1>7 DEF ReadData
<1>8. ASSUME NEW q, ReadError(q) PROVE TypeOK'
  BY <1>8 DEF ReadError, Die
<1>9. CASE BeginLoad
  BY <1>9 DEF BeginLoad
<1>10. CASE LoadRow
  <2>1. PICK i \in NextRow :
          /\ cursor' = i
          /\ index' = [n \in DOMAIN index \cup {rows[i]} |->
                        IF n \in DOMAIN index THEN index[n]
                        ELSE [id |-> ColumnInt(i), hashed |-> FALSE]]
    BY <1>10 DEF LoadRow
  <2>2. i \in Ids /\ i \in 0..lastId /\ rows[i] \in Name \ Nameless
    BY DEF NextRow
  <2>3. ColumnInt(i) \in Int
    BY <2>2, IntMaxAssumption DEF ColumnInt
  <2>4. index' \in [DOMAIN index' -> [id : Int, hashed : BOOLEAN]] /\ DOMAIN index' \subseteq Name \ Nameless
    BY <2>1, <2>2, <2>3
  <2> QED
    BY <1>10, <2>1, <2>2, <2>4 DEF LoadRow
<1>11. CASE FinishLoad
  <2>1. IsFiniteSet(Ids)
    BY FS_Interval, FS_Subset, 1 \in Int, lastId \in Int
  <2>2. size' \in Int
    BY <1>11, <2>1, FS_CardinalityType DEF FinishLoad
  <2> QED
    BY <1>11, <2>2 DEF FinishLoad
<1>12. CASE LoadFails
  BY <1>12 DEF LoadFails, Die
<1>13. CASE Stop
  BY <1>13 DEF Stop, Die
<1>14. CASE UNCHANGED <<disk, memory, up>>
  BY <1>14
<1> QED
  BY <1>1, <1>2, <1>3, <1>4, <1>5, <1>6, <1>7, <1>8, <1>9, <1>10, <1>11, <1>12, <1>13, <1>14 DEF AnyNext, Next

(* Type correctness of the storage, for any capacity and with lost writes. *)
THEOREM TypeCorrect == Spec => []TypeOK
  BY InitTypeOK, NextTypeOK, NextIsAny, PTL DEF Spec

-----------------------------------------------------------------------------
(* When SQLite reports every failed write and ids fit in an int, the entries added by
   insert, kept by delete and loaded by a start all lead to rows of their own name; the
   ids handed out so far bound the ids in use, so a new row disturbs no entry. *)
LEMMA NextIndexPointsToOwnRow ==
  ASSUME ~LostWrites, MaxId <= IntMax, TypeOK, TypeOK', IndexPointsToOwnRow, AnyNext
  PROVE  IndexPointsToOwnRow'
<1> USE DEF IndexPointsToOwnRow
<1>1. ASSUME DOMAIN index' = {} PROVE IndexPointsToOwnRow'
  BY <1>1
<1>2. ASSUME index' = Empty PROVE IndexPointsToOwnRow'
  BY <1>2, <1>1
<1>3. ASSUME Throw, UNCHANGED rows PROVE IndexPointsToOwnRow'
  BY <1>2, <1>3 DEF Throw, Die
<1>4. ASSUME NEW n \in Name, InsertDuplicate(n) PROVE IndexPointsToOwnRow'
  BY <1>3, <1>4 DEF InsertDuplicate
<1>5. ASSUME NEW n \in Name, InsertNameless(n) PROVE IndexPointsToOwnRow'
  BY <1>5 DEF InsertNameless
<1>6. ASSUME NEW n \in Name, InsertData(n) PROVE IndexPointsToOwnRow'
  <2>1. /\ rowid' = lastId + 1
        /\ Ids' = Ids \cup {lastId + 1}
        /\ rows'[lastId + 1] = n
        /\ lastId + 1 \notin Ids
        /\ \A i \in Ids : rows'[i] = rows[i]
    BY <1>6 DEF InsertData, PutRow, LoseRow, TypeOK
  <2>2. \A m \in DOMAIN index : index[m].id \in Ids' /\ rows'[index[m].id] = m
    BY <2>1
  <2>3. CASE UNCHANGED index
    BY <2>2, <2>3
  <2>4. CASE index' = Empty
    BY <1>2, <2>4
  <2>5. CASE index' = [m \in DOMAIN index \cup {n} |->
                         IF m = n THEN [id |-> rowid', hashed |-> TRUE] ELSE index[m]]
    BY <2>1, <2>2, <2>5
  <2> QED
    BY <1>6, <2>3, <2>4, <2>5 DEF InsertData, AddEntry, Throw, Die
<1>7. ASSUME NEW n \in Name, InsertError(n) PROVE IndexPointsToOwnRow'
  BY <1>3, <1>7 DEF InsertError
<1>8. ASSUME NEW q, DeleteData(q) PROVE IndexPointsToOwnRow'
  <2>1. ASSUME NEW m \in DOMAIN index' PROVE index'[m].id \in Ids' /\ rows'[index'[m].id] = m
    <3>1. m \in DOMAIN index /\ m \notin Visited(q) /\ index'[m] = index[m]
      BY <1>8, <2>1 DEF DeleteData
    <3>2. \A n \in Visited(q) : n \in DOMAIN index
      BY DEF Visited, Matching
    <3>3. index[m].id \notin IdsOf(Visited(q))
      BY <3>1, <3>2 DEF IdsOf
    <3> QED
      BY <1>8, <3>1, <3>3 DEF DeleteData, EraseRows
  <2> QED
    BY <2>1
<1>9. ASSUME NEW q, DeleteError(q) PROVE IndexPointsToOwnRow'
  BY <1>2, <1>9 DEF DeleteError, Die
<1>10. ASSUME NEW q, ReadData(q) PROVE IndexPointsToOwnRow'
  BY <1>10 DEF ReadData
<1>11. ASSUME NEW q, ReadError(q) PROVE IndexPointsToOwnRow'
  BY <1>2, <1>11 DEF ReadError, Die
<1>12. CASE BeginLoad
  BY <1>2, <1>12 DEF BeginLoad
<1>13. CASE LoadRow
  <2>1. PICK i \in NextRow :
          index' = [n \in DOMAIN index \cup {rows[i]} |->
                     IF n \in DOMAIN index THEN index[n]
                     ELSE [id |-> ColumnInt(i), hashed |-> FALSE]]
    BY <1>13 DEF LoadRow
  <2>2. i \in Ids /\ ColumnInt(i) = i
    BY ColumnIntIsId, MaxIdAssumption DEF NextRow, TypeOK
  <2> QED
    BY <1>13, <2>1, <2>2 DEF LoadRow
<1>14. CASE FinishLoad
  BY <1>14 DEF FinishLoad
<1>15. CASE LoadFails
  BY <1>2, <1>15 DEF LoadFails, Die
<1>16. CASE Stop
  BY <1>2, <1>16 DEF Stop, Die
<1>17. CASE UNCHANGED <<disk, memory, up>>
  BY <1>17
<1> QED
  BY <1>4, <1>5, <1>6, <1>7, <1>8, <1>9, <1>10, <1>11, <1>12, <1>13, <1>14, <1>15, <1>16, <1>17
     DEF AnyNext, Next

(* Without lost writes, and while ids fit in an int, a read or a delete reaches the row
   of the very packet its index entry names, after any sequence of commands, errors and
   restarts, even when the index is full or the database holds rows the index does not
   know. *)
THEOREM IndexRowsAgree ==
  ASSUME ~LostWrites, MaxId <= IntMax
  PROVE  Spec => []IndexPointsToOwnRow
<1>1. Init => IndexPointsToOwnRow
  BY DEF Init, IndexPointsToOwnRow
<1>2. TypeOK /\ TypeOK' /\ IndexPointsToOwnRow /\ AnyNext => IndexPointsToOwnRow'
  BY NextIndexPointsToOwnRow
<1> QED
  BY <1>1, <1>2, NextIsAny, TypeCorrect, PTL DEF Spec

-----------------------------------------------------------------------------
(* What a start has loaded so far: the names of the rows that it has read, and no
   other, each under the id of a row of that name. *)
LoadedPart ==
  Loading =>
    /\ DOMAIN index = {rows[i] : i \in {j \in Ids : j <= cursor}}
    /\ \A n \in DOMAIN index : index[n].id \in Ids /\ rows[index[n].id] = n

(* While a process runs no start is under way. *)
LEMMA NoLoadWhileUp ==
  ASSUME TypeOK, AnyNext, up
  PROVE  ~Loading'
<1>1. cursor = NotLoading
  BY DEF TypeOK, Loading
<1>2. ASSUME Throw PROVE cursor' = NotLoading
  BY <1>1, <1>2 DEF Throw, Die
<1>3. ASSUME NEW n \in Name,
             InsertDuplicate(n) \/ InsertNameless(n) \/ InsertData(n) \/ InsertError(n)
      PROVE  cursor' = NotLoading
  BY <1>1, <1>2, <1>3 DEF InsertDuplicate, InsertNameless, InsertData, InsertError, AddEntry
<1>4. ASSUME NEW q, DeleteData(q) \/ DeleteError(q) \/ ReadData(q) \/ ReadError(q)
      PROVE  cursor' = NotLoading
  BY <1>1, <1>4 DEF DeleteData, DeleteError, ReadData, ReadError, Die
<1>5. CASE Stop \/ UNCHANGED <<disk, memory, up>>
  BY <1>1, <1>5 DEF Stop, Die, Loading
<1>6. ~BeginLoad /\ ~LoadRow /\ ~FinishLoad /\ ~LoadFails
  BY <1>1 DEF BeginLoad, LoadRow, FinishLoad, LoadFails, Loading
<1> QED
  BY <1>3, <1>4, <1>5, <1>6 DEF AnyNext, Next, Loading

(* Every row that a start reads keeps what was loaded in step with what was read,
   whatever is on disk: rows of one name, rows whose write was reported as failed. *)
LEMMA NextLoadedPart ==
  ASSUME MaxId <= IntMax, TypeOK, LoadedPart, AnyNext
  PROVE  LoadedPart'
<1>1. CASE up
  BY <1>1, NoLoadWhileUp DEF LoadedPart
<1>2. CASE UNCHANGED <<disk, memory, up>>
  BY <1>2 DEF LoadedPart, Loading
<1>3. CASE BeginLoad
  <2>1. index' = Empty /\ cursor' = 0 /\ rows' = rows
    BY <1>3 DEF BeginLoad
  <2>2. {j \in Ids' : j <= cursor'} = {}
    BY <2>1 DEF TypeOK
  <2>3. DOMAIN index' = {}
    BY <2>1
  <2> QED
    BY <2>2, <2>3 DEF LoadedPart
<1>4. CASE LoadRow
  <2>1. PICK i \in NextRow :
          /\ cursor' = i
          /\ index' = [n \in DOMAIN index \cup {rows[i]} |->
                        IF n \in DOMAIN index THEN index[n]
                        ELSE [id |-> ColumnInt(i), hashed |-> FALSE]]
    BY <1>4 DEF LoadRow
  <2>2. Loading /\ rows' = rows
    BY <1>4 DEF LoadRow
  <2>3. i \in Ids /\ i > cursor /\ ColumnInt(i) = i
    BY ColumnIntIsId, MaxIdAssumption DEF NextRow, TypeOK
  <2>4. {j \in Ids : j <= i} = {j \in Ids : j <= cursor} \cup {i}
    <3>1. ASSUME NEW j \in Ids, j <= i, j # i PROVE j <= cursor
      BY <3>1, <2>2 DEF NextRow, TypeOK, Loading
    <3>2. ASSUME NEW j \in Ids, j <= cursor PROVE j <= i
      BY <2>2, <2>3, <3>2 DEF TypeOK, Loading
    <3> QED
      BY <2>3, <3>1, <3>2 DEF TypeOK
  <2>5. DOMAIN index' = {rows[j] : j \in {k \in Ids : k <= i}}
    BY <2>1, <2>2, <2>4 DEF LoadedPart
  <2>6. \A n \in DOMAIN index' : index'[n].id \in Ids /\ rows[index'[n].id] = n
    BY <2>1, <2>2, <2>3 DEF LoadedPart
  <2> QED
    BY <2>1, <2>2, <2>5, <2>6 DEF LoadedPart
<1>5. CASE FinishLoad \/ LoadFails
  BY <1>5 DEF FinishLoad, LoadFails, Die, LoadedPart, Loading
<1>6. ASSUME ~up
      PROVE  /\ \A n : ~InsertDuplicate(n) /\ ~InsertNameless(n) /\ ~InsertData(n) /\ ~InsertError(n)
             /\ \A q : ~DeleteData(q) /\ ~DeleteError(q) /\ ~ReadData(q) /\ ~ReadError(q)
             /\ ~Stop
  BY <1>6 DEF InsertDuplicate, InsertNameless, InsertData, InsertError, DeleteData, DeleteError,
              ReadData, ReadError, Stop
<1> QED
  BY <1>1, <1>2, <1>3, <1>4, <1>5, <1>6 DEF AnyNext, Next

(* What a start has loaded, always *)
LEMMA LoadInvariant ==
  ASSUME MaxId <= IntMax
  PROVE  Spec => []LoadedPart
<1>1. Init => LoadedPart
  BY DEF Init, LoadedPart, Loading
<1>2. TypeOK /\ LoadedPart /\ AnyNext => LoadedPart'
  BY NextLoadedPart
<1> QED
  BY <1>1, <1>2, NextIsAny, TypeCorrect, PTL DEF Spec

-----------------------------------------------------------------------------
(* An index that can hold every name is not full when a name is missing from it. *)
LEMMA RoomForMissingName ==
  ASSUME Cardinality(Name) <= MaxPackets, TypeOK, NEW n \in Name, n \notin DOMAIN index
  PROVE  ~IndexFull
<1>1. IsFiniteSet(Name) /\ DOMAIN index \in SUBSET Name /\ DOMAIN index # Name
  BY NameAssumption DEF TypeOK
<1>2. /\ IsFiniteSet(DOMAIN index)
      /\ Cardinality(DOMAIN index) <= Cardinality(Name)
      /\ Cardinality(DOMAIN index) # Cardinality(Name)
  BY <1>1, FS_Subset
<1>3. Cardinality(DOMAIN index) \in Nat /\ Cardinality(Name) \in Nat
  BY <1>1, <1>2, FS_CardinalityType
<1> QED
  BY <1>2, <1>3, CapacityAssumption DEF IndexFull

(* No two rows hold the same packet: what lets a start succeed, and what is left of
   NoRowOutsideIndex while the process is down. *)
RowsDistinct == \A i, j \in Ids : rows[i] = rows[j] => i = j

DurableInv == IndexPointsToOwnRow /\ NoRowOutsideIndex /\ RowsDistinct /\ LoadedPart

(* With an index that cannot be full, an insert leaves either a row and its entry or
   neither, and a delete removes both; so the rows are exactly the indexed ones. *)
LEMMA NextDurable ==
  ASSUME ~LostWrites, MaxId <= IntMax, Cardinality(Name) <= MaxPackets,
         TypeOK, TypeOK', DurableInv, AnyNext
  PROVE  DurableInv'
<1> USE DEF DurableInv
<1>0. IndexPointsToOwnRow' /\ LoadedPart'
  BY NextIndexPointsToOwnRow, NextLoadedPart
<1> SUFFICES NoRowOutsideIndex' /\ RowsDistinct'
  BY <1>0
<1> USE DEF NoRowOutsideIndex, RowsDistinct
<1>1. ASSUME up' = FALSE, UNCHANGED rows PROVE NoRowOutsideIndex' /\ RowsDistinct'
  BY <1>1
<1>2. ASSUME Throw, up, UNCHANGED rows PROVE NoRowOutsideIndex' /\ RowsDistinct'
  BY <1>1, <1>2 DEF Throw, Die
<1>3. ASSUME NEW n \in Name, InsertDuplicate(n) PROVE NoRowOutsideIndex' /\ RowsDistinct'
  BY <1>2, <1>3 DEF InsertDuplicate
<1>4. ASSUME NEW n \in Name, InsertNameless(n) PROVE NoRowOutsideIndex' /\ RowsDistinct'
  BY <1>4 DEF InsertNameless
<1>5. ASSUME NEW n \in Name, InsertData(n) PROVE NoRowOutsideIndex' /\ RowsDistinct'
  <2>1. /\ rowid' = lastId + 1
        /\ Ids' = Ids \cup {lastId + 1}
        /\ rows'[lastId + 1] = n
        /\ lastId + 1 \notin Ids
        /\ \A i \in Ids : rows'[i] = rows[i]
    BY <1>5 DEF InsertData, PutRow, LoseRow, TypeOK
  <2>2. up /\ n \notin DOMAIN index
    BY <1>5 DEF InsertData
  <2>3. \A i \in Ids : rows[i] # n
    BY <2>2
  <2>4. ~IndexFull
    BY <2>2, RoomForMissingName
  <2>5. /\ index' = [m \in DOMAIN index \cup {n} |->
                       IF m = n THEN [id |-> rowid', hashed |-> TRUE] ELSE index[m]]
        /\ up' = up
    BY <1>5, <2>4 DEF InsertData, AddEntry
  <2>6. RowsDistinct'
    BY <2>1, <2>3
  <2>7. ASSUME NEW i \in Ids' PROVE rows'[i] \in DOMAIN index' /\ index'[rows'[i]].id = i
    <3>1. CASE i = lastId + 1
      BY <2>1, <2>5, <3>1
    <3>2. CASE i \in Ids
      <4>1. rows'[i] = rows[i] /\ rows[i] # n /\ rows[i] \in DOMAIN index /\ index[rows[i]].id = i
        BY <2>1, <2>2, <2>3, <3>2
      <4> QED
        BY <2>5, <4>1
    <3> QED
      BY <2>1, <3>1, <3>2
  <2> QED
    BY <2>6, <2>7
<1>6. ASSUME NEW n \in Name, InsertError(n) PROVE NoRowOutsideIndex' /\ RowsDistinct'
  BY <1>2, <1>6 DEF InsertError
<1>7. ASSUME NEW q, DeleteData(q) PROVE NoRowOutsideIndex' /\ RowsDistinct'
  <2>1. Ids' = Ids \ IdsOf(Visited(q)) /\ \A i \in Ids' : rows'[i] = rows[i]
    BY <1>7 DEF DeleteData, EraseRows
  <2>2. ASSUME NEW i \in Ids' PROVE rows'[i] \in DOMAIN index' /\ index'[rows'[i]].id = i
    <3>1. i \in Ids /\ rows'[i] = rows[i] /\ rows[i] \in DOMAIN index /\ index[rows[i]].id = i
      BY <1>7, <2>1 DEF DeleteData
    <3>2. rows[i] \notin Visited(q)
      BY <2>1, <3>1 DEF IdsOf
    <3> QED
      BY <1>7, <3>1, <3>2 DEF DeleteData
  <2> QED
    BY <2>1, <2>2
<1>8. ASSUME NEW q, DeleteError(q) PROVE NoRowOutsideIndex' /\ RowsDistinct'
  <2>1. up' = FALSE
    BY <1>8 DEF DeleteError, Die
  <2>2. PICK t \in Visited(q) :
          rows' = [i \in Ids \ IdsOf({n \in Visited(q) : n < t}) |-> rows[i]]
    BY <1>8 DEF DeleteError
  <2> QED
    BY <2>1, <2>2
<1>9. ASSUME NEW q, ReadData(q) PROVE NoRowOutsideIndex' /\ RowsDistinct'
  BY <1>9 DEF ReadData
<1>10. ASSUME NEW q, ReadError(q) PROVE NoRowOutsideIndex' /\ RowsDistinct'
  BY <1>1, <1>10 DEF ReadError, Die
<1>11. CASE BeginLoad \/ LoadRow
  <2>1. ~up /\ up' = up /\ rows' = rows
    BY <1>11 DEF BeginLoad, LoadRow, TypeOK
  <2> QED
    BY <2>1
<1>12. CASE FinishLoad
  <2>1. Loading /\ \A i \in Ids : i <= cursor
    BY <1>12, AllRowsRead DEF FinishLoad
  <2>2. \A i \in Ids : rows[i] \in DOMAIN index
    BY <2>1 DEF LoadedPart
  <2>3. \A i \in Ids : index[rows[i]].id = i
    BY <2>2 DEF IndexPointsToOwnRow
  <2> QED
    BY <1>12, <2>2, <2>3 DEF FinishLoad
<1>13. CASE LoadFails
  BY <1>1, <1>13 DEF LoadFails, Die
<1>14. CASE Stop
  BY <1>1, <1>14 DEF Stop, Die
<1>15. CASE UNCHANGED <<disk, memory, up>>
  BY <1>15
<1> QED
  BY <1>3, <1>4, <1>5, <1>6, <1>7, <1>8, <1>9, <1>10, <1>11, <1>12, <1>13, <1>14, <1>15
     DEF AnyNext, Next

(* Rows are the rows of entries, always, when the index cannot be full. *)
LEMMA DurableInvariant ==
  ASSUME ~LostWrites, MaxId <= IntMax, Cardinality(Name) <= MaxPackets
  PROVE  Spec => []DurableInv
<1>1. Init => DurableInv
  BY DEF Init, DurableInv, IndexPointsToOwnRow, NoRowOutsideIndex, RowsDistinct, LoadedPart, Loading
<1>2. TypeOK /\ TypeOK' /\ DurableInv /\ AnyNext => DurableInv'
  BY NextDurable
<1> QED
  BY <1>1, <1>2, NextIsAny, TypeCorrect, PTL DEF Spec

(* When every name fits in the index, no operation leaves a row that the index does
   not know, so nothing deleted can come back with the next start. *)
THEOREM NoRowLeftBehind ==
  ASSUME ~LostWrites, MaxId <= IntMax, Cardinality(Name) <= MaxPackets
  PROVE  Spec => []NoRowOutsideIndex
<1>1. DurableInv => NoRowOutsideIndex
  BY DEF DurableInv
<1> QED
  BY <1>1, DurableInvariant, PTL

(* The next row of a start holds a name that is missing from the index so far. *)
LEMMA AlwaysLoadable ==
  ASSUME Cardinality(Name) <= MaxPackets, TypeOK, DurableInv
  PROVE  RestartPossible
<1> SUFFICES ASSUME Loading, NEW i \in NextRow PROVE ~IndexFull
  BY DEF RestartPossible
<1>1. i \in Ids /\ i > cursor /\ rows[i] \in Name
  BY DEF NextRow, TypeOK
<1>2. rows[i] \notin DOMAIN index
  <2>1. ASSUME NEW j \in Ids, j <= cursor PROVE rows[j] # rows[i]
    BY <1>1, <2>1 DEF DurableInv, RowsDistinct, TypeOK, Loading
  <2> QED
    BY <2>1 DEF DurableInv, LoadedPart
<1> QED
  BY <1>1, <1>2, RoomForMissingName

(* Under the same assumptions no start meets a full index before it has read every row. *)
THEOREM AlwaysRestartable ==
  ASSUME ~LostWrites, MaxId <= IntMax, Cardinality(Name) <= MaxPackets
  PROVE  Spec => []RestartPossible
<1>1. TypeOK /\ DurableInv => RestartPossible
  BY AlwaysLoadable
<1> QED
  BY <1>1, DurableInvariant, TypeCorrect, PTL

-----------------------------------------------------------------------------
(* While ids fit in an int, a start that is over has rebuilt the index from the database,
   whatever is on disk: rows that a failed insert left, rows of one name, what half
   deletions, lost writes and starts that failed or were killed have made of them. *)
THEOREM StartAlwaysRepairs ==
  ASSUME MaxId <= IntMax
  PROVE  Spec => StartRepairsIndex
<1> DEFINE Repaired == /\ DOMAIN index' = RowNames
                       /\ \A n \in DOMAIN index' : /\ index'[n].id \in DOMAIN rows'
                                                   /\ rows'[index'[n].id] = n
<1>1. ASSUME TypeOK, LoadedPart, Next, ~up, up' PROVE Repaired
  <2>1. FinishLoad
    BY <1>1 DEF Next, InsertDuplicate, InsertNameless, InsertData, InsertError, DeleteData,
                DeleteError, ReadData, ReadError, BeginLoad, LoadRow, LoadFails, Die, Stop
  <2>2. Loading /\ UNCHANGED <<rows, index>>
    BY <2>1 DEF FinishLoad
  <2>3. {i \in Ids : i <= cursor} = Ids
    BY <1>1, <2>1, <2>2, AllRowsRead DEF FinishLoad
  <2> QED
    BY <1>1, <2>2, <2>3 DEF LoadedPart
<1>2. TypeOK /\ LoadedPart /\ [Next]_vars => [~up /\ up' => Repaired]_vars
  BY <1>1
<1> QED
  BY <1>2, TypeCorrect, LoadInvariant, PTL DEF Spec, StartRepairsIndex

(* A count that a delete returns is the number of rows and of index entries that went,
   for every query, capacity and loss of writes: what the loop visited is what leaves
   the index, and the code compares the rows it erased with that. *)
THEOREM CountsAreExact == Spec => DeleteCountsBoth
<1> DEFINE Exact == up /\ reply'.op = "delete" /\ reply'.count # -1 =>
                      /\ reply'.count = Cardinality(Ids \ DOMAIN rows')
                      /\ reply'.count = Cardinality(DOMAIN index \ DOMAIN index')
<1>1. ASSUME TypeOK, NEW q, DeleteData(q), reply'.count # -1
      PROVE  /\ reply'.count = Cardinality(Ids \ DOMAIN rows')
             /\ reply'.count = Cardinality(DOMAIN index \ DOMAIN index')
  <2> DEFINE erased == IdsOf(Visited(q)) \cap Ids
  <2>1. Ids \ DOMAIN rows' = erased
    BY <1>1 DEF DeleteData, EraseRows
  <2>2. Visited(q) \subseteq DOMAIN index
    BY DEF Visited, Matching
  <2>3. DOMAIN index \ DOMAIN index' = Visited(q)
    BY <1>1, <2>2 DEF DeleteData
  <2>4. reply' = [op |-> "delete",
                  count |-> IF Cardinality(erased) = Cardinality(Visited(q))
                              THEN Cardinality(erased) ELSE -1]
    BY <1>1 DEF DeleteData
  <2>5. Cardinality(erased) = Cardinality(Visited(q)) /\ reply'.count = Cardinality(erased)
    <3> HIDE DEF erased
    <3> QED
      BY <1>1, <2>4
  <2> QED
    BY <2>1, <2>3, <2>5
<1>2. ASSUME TypeOK, Next, up, reply'.op = "delete" PROVE \E q \in Query : DeleteData(q)
  <2>0. reply'.op = "delete"
    BY <1>2
  <2>1. ASSUME Throw PROVE FALSE
    <3>1. reply' = [op |-> "threw"]
      BY <2>1 DEF Throw, Die
    <3> QED
      BY <2>0, <3>1
  <2>2. ASSUME NEW n \in Name,
               InsertDuplicate(n) \/ InsertNameless(n) \/ InsertData(n) \/ InsertError(n)
        PROVE  FALSE
    <3>1. Throw \/ \E b : reply' = [op |-> "insert", ok |-> b]
      BY <2>2 DEF InsertDuplicate, InsertNameless, InsertData, InsertError, AddEntry
    <3> QED
      BY <2>0, <2>1, <3>1
  <2>3. ASSUME NEW q \in Query, DeleteError(q) \/ ReadData(q) \/ ReadError(q) PROVE FALSE
    <3>1. reply' = [op |-> "threw"] \/ \E h : reply' = [op |-> "read", hit |-> h]
      BY <2>3 DEF DeleteError, Die, ReadData, ReadError, ReadHit, ReadMiss
    <3> QED
      BY <2>0, <3>1
  <2>4. ~Stop /\ ~BeginLoad /\ ~LoadRow /\ ~FinishLoad /\ ~LoadFails
    <3>1. ~Loading
      BY <1>2 DEF TypeOK
    <3>2. ~BeginLoad /\ ~LoadRow /\ ~FinishLoad /\ ~LoadFails
      BY <1>2, <3>1 DEF BeginLoad, LoadRow, FinishLoad, LoadFails
    <3>3. ASSUME Stop PROVE FALSE
      <4>1. reply' = [op |-> "none"]
        BY <3>3 DEF Stop, Die
      <4> QED
        BY <2>0, <4>1
    <3> QED
      BY <3>2, <3>3
  <2> QED
    BY <1>2, <2>2, <2>3, <2>4 DEF Next
<1>3. TypeOK /\ [Next]_vars => [Exact]_vars
  <2> SUFFICES ASSUME TypeOK, Next, up, reply'.op = "delete", reply'.count # -1
               PROVE  /\ reply'.count = Cardinality(Ids \ DOMAIN rows')
                      /\ reply'.count = Cardinality(DOMAIN index \ DOMAIN index')
    OBVIOUS
  <2> QED
    BY <1>1, <1>2
<1> QED
  BY <1>3, TypeCorrect, PTL DEF Spec, DeleteCountsBoth

-----------------------------------------------------------------------------
(* Distinct entries lead to distinct rows, so the loop erases as many rows as it
   visits entries. *)
LEMMA IdsOfCardinality ==
  ASSUME TypeOK, IndexPointsToOwnRow, NEW S \in SUBSET DOMAIN index
  PROVE  /\ IdsOf(S) \subseteq Ids
         /\ IsFiniteSet(S)
         /\ Cardinality(IdsOf(S)) = Cardinality(S)
<1>1. IsFiniteSet(S)
  BY NameAssumption, FS_Subset DEF TypeOK
<1>2. IdsOf(S) \subseteq Ids
  BY DEF IdsOf, IndexPointsToOwnRow
<1> DEFINE f == [n \in S |-> index[n].id]
<1>3. f \in Bijection(S, IdsOf(S))
  <2>1. f \in [S -> IdsOf(S)]
    BY DEF IdsOf
  <2>2. \A m, n \in S : f[m] = f[n] => m = n
    BY DEF IndexPointsToOwnRow
  <2>3. \A i \in IdsOf(S) : \E n \in S : f[n] = i
    BY DEF IdsOf
  <2> HIDE DEF f
  <2>4. f \in Injection(S, IdsOf(S))
    BY <2>1, <2>2 DEF Injection, IsInjective
  <2>5. f \in Surjection(S, IdsOf(S))
    BY <2>1, <2>3 DEF Surjection
  <2> QED
    BY <2>4, <2>5 DEF Bijection
<1> QED
  BY <1>1, <1>2, <1>3, FS_Bijection DEF ExistsBijection

(* What a delete or read without a key selector works on: all indexed names asked for. *)
LEMMA VisitedAreAsked ==
  ASSUME TypeOK, DurableInv, up, NEW q \in Query, ~q.keyed
  PROVE  /\ Matching(q) = RowNames \cap q.names
         /\ Visited(q) = RowNames \cap q.names
<1>1. RowNames = DOMAIN index
  <2>1. ASSUME NEW n \in RowNames PROVE n \in DOMAIN index
    BY DEF DurableInv, NoRowOutsideIndex
  <2>2. ASSUME NEW n \in DOMAIN index PROVE n \in RowNames
    BY DEF DurableInv, IndexPointsToOwnRow
  <2> QED
    BY <2>1, <2>2
<1>2. Matching(q) = RowNames \cap q.names
  BY <1>1 DEF Matching
<1>3. \A m \in DOMAIN index : index[m].id # 0
  BY DEF DurableInv, IndexPointsToOwnRow, TypeOK
<1> QED
  BY <1>2, <1>3 DEF Visited, Matching

(* Erasing the rows of some entries removes exactly their names. *)
LEMMA NamesAfterErasing ==
  ASSUME TypeOK, DurableInv, up, NEW S \in SUBSET DOMAIN index,
         rows' = [i \in Ids \ IdsOf(S) |-> rows[i]]
  PROVE  RowNames' = RowNames \ S
<1>1. Ids' = Ids \ IdsOf(S) /\ \A i \in Ids' : rows'[i] = rows[i]
  OBVIOUS
<1>2. ASSUME NEW i \in Ids' PROVE rows[i] \notin S
  BY <1>1, <1>2 DEF DurableInv, NoRowOutsideIndex, IdsOf
<1>3. ASSUME NEW n \in RowNames, n \notin S PROVE n \in RowNames'
  <2>1. PICK i \in Ids : rows[i] = n
    BY <1>3
  <2>2. i \notin IdsOf(S)
    BY <1>3, <2>1 DEF DurableInv, IndexPointsToOwnRow, IdsOf
  <2> QED
    BY <1>1, <2>1, <2>2
<1> QED
  BY <1>1, <1>2, <1>3

(* Every step of the storage is a step of PacketStore, or changes nothing it sees. *)
LEMMA StepRefines ==
  ASSUME ~LostWrites, MaxId <= IntMax, Cardinality(Name) <= MaxPackets, \A q \in Query : ~q.keyed,
         TypeOK, TypeOK', DurableInv, [Next]_vars
  PROVE  [Store!Next]_(Store!vars)
<1> USE DEF Store!NoReply, Store!Threw, Store!Inserted, Store!Deleted, Store!ReadHit, Store!ReadMiss
<1>0. ASSUME UNCHANGED rows PROVE RowNames' = RowNames
  BY <1>0
<1>1. ASSUME up, Throw, UNCHANGED rows PROVE Store!FailInsert
  BY <1>0, <1>1 DEF Throw, Die, Store!FailInsert
<1>2. ASSUME NEW n \in Name, InsertDuplicate(n) PROVE Store!Next
  BY <1>1, <1>2 DEF InsertDuplicate, Store!Next
<1>3. ASSUME NEW n \in Name, InsertNameless(n) PROVE Store!Next
  <2>1. n \notin RowNames
    BY <1>3 DEF InsertNameless, DurableInv, NoRowOutsideIndex
  <2>2. Store!Refuse(n)
    BY <1>0, <1>3, <2>1 DEF InsertNameless, Store!Refuse
  <2> QED
    BY <2>2 DEF Store!Next
<1>4. ASSUME NEW n \in Name, InsertData(n) PROVE Store!Next
  <2>1. /\ Ids' = Ids \cup {lastId + 1}
        /\ rows'[lastId + 1] = n
        /\ lastId + 1 \notin Ids
        /\ \A i \in Ids : rows'[i] = rows[i]
    BY <1>4 DEF InsertData, PutRow, LoseRow, TypeOK
  <2>2. RowNames' = RowNames \cup {n}
    BY <2>1
  <2>3. up /\ n \notin DOMAIN index /\ n \notin Nameless /\ n \notin RowNames
    BY <1>4 DEF InsertData, DurableInv, NoRowOutsideIndex
  <2>4. ~IndexFull
    BY <2>3, RoomForMissingName
  <2>5. reply' = Inserted(TRUE) /\ up' = up
    BY <1>4, <2>4 DEF InsertData, AddEntry
  <2>6. Store!Insert(n)
    BY <2>2, <2>3, <2>5 DEF Store!Insert
  <2> QED
    BY <2>6 DEF Store!Next
<1>5. ASSUME NEW n \in Name, InsertError(n) PROVE Store!Next
  BY <1>1, <1>5 DEF InsertError, Store!Next
<1>6. ASSUME NEW q \in Query, DeleteData(q) PROVE Store!Next
  <2>1. up /\ Visited(q) = RowNames \cap q.names
    BY <1>6, VisitedAreAsked DEF DeleteData
  <2>2. Visited(q) \in SUBSET DOMAIN index
    BY DEF Visited, Matching
  <2>3. /\ IdsOf(Visited(q)) \cap Ids = IdsOf(Visited(q))
        /\ Cardinality(IdsOf(Visited(q))) = Cardinality(Visited(q))
    BY <2>2, IdsOfCardinality DEF DurableInv
  <2>4. reply' = Deleted(Cardinality(RowNames \cap q.names))
    BY <1>6, <2>1, <2>3 DEF DeleteData
  <2>5. RowNames' = RowNames \ q.names
    <3>1. RowNames' = RowNames \ Visited(q)
      BY <1>6, <2>1, <2>2, NamesAfterErasing DEF DeleteData, EraseRows
    <3> QED
      BY <2>1, <3>1
  <2>6. up' = up
    BY <1>6 DEF DeleteData
  <2>7. Store!Delete(q.names)
    <3>1. RowNames' = RowNames \ q.names
      BY <2>5
    <3>2. reply' = Store!Deleted(Cardinality(RowNames \cap q.names))
      BY <2>4
    <3>3. up /\ up' = up
      BY <2>1, <2>6
    <3>4. Store!Cardinality(RowNames \cap q.names) = Cardinality(RowNames \cap q.names)
      BY Zenon DEF Store!Cardinality, Cardinality, Store!IsFiniteSet, IsFiniteSet
    <3> QED
      BY <3>1, <3>2, <3>3, <3>4 DEF Store!Delete
  <2>8. q.names \in Asked
    BY DEF Asked
  <2> QED
    BY <2>7, <2>8 DEF Store!Next
<1>7. ASSUME NEW q \in Query, DeleteError(q) PROVE Store!Next
  <2>1. up /\ Visited(q) = RowNames \cap q.names
    BY <1>7, VisitedAreAsked DEF DeleteError
  <2>2. PICK t \in Visited(q) :
          rows' = [i \in Ids \ IdsOf({n \in Visited(q) : n < t}) |-> rows[i]]
    BY <1>7 DEF DeleteError
  <2> DEFINE part == {n \in Visited(q) : n < t}
  <2>3. part \in SUBSET DOMAIN index /\ part \in SUBSET (RowNames \cap q.names)
    BY <2>1 DEF Visited, Matching
  <2>4. rows' = [i \in Ids \ IdsOf(part) |-> rows[i]]
    BY <2>2
  <2>5. RowNames' = RowNames \ part
    <3> HIDE DEF part
    <3> QED
      BY <2>1, <2>3, <2>4, NamesAfterErasing
  <2>6. up' = FALSE /\ reply' = Threw
    BY <1>7 DEF DeleteError, Die
  <2>7. Store!FailDelete(q.names) /\ q.names \in Asked
    BY <2>1, <2>3, <2>5, <2>6 DEF Store!FailDelete, Asked
  <2> QED
    BY <2>7 DEF Store!Next
<1>8. ASSUME NEW q \in Query, ReadData(q) PROVE Store!Next
  <2>1. up /\ Matching(q) = RowNames \cap q.names
    BY <1>8, VisitedAreAsked DEF ReadData
  <2>2. \A n \in Matching(q) : index[n].id \in Ids /\ rows[index[n].id] = n
    BY DEF Matching, DurableInv, IndexPointsToOwnRow
  <2>3. RowNames' = RowNames /\ up' = up
    BY <1>8 DEF ReadData
  <2>4. \/ \E n \in RowNames \cap q.names : reply' = ReadHit(n)
        \/ RowNames \cap q.names = {} /\ reply' = ReadMiss
    BY <1>8, <2>1, <2>2 DEF ReadData
  <2>5. Store!Read(q.names) /\ q.names \in Asked
    BY <2>1, <2>3, <2>4 DEF Store!Read, Asked, ReadHit, ReadMiss
  <2> QED
    BY <2>5 DEF Store!Next
<1>9. ASSUME NEW q \in Query, ReadError(q) PROVE Store!Next
  <2>1. Store!FailRead
    BY <1>0, <1>9 DEF ReadError, Die, Store!FailRead
  <2> QED
    BY <2>1 DEF Store!Next
<1>10. CASE BeginLoad \/ LoadRow
  BY <1>0, <1>10 DEF BeginLoad, LoadRow, Store!vars
<1>11. CASE FinishLoad
  <2>1. Store!Start
    BY <1>0, <1>11 DEF FinishLoad, Store!Start, TypeOK
  <2> QED
    BY <2>1 DEF Store!Next
<1>12. CASE LoadFails
  <2>1. Store!FailStart
    BY <1>0, <1>12 DEF LoadFails, Die, Store!FailStart, TypeOK
  <2> QED
    BY <2>1 DEF Store!Next
<1>13. CASE Stop
  <2>1. Store!Stop
    BY <1>0, <1>13 DEF Stop, Die, Store!Stop
  <2> QED
    BY <2>1 DEF Store!Next
<1>14. CASE UNCHANGED vars
  BY <1>14 DEF vars, Store!vars
<1> QED
  BY <1>2, <1>3, <1>4, <1>5, <1>6, <1>7, <1>8, <1>9, <1>10, <1>11, <1>12, <1>13, <1>14 DEF Next

(* The index and the database implement one durable set of packets: an insert stores
   exactly when it says so, a delete removes and counts what it was asked for, a read
   answers with a packet asked for, and a restart neither loses nor revives any.  The
   assumptions are the code's: SQLite reports failed writes, ids fit in an int, the
   index is not full, and no command selects by PublisherPublicKeyLocator. *)
THEOREM StorageImplementsPacketStore ==
  ASSUME ~LostWrites, MaxId <= IntMax, Cardinality(Name) <= MaxPackets, \A q \in Query : ~q.keyed
  PROVE  Spec => ImplementsPacketStore
<1>1. Init => Store!Init
  BY DEF Init, Store!Init, Store!NoReply
<1>2. TypeOK /\ TypeOK' /\ DurableInv /\ [Next]_vars => [Store!Next]_(Store!vars)
  BY StepRefines
<1> QED
  BY <1>1, <1>2, TypeCorrect, DurableInvariant, PTL DEF Spec, ImplementsPacketStore, Store!Spec
=============================================================================
