----------------------------- MODULE RepoStorage -----------------------------
(***************************************************************************)
(* RepoStorage: the index in memory (Index over a SkipList) kept in step   *)
(* with the rows of the SQLite table NDN_REPO, across restarts of the      *)
(* process.  The io_service runs one handler at a time, so a handler is    *)
(* one action; what interleaves is the order of the commands, the errors   *)
(* of SQLite in the middle of a handler, and the end of the process.  A    *)
(* start reads the table row by row, one row per action, and may fail or   *)
(* end between any two.                                                    *)
(***************************************************************************)
EXTENDS Integers, FiniteSets

CONSTANTS
  Name,         \* full names of packets, numbered in canonical order
  Nameless,     \* the full names of packets whose Data name is empty
  MaxPackets,   \* storage.max-packets: the capacity of the index
  Query,        \* what delete and read commands ask for
  LostWrites,   \* BOOLEAN: may sqlite3_step fail without SQLITE_CONSTRAINT?
  IntMax,       \* the greatest int: 2^31 - 1
  MaxId         \* bound of the model: AUTOINCREMENT ids handed out, and m_size
                \* when lost writes inflate it

ASSUME NameAssumption == IsFiniteSet(Name) /\ Name \subseteq Nat
ASSUME NamelessAssumption == Nameless \subseteq Name
ASSUME CapacityAssumption == MaxPackets \in Nat
ASSUME QueryAssumption == Query \subseteq [names : SUBSET Name, keyed : BOOLEAN]
ASSUME LostWritesAssumption == LostWrites \in BOOLEAN
ASSUME IntMaxAssumption == IntMax \in Nat
ASSUME MaxIdAssumption == MaxId \in Nat

VARIABLES
  rows,     \* table NDN_REPO: id -> full name of the packet in the row
  lastId,   \* sqlite_sequence: the last AUTOINCREMENT id handed out
  index,    \* m_index: full name -> [id, hashed]; hashed: the entry holds the
            \* SHA-256 of the packet's key locator
  rowid,    \* sqlite3_last_insert_rowid of this connection, 0 when fresh
  size,     \* SqliteStorage::m_size
  cursor,   \* the id of the last row that a start has read, or NotLoading
  up,       \* the repo process is running, and its start is over
  reply     \* what the last operation returned to its handler

disk == <<rows, lastId>>
memory == <<index, rowid, size, cursor>>
vars == <<disk, memory, up, reply>>

NoReply     == [op |-> "none"]
Threw       == [op |-> "threw"]
Inserted(b) == [op |-> "insert", ok |-> b]
Deleted(k)  == [op |-> "delete", count |-> k]
ReadHit(n)  == [op |-> "read", hit |-> {n}]
ReadMiss    == [op |-> "read", hit |-> {}]

Empty == [x \in {} |-> 0]
NotLoading == -1
Loading    == cursor # NotLoading

Ids   == DOMAIN rows
RowNames == {rows[i] : i \in Ids}

Init ==
  /\ rows = Empty
  /\ lastId = 0
  /\ index = Empty
  /\ rowid = 0
  /\ size = 0
  /\ cursor = NotLoading
  /\ up = FALSE
  /\ reply = NoReply

-----------------------------------------------------------------------------
(* Definitions whose name ends in a mutation (MutKeepsIndex, ...) are variants of the
   definition after them with a plausible bug, for mutation runs only. *)
(* The end of the process: the index goes, the rows stay. *)
Die(r) ==
  /\ up' = FALSE
  /\ index' = Empty
  /\ cursor' = NotLoading
  /\ reply' = r

(* An exception out of insertData: TcpBulkInsertClient catches it, every other
   handler lets it through io_service::run to main, which returns. *)
Throw ==
  \/ reply' = Threw /\ UNCHANGED <<index, cursor, up>>
  \/ Die(Threw)

IndexFull == Cardinality(DOMAIN index) >= MaxPackets

(* SqliteStorage::insert: a row under the next id, or, when the step fails with
   anything but SQLITE_CONSTRAINT, no row but the id of an earlier one. *)
PutRow(n) ==
  /\ lastId < MaxId
  /\ lastId' = lastId + 1
  /\ rows' = [i \in Ids \cup {lastId + 1} |-> IF i = lastId + 1 THEN n ELSE rows[i]]
  /\ rowid' = lastId + 1
  /\ size' = size + 1

LoseRow ==
  /\ LostWrites
  /\ size < MaxId
  /\ size' = size + 1
  /\ UNCHANGED <<disk, rowid>>

AddEntryMutStaleId(n, id) ==
  IF IndexFull
    THEN Throw
    ELSE /\ index' = [m \in DOMAIN index \cup {n} |->
                        IF m = n THEN [id |-> rowid, hashed |-> TRUE] ELSE index[m]]
         /\ reply' = Inserted(TRUE)
         /\ UNCHANGED <<cursor, up>>

(* Index::insert of a name that is not there yet. *)
AddEntry(n, id) ==
  IF IndexFull
    THEN Throw
    ELSE /\ index' = [m \in DOMAIN index \cup {n} |->
                        IF m = n THEN [id |-> id, hashed |-> TRUE] ELSE index[m]]
         /\ reply' = Inserted(TRUE)
         /\ UNCHANGED <<cursor, up>>

(* RepoStorage::insertData *)
InsertDuplicate(n) ==
  /\ up
  /\ n \in DOMAIN index
  /\ Throw
  /\ UNCHANGED <<disk, rowid, size>>

InsertNamelessMutNoCheck(n) ==
  /\ up
  /\ n \in Nameless \ DOMAIN index
  /\ AddEntry(n, -1)
  /\ UNCHANGED <<disk, rowid, size>>

InsertNameless(n) ==
  /\ up
  /\ n \in Nameless \ DOMAIN index
  /\ reply' = Inserted(FALSE)
  /\ UNCHANGED <<disk, memory, up>>

InsertDataMutNoLookup(n) ==
  /\ up
  /\ n \in Name \ Nameless
  /\ PutRow(n) \/ LoseRow
  /\ AddEntry(n, rowid')

InsertData(n) ==
  /\ up
  /\ n \in Name \ (DOMAIN index \cup Nameless)
  /\ PutRow(n) \/ LoseRow
  /\ AddEntry(n, rowid')

(* The statement cannot be prepared or bound: insert throws before the step. *)
InsertError(n) ==
  /\ up
  /\ n \in Name \ (DOMAIN index \cup Nameless)
  /\ Throw
  /\ UNCHANGED <<disk, rowid, size>>

-----------------------------------------------------------------------------
(* The entries a name prefix or an Interest selects.  An Interest with a
   PublisherPublicKeyLocator compares the entry's stored hash. *)
Matching(q) ==
  {n \in DOMAIN index : n \in q.names /\ (q.keyed => index[n].hashed)}

(* The deletion loop takes the first match again and again; an entry with id 0
   reads as "not found" and ends it. *)
VisitedMutOnce(q) ==
  {n \in Matching(q) : index[n].id # 0 /\ \A m \in Matching(q) : n <= m}

Visited(q) ==
  {n \in Matching(q) : \A m \in Matching(q) : m <= n => index[m].id # 0}

IdsOf(S) == {index[n].id : n \in S}

EraseRowsMutKeepsRows(S) ==
  /\ size' = size - Cardinality(IdsOf(S) \cap Ids)
  /\ UNCHANGED rows

EraseRows(S) ==
  /\ rows' = [i \in Ids \ IdsOf(S) |-> rows[i]]
  /\ size' = size - Cardinality(IdsOf(S) \cap Ids)

DeleteDataMutNoError(q) ==
  /\ up
  /\ EraseRows(Visited(q))
  /\ index' = [n \in DOMAIN index \ Visited(q) |-> index[n]]
  /\ reply' = Deleted(Cardinality(Visited(q)))
  /\ UNCHANGED <<lastId, rowid, cursor, up>>

(* RepoStorage::deleteData, by name and by Interest: the number of entries whose
   row was there too, or -1 when some row was not. *)
DeleteData(q) ==
  /\ up
  /\ EraseRows(Visited(q))
  /\ index' = [n \in DOMAIN index \ Visited(q) |-> index[n]]
  /\ LET erased == Cardinality(IdsOf(Visited(q)) \cap Ids)
     IN  reply' = Deleted(IF erased = Cardinality(Visited(q)) THEN erased ELSE -1)
  /\ UNCHANGED <<lastId, rowid, cursor, up>>

(* SqliteStorage::erase throws at entry t: what the loop erased before t stays
   erased, and no handler catches the exception. *)
DeleteError(q) ==
  /\ up
  /\ \E t \in Visited(q) :
       rows' = [i \in Ids \ IdsOf({n \in Visited(q) : n < t}) |-> rows[i]]
  /\ Die(Threw)
  /\ UNCHANGED <<lastId, rowid, size>>

(* RepoStorage::readData: which of the matching entries is selectChild's choice. *)
ReadData(q) ==
  /\ up
  /\ \/ \E n \in Matching(q) :
          reply' = IF index[n].id \in Ids THEN ReadHit(rows[index[n].id]) ELSE ReadMiss
     \/ Matching(q) = {} /\ reply' = ReadMiss
  /\ UNCHANGED <<disk, memory, up>>

(* SqliteStorage::read throws at the entry that find chose, and no handler catches. *)
ReadError(q) ==
  /\ up
  /\ \E n \in Matching(q) : index[n].id # 0
  /\ Die(Threw)
  /\ UNCHANGED <<disk, rowid, size>>

-----------------------------------------------------------------------------
(* A start: the database is opened, and fullEnumerate prepares its statement. *)
BeginLoad ==
  /\ ~up /\ ~Loading
  /\ cursor' = 0
  /\ index' = Empty /\ rowid' = 0 /\ size' = 0
  /\ UNCHANGED <<disk, up, reply>>

(* The rows come in the order of their ids. *)
NextRow == {i \in Ids : i > cursor /\ \A j \in Ids : j > cursor => i <= j}

(* sqlite3_column_int: the low 32 bits of the column, signed *)
ColumnInt(i) == ((i + IntMax + 1) % (2 * (IntMax + 1))) - (IntMax + 1)

(* Index::insert of a row's name: an entry that is there already stays as it is, but a
   full index throws before it looks.  The keyLocatorHash is taken from column 3 of a
   result of three columns: it is empty, and equal to no hash. *)
LoadRow ==
  /\ Loading
  /\ ~IndexFull
  /\ \E i \in NextRow :
       /\ cursor' = i
       /\ index' = [n \in DOMAIN index \cup {rows[i]} |->
                     IF n \in DOMAIN index THEN index[n]
                     ELSE [id |-> ColumnInt(i), hashed |-> FALSE]]
  /\ UNCHANGED <<disk, rowid, size, up, reply>>

(* No row is left: m_size is the number of those that were read. *)
FinishLoad ==
  /\ Loading
  /\ NextRow = {}
  /\ size' = Cardinality(Ids)
  /\ cursor' = NotLoading
  /\ up' = TRUE
  /\ reply' = NoReply
  /\ UNCHANGED <<disk, index, rowid>>

LoadFailsMutTakenForEnd ==
  /\ Loading
  /\ cursor' = NotLoading
  /\ up' = TRUE
  /\ reply' = NoReply
  /\ UNCHANGED <<disk, index, rowid, size>>

(* The statement cannot be prepared or stepped, or the index is full: the exception out
   of initialize() reaches main.  A process that is killed meanwhile leaves the same. *)
LoadFails ==
  /\ Loading
  /\ Die(Threw)
  /\ UNCHANGED <<disk, rowid, size>>

(* SIGINT, SIGTERM, or the crash of the process. *)
Stop ==
  /\ up
  /\ Die(NoReply)
  /\ UNCHANGED <<disk, rowid, size>>

Next ==
  \/ \E n \in Name :
       InsertDuplicate(n) \/ InsertNameless(n) \/ InsertData(n) \/ InsertError(n)
  \/ \E q \in Query : DeleteData(q) \/ DeleteError(q) \/ ReadData(q) \/ ReadError(q)
  \/ BeginLoad \/ LoadRow \/ FinishLoad \/ LoadFails
  \/ Stop

Spec == Init /\ [][Next]_vars

-----------------------------------------------------------------------------
(* The shape of the state: no packet without a name gets a row or an entry, ids are
   positive and were handed out, an index is there only in a process that runs or
   starts, and a start is over when commands are served. *)
TypeOK ==
  /\ lastId \in 0..MaxId
  /\ Ids \subseteq 1..lastId
  /\ rows \in [Ids -> Name \ Nameless]
  /\ DOMAIN index \subseteq Name \ Nameless
  /\ index \in [DOMAIN index -> [id : Int, hashed : BOOLEAN]]
  /\ rowid \in 0..lastId
  /\ size \in Int
  /\ cursor \in {NotLoading} \cup 0..lastId
  /\ up \in BOOLEAN
  /\ ~up /\ ~Loading => index = Empty
  /\ up => ~Loading

(* Every index entry leads to a row that holds the very packet it names, so a
   read or a delete never touches another packet's row (index.cpp:68, :80 store
   the id that repo-storage.cpp:50 obtained), whatever was deleted, refused or
   reloaded before. *)
IndexPointsToOwnRow ==
  \A n \in DOMAIN index : index[n].id \in Ids /\ rows[index[n].id] = n

(* While the process runs, every row is the row of an index entry: no row is
   left behind by an insert (repo-storage.cpp:50-53) or by a deletion loop
   (:64-71), where the next start would make it visible again. *)
NoRowOutsideIndex ==
  up => \A i \in Ids : rows[i] \in DOMAIN index /\ index[rows[i]].id = i

(* A start never finds the index full before it has read every row (index.cpp:83), so
   the process can be started again. *)
RestartPossible == Loading /\ NextRow # {} => ~IndexFull

(* "rebuild index from database" (repo-storage.hpp:55): when a start is over, every name
   on disk is indexed, nothing else is, and each entry leads to a row of its own name,
   whatever was left by lost writes, failed inserts, half deletions and failed starts. *)
StartRepairsIndex ==
  [][~up /\ up' => /\ DOMAIN index' = RowNames
                  /\ \A n \in DOMAIN index' :
                       /\ index'[n].id \in DOMAIN rows'
                       /\ rows'[index'[n].id] = n]_vars

(* repo-storage.hpp:69-70: a delete returns -1 if the index or the database
   failed, otherwise the number of erased entries: a count is the number of rows
   and of index entries that went, even when lost writes made entries share a
   row or lead to none. *)
DeleteCountsBoth ==
  [][up /\ reply'.op = "delete" /\ reply'.count # -1 =>
       /\ reply'.count = Cardinality(Ids \ DOMAIN rows')
       /\ reply'.count = Cardinality(DOMAIN index \ DOMAIN index')]_vars

(* insertData throws "The Index is Full. Cannot Insert Any Data!" (index.cpp:71):
   an insert that throws leaves nothing in the database. *)
FailedInsertStoresNothing ==
  [][up /\ reply' = Threw => DOMAIN rows' \subseteq Ids]_vars

-----------------------------------------------------------------------------
Asked == {q.names : q \in Query}

(* The packets a start would bring back are the packets of the abstract store. *)
Store == INSTANCE PacketStore WITH stored <- RowNames

(* The index and the database together behave as one durable set of packets. *)
ImplementsPacketStore == Store!Spec
=============================================================================
