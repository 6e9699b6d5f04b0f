----------------------------- MODULE RepoProofs -----------------------------
(***************************************************************************)
(* Proofs about Repo, the process around one RepoStorage: its handlers use *)
(* the storage and the TCP buffers as RepoStorage and TcpBulkInsert say,   *)
(* so what is proved of these holds in the process; a packet that was      *)
(* accepted stays on disk until a delete command names it; and what a      *)
(* delete command reports as deleted is gone.                              *)
(***************************************************************************)
EXTENDS Repo, RepoStorageProofs, TcpBulkInsertProofs

USE DEF disk, memory, Ids, RowNames, NoReply, Threw, Inserted, Deleted, Empty

(* An element that a connection handed to insertData *)
Inserts(n) == InsertDuplicate(n) \/ InsertNameless(n) \/ InsertData(n) \/ InsertError(n)

(* What is inserted is a packet. *)
LEMMA InsertsName ==
  ASSUME TypeOK, NEW n, Inserts(n)
  PROVE  n \in Name /\ Next
<1>1. n \in Name
  BY NamelessAssumption DEF Inserts, InsertDuplicate, InsertNameless, InsertData, InsertError, TypeOK
<1> QED
  BY <1>1 DEF Inserts, Next

(* A delete command uses the storage through its own queries. *)
LEMMA DeleteUsesStorage ==
  ASSUME NEW c, RefuseDelete(c) \/ DeleteOnce(c) \/ DeleteRange(c)
  PROVE  AnyNext
<1>1. CASE RefuseDelete(c)
  BY <1>1 DEF RefuseDelete, NotCalled, AnyNext
<1>2. CASE DeleteOnce(c)
  BY <1>2 DEF DeleteOnce, AnyNext
<1>3. CASE DeleteRange(c)
  BY <1>3 DEF DeleteRange, NotCalled, AnyNext, Next, Stop
<1> QED
  BY <1>1, <1>2, <1>3

(* Every handler of the process uses the storage as one of its operations, or not. *)
LEMMA RepoUsesStorage ==
  ASSUME TypeOK, [RepoNext]_all
  PROVE  AnyNext
<1> USE DEF NotCalled
<1>1. CASE Construct \/ EnableValidation \/ EnableListening
  BY <1>1 DEF Construct, EnableValidation, EnableListening, AnyNext
<1>2. CASE InitializeStorage
  BY <1>2 DEF InitializeStorage, AnyNext, Next
<1>3. CASE Terminate \/ Crash \/ CommandRegisterFails
  BY <1>3 DEF Terminate, Crash, CommandRegisterFails, AnyNext, Next
<1>4. CASE (\E p \in pending : Register(p)) \/ ReadRegisterFails
  BY <1>4 DEF Register, ReadRegisterFails, AnyNext
<1>5. CASE \E q \in ReadInterest : Read(q)
  BY <1>5 DEF Read, AnyNext
<1>6. CASE \E n \in Name : Fetched(n)
  BY <1>6 DEF Fetched, AnyNext, Next
<1>7. CASE MalformedCommand \/ \E c \in DeleteCommand : Delete(c)
  BY <1>7, DeleteUsesStorage DEF Delete, MalformedCommand, MalformedDelete, AnyNext, Next
<1>8. CASE DeleteRound
  BY <1>8 DEF DeleteRound, DeleteSegment, FinishDelete, AnyNext
<1>9. CASE TcpEndReceive \/ TcpAcceptFails \/ \E c \in Conn : TcpConnection(c) \/ TcpReceive(c)
  BY <1>9 DEF TcpEndReceive, TcpAcceptFails, TcpConnection, TcpReceive, OnlyTcp, AnyNext
<1>10. ASSUME NEW c \in Conn, NEW e \in Element[c], TcpInsert(e) PROVE AnyNext
  <2>1. (UNCHANGED <<disk, memory, up>>) \/ Inserts(e.kind)
    BY <1>10 DEF TcpInsert, Inserts
  <2> QED
    BY <2>1, InsertsName DEF AnyNext
<1>11. CASE UNCHANGED all
  BY <1>11 DEF all, vars, AnyNext
<1> QED
  BY <1>1, <1>2, <1>3, <1>4, <1>5, <1>6, <1>7, <1>8, <1>9, <1>10, <1>11 DEF RepoNext

(* The shape of the storage in the process *)
LEMMA RepoTypeOK == RepoSpec => []TypeOK
<1>1. RepoInit => TypeOK
  BY InitTypeOK DEF RepoInit
<1>2. TypeOK /\ [RepoNext]_all => TypeOK'
  BY NextTypeOK, RepoUsesStorage
<1> QED
  BY <1>1, <1>2, PTL DEF RepoSpec

(* The index leads to the right rows whatever the handlers of the process do. *)
LEMMA RepoRowsAgree ==
  ASSUME ~LostWrites, MaxId <= IntMax
  PROVE  RepoSpec => []IndexPointsToOwnRow
<1>1. RepoInit => IndexPointsToOwnRow
  BY DEF RepoInit, Init, IndexPointsToOwnRow
<1>2. TypeOK /\ TypeOK' /\ IndexPointsToOwnRow /\ [RepoNext]_all => IndexPointsToOwnRow'
  BY NextIndexPointsToOwnRow, RepoUsesStorage
<1> QED
  BY <1>1, <1>2, RepoTypeOK, PTL DEF RepoSpec

(* Rows are the rows of entries in the process too, when the index cannot be full. *)
LEMMA RepoDurable ==
  ASSUME ~LostWrites, MaxId <= IntMax, Cardinality(Name) <= MaxPackets
  PROVE  RepoSpec => []DurableInv
<1>1. RepoInit => DurableInv
  BY DEF RepoInit, Init, DurableInv, IndexPointsToOwnRow, NoRowOutsideIndex, RowsDistinct,
         LoadedPart, Loading
<1>2. TypeOK /\ TypeOK' /\ DurableInv /\ [RepoNext]_all => DurableInv'
  BY NextDurable, RepoUsesStorage
<1> QED
  BY <1>1, <1>2, RepoTypeOK, PTL DEF RepoSpec

-----------------------------------------------------------------------------
(* What the handlers leave of the connections *)
LEMMA RepoUsesTcp ==
  ASSUME [RepoNext]_all
  PROVE  [TcpNext]_tcp
<1>1. CASE Construct \/ InitializeStorage \/ EnableValidation \/ EnableListening
  BY <1>1 DEF Construct, InitializeStorage, EnableValidation, EnableListening, TcpNext
<1>2. ASSUME OthersGo PROVE [TcpNext]_tcp
  BY <1>2 DEF OthersGo, TcpNext
<1>3. CASE Terminate \/ Crash \/ CommandRegisterFails
  BY <1>2, <1>3 DEF Terminate, Crash, CommandRegisterFails, TcpNext
<1>4. CASE (\E p \in pending : Register(p)) \/ ReadRegisterFails
  BY <1>4 DEF Register, ReadRegisterFails
<1>5. CASE \/ \E q \in ReadInterest : Read(q)
           \/ \E n \in Name : Fetched(n)
           \/ MalformedCommand \/ (\E c \in DeleteCommand : Delete(c)) \/ DeleteRound
  BY <1>2, <1>5 DEF Read, Fetched, MalformedCommand, Delete, DeleteRound
<1>6. CASE TcpEndReceive \/ TcpAcceptFails \/ \E c \in Conn : TcpConnection(c) \/ TcpReceive(c)
  BY <1>6 DEF TcpEndReceive, TcpAcceptFails, TcpConnection, TcpReceive, TcpNext
<1>7. CASE \E c \in Conn : \E e \in Element[c] : TcpInsert(e)
  BY <1>7 DEF TcpInsert, TcpNext
<1>8. CASE UNCHANGED all
  BY <1>8 DEF all
<1> QED
  BY <1>1, <1>3, <1>4, <1>5, <1>6, <1>7, <1>8 DEF RepoNext

(* In the process, too, the connections are those of TcpBulkInsert: their buffers hold
   the rest of the streams and have room, whatever the other handlers do, when they
   throw and when the process ends and starts again. *)
THEOREM RepoImplementsTcp == RepoSpec => TcpSpec
<1>1. RepoInit => TcpInit
  BY DEF RepoInit
<1> QED
  BY <1>1, RepoUsesTcp, PTL DEF RepoSpec, TcpSpec

-----------------------------------------------------------------------------
(* A range command that runs: where it is, and that what it passed is not indexed. *)
LoopOK ==
  Looping =>
    LET c == loop.command IN
    /\ DOMAIN loop = {"command", "i", "count"}
    /\ c \in DeleteCommand /\ IsRange(c) /\ c.end \in SegmentNo
    /\ loop.i \in SegmentNo
    /\ up /\ active = Nobody
    /\ c.end # Word - 1 =>
         /\ First(c) <= loop.i
         /\ \A j \in SegmentNo : First(c) <= j /\ j < loop.i =>
              SegmentsOf[c][j] \cap DOMAIN index = {}

(* Where the ids are those of rows, the deletion loop reaches all that matches. *)
LEMMA AllVisited ==
  ASSUME TypeOK, IndexPointsToOwnRow, NEW q
  PROVE  Visited(q) = Matching(q)
<1>1. \A n \in DOMAIN index : index[n].id # 0
  BY DEF TypeOK, IndexPointsToOwnRow
<1> QED
  BY <1>1 DEF Visited, Matching

(* The first segment of a range *)
LEMMA FirstIsSegment ==
  ASSUME NEW c \in DeleteCommand
  PROVE  First(c) \in SegmentNo
BY DeleteCommandAssumption, WordAssumption DEF First, SegmentNo, NoBlock

(* A round of the deletion loop over a range moves on, and leaves nothing behind. *)
LEMMA RoundKeepsLoop ==
  ASSUME TypeOK, IndexPointsToOwnRow, LoopOK, DeleteSegment, OthersGo
  PROVE  LoopOK'
<1> DEFINE c == loop.command
           q == [names |-> SegmentsOf[c][loop.i], keyed |-> FALSE]
<1>1. /\ DOMAIN loop = {"command", "i", "count"}
      /\ c \in DeleteCommand /\ IsRange(c) /\ c.end \in SegmentNo
      /\ loop.i \in SegmentNo /\ loop.i <= c.end
      /\ up /\ active = Nobody
      /\ c.end # Word - 1 =>
           /\ First(c) <= loop.i
           /\ \A j \in SegmentNo : First(c) <= j /\ j < loop.i =>
                SegmentsOf[c][j] \cap DOMAIN index = {}
  BY DEF LoopOK, DeleteSegment, LoopRuns
<1>2. CASE loop' = NoLoop
  BY <1>2 DEF LoopOK, Looping
<1>3. CASE /\ DeleteData(q)
           /\ loop' = [loop EXCEPT !.i = (@ + 1) % Word,
                                   !.count = IF reply'.count # 0 THEN @ + 1 ELSE @]
  <2>1. /\ loop'.command = c /\ loop'.i = (loop.i + 1) % Word
        /\ DOMAIN loop' = {"command", "i", "count"}
    BY <1>1, <1>3
  <2>2. /\ Word \in Nat \ {0} /\ loop.i \in Nat /\ loop.i < Word
        /\ c.end \in Nat /\ c.end < Word
    BY <1>1, WordAssumption DEF SegmentNo
  <2>3. /\ (loop.i + 1) % Word \in SegmentNo
        /\ c.end # Word - 1 => (loop.i + 1) % Word = loop.i + 1
    BY <1>1, <2>2 DEF SegmentNo
  <2>4. up' = up /\ index' = [n \in DOMAIN index \ Visited(q) |-> index[n]]
    BY <1>3 DEF DeleteData
  <2>5. active' = Nobody
    BY <1>1, <2>4 DEF OthersGo, tcp
  <2>6. SegmentsOf[c][loop.i] \cap DOMAIN index' = {}
    <3>1. Visited(q) = {n \in DOMAIN index : n \in SegmentsOf[c][loop.i]}
      BY AllVisited DEF Matching
    <3> QED
      BY <2>4, <3>1
  <2>7. \A j \in SegmentNo : c.end # Word - 1 /\ First(c) <= j /\ j < loop.i + 1 =>
          SegmentsOf[c][j] \cap DOMAIN index' = {}
    <3> SUFFICES ASSUME NEW j \in SegmentNo, c.end # Word - 1, First(c) <= j, j < loop.i + 1
                 PROVE  SegmentsOf[c][j] \cap DOMAIN index' = {}
      OBVIOUS
    <3>1. CASE j = loop.i
      BY <2>6, <3>1
    <3>2. CASE j # loop.i
      <4>1. j < loop.i
        BY <2>2, <3>2 DEF SegmentNo
      <4> QED
        BY <1>1, <2>4, <4>1
    <3> QED
      BY <3>1, <3>2
  <2>8. c.end # Word - 1 => First(c) <= loop.i + 1
    BY <1>1, <2>2, FirstIsSegment DEF SegmentNo
  <2> HIDE DEF c
  <2> QED
    BY <1>1, <2>1, <2>3, <2>4, <2>5, <2>7, <2>8, ZenonT(40) DEF LoopOK
<1> QED
  BY <1>2, <1>3 DEF DeleteSegment

(* Every handler keeps the loop of a range command. *)
LEMMA LoopKept ==
  ASSUME TypeOK, IndexPointsToOwnRow, LoopOK, [RepoNext]_all
  PROVE  LoopOK'
<1>1. ASSUME UNCHANGED <<loop, index, up, active>> PROVE LoopOK'
  BY <1>1 DEF LoopOK, Looping
<1>2. ASSUME loop' = NoLoop PROVE LoopOK'
  BY <1>2 DEF LoopOK, Looping
<1>3. ASSUME ~Looping, UNCHANGED loop PROVE LoopOK'
  BY <1>3 DEF LoopOK, Looping
<1> USE DEF NotCalled, NoDelete
<1>4. CASE Construct \/ EnableValidation \/ EnableListening
  BY <1>1, <1>4 DEF Construct, EnableValidation, EnableListening, Listen, tcp
<1>5. CASE InitializeStorage
  <2>1. ~up
    BY <1>5 DEF InitializeStorage, BeginLoad, LoadRow, FinishLoad, LoadFails, TypeOK
  <2>2. ~Looping
    BY <2>1 DEF LoopOK
  <2> QED
    BY <1>3, <1>5, <2>2 DEF InitializeStorage
<1>6. CASE Terminate \/ CommandRegisterFails \/ (\E p \in pending : Register(p)) \/ ReadRegisterFails
           \/ (\E q \in ReadInterest : Read(q)) \/ (\E n \in Name : Fetched(n)) \/ MalformedCommand
  BY <1>3, <1>6 DEF Terminate, CommandRegisterFails, Register, ReadRegisterFails, Read, Fetched,
                    MalformedCommand, MalformedDelete, Idle
<1>7. CASE Crash
  BY <1>2, <1>7 DEF Crash
<1>8. ASSUME NEW c \in DeleteCommand, Delete(c) PROVE LoopOK'
  <2>1. CASE RefuseDelete(c) \/ DeleteOnce(c)
    BY <1>3, <2>1 DEF RefuseDelete, DeleteOnce
  <2>2. CASE DeleteRange(c)
    <3>1. CASE UNCHANGED loop
      BY <1>3, <2>2, <3>1 DEF DeleteRange
    <3>2. CASE /\ c.end # NoBlock
               /\ loop' = [command |-> c, i |-> First(c), count |-> 0]
               /\ NotCalled
      <4>1. /\ up /\ IsRange(c) /\ active = Nobody /\ UNCHANGED <<index, up>>
        BY <1>8, <2>2, <3>2 DEF DeleteRange, Delete, Idle
      <4>2. c.end \in SegmentNo /\ First(c) \in SegmentNo
        BY <3>2, DeleteCommandAssumption, FirstIsSegment
      <4>3. active' = Nobody
        BY <1>8, <4>1 DEF Delete, OthersGo, tcp
      <4>4. /\ loop'.command = c /\ loop'.i = First(c)
            /\ DOMAIN loop' = {"command", "i", "count"}
        BY <3>2
      <4>5. \A j \in SegmentNo : ~(First(c) <= j /\ j < First(c)) /\ First(c) <= First(c)
        BY <4>2, WordAssumption DEF SegmentNo
      <4> QED
        BY <4>1, <4>2, <4>3, <4>4, <4>5 DEF LoopOK
    <3> QED
      BY <2>2, <3>1, <3>2 DEF DeleteRange
  <2> QED
    BY <1>8, <2>1, <2>2 DEF Delete
<1>9. CASE DeleteRound
  <2>1. CASE DeleteSegment
    BY <1>9, <2>1, RoundKeepsLoop DEF DeleteRound
  <2>2. CASE FinishDelete
    BY <1>2, <2>2 DEF FinishDelete
  <2> QED
    BY <1>9, <2>1, <2>2 DEF DeleteRound
<1>10. ASSUME TcpAcceptFails \/ \E c \in Conn : TcpConnection(c) \/ TcpReceive(c) PROVE LoopOK'
  BY <1>3, <1>10 DEF TcpAcceptFails, TcpConnection, TcpReceive, OnlyTcp
<1>11. ASSUME NEW c \in Conn, NEW e \in Element[c], TcpInsert(e) PROVE LoopOK'
  <2>1. active # Nobody /\ UNCHANGED loop
    BY <1>11 DEF TcpInsert, Cut
  <2>2. ~Looping
    BY <2>1 DEF LoopOK
  <2> QED
    BY <1>3, <2>1, <2>2
<1>12. CASE TcpEndReceive
  <2>1. active # Nobody /\ UNCHANGED loop
    BY <1>12 DEF TcpEndReceive, CloseSocket, KeepRest, LoopOver, OnlyTcp
  <2>2. ~Looping
    BY <2>1 DEF LoopOK
  <2> QED
    BY <1>3, <2>1, <2>2
<1>13. CASE UNCHANGED all
  BY <1>1, <1>13 DEF all, vars, deletion, tcp
<1> QED
  BY <1>4, <1>5, <1>6, <1>7, <1>8, <1>9, <1>10, <1>11, <1>12, <1>13 DEF RepoNext

(* The loop of a range command, always *)
LEMMA LoopInvariant ==
  ASSUME ~LostWrites, MaxId <= IntMax
  PROVE  RepoSpec => []LoopOK
<1>1. RepoInit => LoopOK
  BY DEF RepoInit, DeleteInit, LoopOK, Looping
<1>2. TypeOK /\ IndexPointsToOwnRow /\ LoopOK /\ [RepoNext]_all => LoopOK'
  BY LoopKept
<1> QED
  BY <1>1, <1>2, RepoTypeOK, RepoRowsAgree, PTL DEF RepoSpec

-----------------------------------------------------------------------------
(* An insertion keeps every row, and one that succeeds has its own. *)
LEMMA InsertsKeepRows ==
  ASSUME ~LostWrites, TypeOK, NEW n, Inserts(n)
  PROVE  /\ RowNames \subseteq RowNames'
         /\ reply' = Inserted(TRUE) => n \in RowNames'
<1>0. Inserted(TRUE).op # Threw.op
  OBVIOUS
<1>1. CASE InsertDuplicate(n)
  <2>1. reply' = Threw /\ UNCHANGED rows
    BY <1>1 DEF InsertDuplicate, Throw, Die
  <2> QED
    BY <1>0, <2>1
<1>2. CASE InsertNameless(n)
  BY <1>2 DEF InsertNameless
<1>3. CASE InsertData(n)
  <2>1. /\ Ids' = Ids \cup {lastId + 1}
        /\ rows'[lastId + 1] = n
        /\ \A i \in Ids : rows'[i] = rows[i]
    BY <1>3 DEF InsertData, PutRow, LoseRow, TypeOK
  <2> QED
    BY <2>1
<1>4. CASE InsertError(n)
  <2>1. reply' = Threw /\ UNCHANGED rows
    BY <1>4 DEF InsertError, Throw, Die
  <2> QED
    BY <1>0, <2>1
<1> QED
  BY <1>1, <1>2, <1>3, <1>4 DEF Inserts

(* A deletion takes from the table only packets it asks for; if it leaves the index
   alone it takes none. *)
LEMMA DeletesWhatIsAsked ==
  ASSUME TypeOK, IndexPointsToOwnRow, NEW q, DeleteData(q) \/ DeleteError(q)
  PROVE  /\ RowNames \ q.names \subseteq RowNames'
         /\ index' = index => RowNames \subseteq RowNames'
<1>1. Visited(q) \subseteq DOMAIN index /\ Visited(q) \subseteq q.names
  BY DEF Visited, Matching
<1>2. PICK S \in SUBSET Visited(q) : rows' = [i \in Ids \ IdsOf(S) |-> rows[i]]
  BY DEF DeleteData, DeleteError, EraseRows
<1>3. \A i \in IdsOf(S) : rows[i] \in S
  BY <1>1, <1>2 DEF IdsOf, IndexPointsToOwnRow
<1>4. RowNames \ S \subseteq RowNames'
  BY <1>2, <1>3
<1>5. ASSUME index' = index PROVE S = {}
  <2>1. CASE DeleteData(q)
    BY <1>1, <1>5, <2>1 DEF DeleteData
  <2>2. CASE DeleteError(q)
    BY <1>1, <1>5, <2>2 DEF DeleteError, Die
  <2> QED
    BY <2>1, <2>2
<1> QED
  BY <1>1, <1>4, <1>5

(* The packets of a segment are among those that the command names. *)
LEMMA SegmentIsNamed ==
  ASSUME LoopOK, Looping, LoopRuns
  PROVE  SegmentsOf[loop.command][loop.i] \subseteq Named(loop.command)
<1> DEFINE c == loop.command
<1>1. /\ c \in DeleteCommand /\ IsRange(c) /\ c.end \in SegmentNo /\ loop.i \in SegmentNo
      /\ loop.i <= c.end /\ (c.end # Word - 1 => First(c) <= loop.i)
  BY DEF LoopOK, LoopRuns
<1>2. c.end # Word - 1 => loop.i \in First(c)..c.end
  BY <1>1, FirstIsSegment, WordAssumption DEF SegmentNo
<1> HIDE DEF c
<1>3. SegmentsOf[c][loop.i] \subseteq Named(c)
  BY <1>1, <1>2 DEF Named, Touched
<1> QED
  BY <1>3 DEF c

(* Every handler keeps what was accepted and not named by a delete command. *)
LEMMA AcceptedKept ==
  ASSUME ~LostWrites, TypeOK, IndexPointsToOwnRow, LoopOK, AcceptedIsOnDisk, [RepoNext]_all
  PROVE  AcceptedIsOnDisk'
<1> USE DEF AcceptedIsOnDisk
<1>1. ASSUME UNCHANGED rows, accepted' \subseteq accepted PROVE AcceptedIsOnDisk'
  BY <1>1
<1>2. ASSUME NEW n, Inserts(n),
             accepted' = IF reply' = Inserted(TRUE) THEN accepted \cup {n} ELSE accepted
      PROVE  AcceptedIsOnDisk'
  BY <1>2, InsertsKeepRows
<1>3. ASSUME NEW q, DeleteData(q) \/ DeleteError(q), NEW names, q.names \subseteq names,
             accepted' = IF index' = index THEN accepted ELSE accepted \ names
      PROVE  AcceptedIsOnDisk'
  BY <1>3, DeletesWhatIsAsked
<1>4. CASE Construct \/ EnableValidation \/ EnableListening
  BY <1>1, <1>4 DEF Construct, EnableValidation, EnableListening, NotCalled
<1>5. CASE InitializeStorage
  BY <1>1, <1>5 DEF InitializeStorage, BeginLoad, LoadRow, FinishLoad, LoadFails
<1>6. CASE Terminate \/ Crash \/ CommandRegisterFails \/ MalformedCommand
  BY <1>1, <1>6 DEF Terminate, Crash, CommandRegisterFails, MalformedCommand, MalformedDelete,
                    Stop, NotCalled
<1>7. CASE (\E p \in pending : Register(p)) \/ ReadRegisterFails \/ \E q \in ReadInterest : Read(q)
  BY <1>1, <1>7 DEF Register, ReadRegisterFails, Read, ReadData, ReadError, NotCalled
<1>8. ASSUME NEW n \in Name, Fetched(n) PROVE AcceptedIsOnDisk'
  BY <1>2, <1>8 DEF Fetched, Inserts
<1>9. ASSUME NEW c \in DeleteCommand, Delete(c) PROVE AcceptedIsOnDisk'
  <2>1. CASE RefuseDelete(c) \/ DeleteRange(c)
    BY <1>1, <1>9, <2>1 DEF Delete, RefuseDelete, DeleteRange, NotCalled
  <2>2. CASE DeleteOnce(c)
    <3>1. DeleteData(c.query) \/ DeleteError(c.query)
      BY <2>2 DEF DeleteOnce
    <3>2. Touched(c) = c.query.names
      BY <2>2 DEF DeleteOnce, Touched
    <3> QED
      BY <1>3, <1>9, <3>1, <3>2 DEF Delete
  <2> QED
    BY <1>9, <2>1, <2>2 DEF Delete
<1>10. CASE DeleteRound
  <2>1. CASE DeleteSegment
    <3>1. PICK q : q = [names |-> SegmentsOf[loop.command][loop.i], keyed |-> FALSE]
      OBVIOUS
    <3>2. DeleteData(q) \/ DeleteError(q)
      BY <2>1, <3>1 DEF DeleteSegment
    <3>3. PICK names : names = Named(loop.command)
      OBVIOUS
    <3>4. q.names \subseteq names
      BY <2>1, <3>1, <3>3, SegmentIsNamed DEF DeleteSegment, LoopRuns
    <3> QED
      BY <1>3, <1>10, <3>2, <3>3, <3>4 DEF DeleteRound
  <2>2. CASE FinishDelete
    BY <1>1, <1>10, <2>2 DEF DeleteRound, FinishDelete, NotCalled
  <2> QED
    BY <1>10, <2>1, <2>2 DEF DeleteRound
<1>11. ASSUME NEW c \in Conn, NEW e \in Element[c], TcpInsert(e) PROVE AcceptedIsOnDisk'
  <2>1. CASE e.kind = Other /\ NotCalled
    BY <1>1, <1>11, <2>1 DEF TcpInsert, NotCalled
  <2>2. CASE Inserts(e.kind)
    <3>1. CASE e.kind # Other
      BY <1>2, <1>11, <2>2, <3>1 DEF TcpInsert
    <3>2. CASE e.kind = Other
      BY <1>11, <2>2, <3>2, InsertsKeepRows DEF TcpInsert
    <3> QED
      BY <3>1, <3>2
  <2> QED
    BY <1>11, <2>1, <2>2 DEF TcpInsert, Inserts
<1>12. CASE TcpEndReceive \/ TcpAcceptFails \/ \E c \in Conn : TcpConnection(c) \/ TcpReceive(c)
  BY <1>1, <1>12 DEF TcpEndReceive, TcpAcceptFails, TcpConnection, TcpReceive, OnlyTcp, NotCalled
<1>13. CASE UNCHANGED all
  BY <1>1, <1>13 DEF all, vars
<1> QED
  BY <1>4, <1>5, <1>6, <1>7, <1>8, <1>9, <1>10, <1>11, <1>12, <1>13 DEF RepoNext

(* When SQLite reports every failed write and the ids fit in an int, a packet whose
   insertion succeeded is in the database until a delete command names it: whatever the other handlers do, when the
   process ends in the middle of one, and over restarts, also with an index that is
   full or a database that cannot be loaded. *)
THEOREM AcceptedStaysOnDisk ==
  ASSUME ~LostWrites, MaxId <= IntMax
  PROVE  RepoSpec => []AcceptedIsOnDisk
<1>1. RepoInit => AcceptedIsOnDisk
  BY DEF RepoInit, AcceptedIsOnDisk
<1>2. TypeOK /\ IndexPointsToOwnRow /\ LoopOK /\ AcceptedIsOnDisk /\ [RepoNext]_all
        => AcceptedIsOnDisk'
  BY AcceptedKept
<1> QED
  BY <1>1, <1>2, RepoTypeOK, RepoRowsAgree, LoopInvariant, PTL DEF RepoSpec

-----------------------------------------------------------------------------
(* What a step that answers 200 leaves of the packets that the command names *)
LEMMA AnswerIsTrue ==
  ASSUME TypeOK, DurableInv, DurableInv', LoopOK, [RepoNext]_all,
         answer' # answer, answer'.code = 200, ~answer'.command.query.keyed
  PROVE  Touched(answer'.command) \cap (DOMAIN index' \cup RowNames') = {}
<1>1. SUFFICES up' /\ Touched(answer'.command) \cap DOMAIN index' = {}
  BY DEF DurableInv, NoRowOutsideIndex
<1>2. answer' # NoAnswer /\ \A c, code : code # 200 => ~NegativeReply(c, code)
  BY DEF NoAnswer, NegativeReply
<1>3. \A c, count : PositiveReply(c, count) => answer'.command = c
  BY DEF PositiveReply
<1>4. ASSUME NEW c \in DeleteCommand, DeleteOnce(c)
      PROVE  up' /\ Touched(answer'.command) \cap DOMAIN index' = {}
  <2>1. /\ ~IsRange(c) /\ DeleteData(c.query) /\ answer'.command = c
    BY <1>2, <1>3, <1>4 DEF DeleteOnce
  <2>2. Visited(c.query) = {n \in DOMAIN index : n \in c.query.names}
    BY <2>1, AllVisited DEF Matching, DurableInv
  <2>3. Touched(answer'.command) = c.query.names
    BY <2>1 DEF Touched
  <2> QED
    BY <2>1, <2>2, <2>3 DEF DeleteData
<1>5. CASE FinishDelete
  <2>1. PICK c : c = loop.command
    OBVIOUS
  <2>2. /\ answer'.command = c /\ UNCHANGED <<index, up>> /\ up
    BY <1>3, <1>5, <2>1 DEF FinishDelete, LoopRuns, NotCalled
  <2>3. /\ c \in DeleteCommand /\ IsRange(c) /\ c.end \in SegmentNo /\ loop.i \in SegmentNo
        /\ c.end # Word - 1 =>
             \A j \in SegmentNo : First(c) <= j /\ j < loop.i =>
               SegmentsOf[c][j] \cap DOMAIN index = {}
    BY <1>5, <2>1 DEF FinishDelete, LoopOK
  <2>4. c.end # Word - 1 /\ c.end < loop.i
    BY <1>5, <2>1, <2>3, WordAssumption DEF FinishDelete, LoopRuns, SegmentNo
  <2>5. \A j \in First(c)..c.end : j \in SegmentNo /\ First(c) <= j /\ j < loop.i
    BY <2>3, <2>4, FirstIsSegment, WordAssumption DEF SegmentNo
  <2>6. Touched(c) \cap DOMAIN index = {}
    BY <2>3, <2>4, <2>5 DEF Touched
  <2>7. Touched(answer'.command) = Touched(c)
    BY <2>2
  <2> QED
    BY <2>2, <2>6, <2>7
<1>6. ASSUME NEW c \in DeleteCommand, RefuseDelete(c) \/ DeleteRange(c) PROVE FALSE
  BY <1>2, <1>6 DEF RefuseDelete, DeleteRange
<1>7. ASSUME DeleteSegment PROVE FALSE
  BY <1>2, <1>7 DEF DeleteSegment
<1>8. \/ \E c \in DeleteCommand : Delete(c)
      \/ DeleteRound
  BY <1>2 DEF RepoNext, NoDelete, Construct, InitializeStorage, EnableValidation, EnableListening,
       Terminate, Crash, CommandRegisterFails, Register, ReadRegisterFails, Read, Fetched,
       MalformedCommand, MalformedDelete, TcpInsert, TcpEndReceive, TcpAcceptFails, TcpConnection, TcpReceive, OnlyTcp, all,
       deletion
<1> QED
  BY <1>4, <1>5, <1>6, <1>7, <1>8 DEF Delete, DeleteRound

(* When SQLite reports every failed write, the ids fit in an int and every name fits in
   the index, a delete command that is answered 200 has left nothing it names, in the index or in the table:
   by name, by selectors and over a range of any length, from any state in which the
   command can arrive. *)
THEOREM ReportedGoneIsGone ==
  ASSUME ~LostWrites, MaxId <= IntMax, Cardinality(Name) <= MaxPackets
  PROVE  RepoSpec => ReportedIsGone
<1> DEFINE Gone == answer' # answer /\ answer'.code = 200 /\ ~answer'.command.query.keyed =>
                     Touched(answer'.command) \cap (DOMAIN index' \cup RowNames') = {}
<1>1. TypeOK /\ DurableInv /\ DurableInv' /\ LoopOK /\ [RepoNext]_all => [Gone]_<<vars, deletion>>
  BY AnswerIsTrue
<1> QED
  BY <1>1, RepoTypeOK, RepoDurable, LoopInvariant, PTL DEF RepoSpec, ReportedIsGone
=============================================================================
