------------------------- MODULE TcpBulkInsertProofs -------------------------
(***************************************************************************)
(* Theorems about TcpBulkInsert, for any streams, cut into receives in any *)
(* way, and any size of the buffer: the buffer always holds the rest of    *)
(* its stream, and a connection that waits has room.                       *)
(***************************************************************************)
EXTENDS TcpBulkInsert, TLAPS

(* A connection is fresh until it is accepted. *)
FreshUntilAccepted ==
  \A c \in Conn : socket[c] = "none" => filled[c] = 0 /\ got[c] = 0 /\ handed[c] = {}

(* Element numbers, from the assumptions on the streams. *)
LEMMA Elements ==
  ASSUME NEW c \in Conn, NEW e \in Element[c]
  PROVE  /\ e.from \in Nat \ {0} /\ e.to \in Nat /\ e.from <= e.to
         /\ \A d \in Element[c] : d # e => d.to < e.from \/ e.to < d.from
<1>1. e \in [from : Nat \ {0}, to : Nat, kind : Nat \cup {Malformed}]
  BY ElementAssumption
<1> QED
  BY <1>1, ElementAssumption

(* The initial state has its shape. *)
LEMMA InitShape == TcpInit => TcpTypeOK
<1> SUFFICES ASSUME TcpInit PROVE TcpTypeOK
  OBVIOUS
<1>1. buffer \in [Conn -> [Slot -> Nat]]
  BY DEF TcpInit
<1>2. filled \in [Conn -> 0..Max] /\ got \in [Conn -> Nat] /\ offset \in 0..Max
  BY MaxAssumption DEF TcpInit
<1>3. handed \in [Conn -> SUBSET UNION {Element[c] : c \in Conn}]
  BY DEF TcpInit
<1> QED
  BY <1>1, <1>2, <1>3 DEF TcpInit, TcpTypeOK, Nobody

(* Every handler keeps the shape of the state. *)
LEMMA NextShape == TcpTypeOK /\ [TcpNext]_tcp => TcpTypeOK'
<1> SUFFICES ASSUME TcpTypeOK, [TcpNext]_tcp PROVE TcpTypeOK'
  OBVIOUS
<1>0. Nobody \notin Conn /\ Max \in Nat \ {0}
  BY ConnAssumption, MaxAssumption
<1>1. CASE Listen \/ StopListening
  BY <1>1 DEF Listen, StopListening, TcpTypeOK
<1>2. ASSUME NEW c \in Conn, Accept(c) PROVE TcpTypeOK'
  BY <1>0, <1>2 DEF Accept, TcpTypeOK
<1>3. ASSUME NEW c \in Conn, NEW n \in 1..Max, Receive(c, n) PROVE TcpTypeOK'
  <2>1. filled[c] \in 0..Max /\ got[c] \in Nat /\ buffer[c] \in [Slot -> Nat]
    BY DEF TcpTypeOK
  <2>2. n \in 1..(Max - filled[c])
    BY <1>3 DEF Receive
  <2>3. [i \in Slot |-> IF filled[c] <= i /\ i < filled[c] + n
                          THEN got[c] + 1 + i - filled[c] ELSE buffer[c][i]] \in [Slot -> Nat]
    <3>1. ASSUME NEW i \in Slot, filled[c] <= i
          PROVE  got[c] + 1 + i - filled[c] \in Nat
      BY <1>0, <2>1, <3>1 DEF Slot
    <3>2. \A i \in Slot : buffer[c][i] \in Nat
      BY <2>1
    <3> QED
      BY <3>1, <3>2
  <2>4. buffer' \in [Conn -> [Slot -> Nat]]
    BY <1>3, <2>3 DEF Receive, TcpTypeOK
  <2>5. filled' \in [Conn -> 0..Max] /\ filled'[c] \in Nat
    BY <1>0, <1>3, <2>1, <2>2 DEF Receive, TcpTypeOK
  <2>6. got' \in [Conn -> Nat]
    BY <1>3, <2>1 DEF Receive, TcpTypeOK
  <2>7. active' = c /\ offset' = 0 /\ socket' = socket /\ socket[c] = "open"
        /\ handed' = handed /\ listening' = listening
    BY <1>3 DEF Receive
  <2> QED
    BY <1>0, <2>4, <2>5, <2>6, <2>7 DEF TcpTypeOK
<1>4. ASSUME NEW c \in Conn, NEW e \in Element[c], Cut(e) PROVE TcpTypeOK'
  <2>1. /\ active \in Conn /\ e \in Element[active]
        /\ offset + e.to - e.from < filled[active]
    BY <1>4 DEF Cut, Whole, TcpTypeOK
  <2>2. e.from \in Nat /\ e.to \in Nat /\ e.from <= e.to /\ filled[active] \in 0..Max /\ offset \in 0..Max
    BY <2>1, Elements DEF TcpTypeOK
  <2>3. offset' \in 0..Max /\ offset' <= filled[active]
    BY <1>0, <1>4, <2>1, <2>2 DEF Cut
  <2>4. handed' \in [Conn -> SUBSET UNION {Element[d] : d \in Conn}]
    BY <1>4, <2>1 DEF Cut, TcpTypeOK
  <2> QED
    BY <1>4, <2>3, <2>4 DEF Cut, TcpTypeOK
<1>5. CASE CloseSocket
  <2>1. active \in Conn /\ active' = Nobody /\ offset' = 0
    BY <1>5 DEF CloseSocket, LoopOver, TcpTypeOK
  <2> QED
    BY <1>0, <1>5, <2>1 DEF CloseSocket, TcpTypeOK
<1>6. CASE KeepRest
  <2>1. /\ active \in Conn /\ filled[active] \in 0..Max /\ offset \in 0..Max
        /\ offset <= filled[active] /\ buffer[active] \in [Slot -> Nat]
    BY <1>6 DEF KeepRest, LoopOver, TcpTypeOK
  <2>2. Shifted(buffer[active], offset, filled[active]) \in [Slot -> Nat]
    BY <1>0, <2>1 DEF Shifted, Slot
  <2>3. buffer' \in [Conn -> [Slot -> Nat]]
    BY <1>6, <2>1, <2>2 DEF KeepRest, TcpTypeOK
  <2>4. filled' \in [Conn -> 0..Max]
    BY <1>0, <1>6, <2>1 DEF KeepRest, TcpTypeOK
  <2> QED
    BY <1>0, <1>6, <2>3, <2>4 DEF KeepRest, TcpTypeOK
<1>7. ASSUME NEW c \in Conn, Disconnect(c) PROVE TcpTypeOK'
  BY <1>0, <1>7 DEF Disconnect, TcpTypeOK
<1>8. CASE CloseAll
  <2>1. socket' \in [Conn -> {"none", "open", "closed", "refused"}]
    BY <1>8 DEF CloseAll, TcpTypeOK
  <2>2. listening' \in BOOLEAN
    BY <1>8, Zenon DEF CloseAll
  <2>3. active' = Nobody /\ offset' = 0 /\ 0 \in 0..Max
    BY <1>0, <1>8 DEF CloseAll
  <2> QED
    BY <1>8, <2>1, <2>2, <2>3 DEF CloseAll, TcpTypeOK
<1>9. CASE UNCHANGED tcp
  BY <1>9 DEF tcp, TcpTypeOK
<1> QED
  BY <1>1, <1>2, <1>3, <1>4, <1>5, <1>6, <1>7, <1>8, <1>9 DEF TcpNext

(* Every reachable state of the TCP handler has its shape: the fill of a buffer and the
   offset of a running handleReceive stay within it. *)
THEOREM TcpTypeCorrect == TcpSpec => []TcpTypeOK
  BY InitShape, NextShape, PTL DEF TcpSpec

-----------------------------------------------------------------------------
(* BufferIsTheRest, connection by connection. *)
Taken(c) == got[c] - filled[c] + (IF active = c THEN offset ELSE 0)

Rest(c) ==
  /\ \A i \in 0..(filled[c] - 1) : buffer[c][i] = got[c] - filled[c] + 1 + i
  /\ \A e \in Element[c] : e \in handed[c] <=> e.kind # Malformed /\ e.to <= Taken(c)

TcpInv == TcpTypeOK /\ FreshUntilAccepted /\ BufferIsTheRest

LEMMA RestOfEach == BufferIsTheRest <=> \A c \in Conn : socket[c] = "open" => Rest(c)
  BY DEF BufferIsTheRest, Rest, Taken

(* A connection that a step leaves alone keeps its rest. *)
LEMMA RestUntouched ==
  ASSUME NEW c \in Conn, Rest(c), Taken(c)' = Taken(c), handed'[c] = handed[c],
         filled'[c] = filled[c], got'[c] = got[c], buffer'[c] = buffer[c]
  PROVE  Rest(c)'
  BY DEF Rest

(* A connection starts with nothing received and nothing taken. *)
LEMMA AcceptKeepsRest ==
  ASSUME TcpInv, NEW c \in Conn, Accept(c)
  PROVE  Rest(c)'
<1>1. filled'[c] = 0 /\ got'[c] = 0 /\ handed'[c] = {} /\ active' = Nobody
  BY DEF TcpInv, FreshUntilAccepted, Accept
<1>2. Taken(c)' = 0
  BY <1>1, ConnAssumption DEF Taken
<1>3. \A e \in Element[c] : e \notin handed'[c] /\ ~(e.to <= 0)
  BY <1>1, Elements
<1> QED
  BY <1>1, <1>2, <1>3 DEF Rest

(* What a receive appends comes right after what the buffer holds. *)
LEMMA ReceiveKeepsRest ==
  ASSUME TcpInv, NEW c \in Conn, NEW n \in 1..Max, Receive(c, n)
  PROVE  Rest(c)'
<1>1. /\ Rest(c) /\ active = Nobody /\ active' = c /\ offset' = 0 /\ handed' = handed
      /\ filled'[c] = filled[c] + n /\ got'[c] = got[c] + n
      /\ n \in 1..(Max - filled[c])
  BY RestOfEach DEF TcpInv, TcpTypeOK, Receive
<1>2. filled[c] \in 0..Max /\ got[c] \in Nat /\ c # Nobody
  BY ConnAssumption DEF TcpInv, TcpTypeOK
<1>3. \A i \in Slot : buffer'[c][i] = IF filled[c] <= i /\ i < filled[c] + n
                                       THEN got[c] + 1 + i - filled[c] ELSE buffer[c][i]
  BY DEF Receive, TcpInv, TcpTypeOK
<1>4. Taken(c)' = Taken(c)
  BY <1>1, <1>2 DEF Taken
<1>5. ASSUME NEW i \in 0..(filled'[c] - 1)
      PROVE  buffer'[c][i] = got'[c] - filled'[c] + 1 + i
  <2>1. i \in Slot
    BY <1>1, <1>2, <1>5, MaxAssumption DEF Slot
  <2>2. CASE i < filled[c]
    BY <1>1, <1>2, <1>3, <1>5, <2>1, <2>2 DEF Rest
  <2>3. CASE filled[c] <= i
    BY <1>1, <1>2, <1>3, <1>5, <2>1, <2>3
  <2> QED
    BY <1>2, <1>5, <2>2, <2>3
<1> QED
  BY <1>1, <1>4, <1>5 DEF Rest

(* The element that is cut is the next one of the stream. *)
LEMMA CutKeepsRest ==
  ASSUME TcpInv, NEW e, Cut(e), NEW c \in Conn, active = c
  PROVE  Rest(c)'
<1>1. /\ e \in Element[c] /\ e.kind # Malformed
      /\ offset < filled[c] /\ buffer[c][offset] = e.from
      /\ active' = c /\ offset' = offset + e.to - e.from + 1
      /\ handed'[c] = handed[c] \cup {e}
      /\ UNCHANGED <<buffer, filled, got>>
  BY DEF TcpInv, TcpTypeOK, Cut, Whole
<1>s. socket[c] = "open"
  BY ConnAssumption DEF TcpInv, TcpTypeOK
<1>2. Rest(c) /\ offset \in 0..Max /\ filled[c] \in 0..Max /\ got[c] \in Nat
  BY <1>1, <1>s, RestOfEach DEF TcpInv, TcpTypeOK
<1>3. /\ e.from \in Nat \ {0} /\ e.to \in Nat /\ e.from <= e.to
      /\ \A d \in Element[c] : d # e => d.to < e.from \/ e.to < d.from
  BY <1>1, Elements
<1>4. e.from = Taken(c) + 1 /\ Taken(c) \in Int
  BY <1>1, <1>2, <1>3, MaxAssumption DEF Rest, Taken
<1>5. Taken(c)' = e.to
  BY <1>1, <1>2, <1>3, <1>4 DEF Taken
<1>6. ASSUME NEW d \in Element[c]
      PROVE  d \in handed'[c] <=> d.kind # Malformed /\ d.to <= e.to
  <2>1. CASE d = e
    BY <1>1, <1>3, <2>1
  <2>2. CASE d # e
    <3>1. d.from \in Nat /\ d.to \in Nat /\ d.from <= d.to
      BY <1>1, Elements
    <3>2. d.to < e.from \/ e.to < d.from
      BY <1>3, <2>2
    <3>3. d.to <= e.to <=> d.to <= Taken(c)
      BY <1>3, <1>4, <3>1, <3>2
    <3> QED
      BY <1>1, <1>2, <2>2, <3>3 DEF Rest
  <2> QED
    BY <2>1, <2>2
<1>7. \A i \in 0..(filled'[c] - 1) : buffer'[c][i] = got'[c] - filled'[c] + 1 + i
  BY <1>1, <1>2 DEF Rest
<1> QED
  BY <1>1, <1>5, <1>6, <1>7 DEF Rest

(* What moves to the front is what no element took. *)
LEMMA KeepRestKeepsRest ==
  ASSUME TcpInv, KeepRest, NEW c \in Conn, active = c
  PROVE  Rest(c)'
<1>1. /\ c # Nobody /\ active' = Nobody
      /\ filled'[c] = filled[c] - offset /\ handed' = handed /\ got' = got
      /\ buffer'[c] = Shifted(buffer[c], offset, filled[c])
  BY ConnAssumption DEF TcpInv, TcpTypeOK, KeepRest, LoopOver
<1>s. socket[c] = "open" /\ offset <= filled[c]
  BY ConnAssumption DEF TcpInv, TcpTypeOK
<1>2. /\ Rest(c) /\ offset \in 0..Max /\ filled[c] \in 0..Max /\ got[c] \in Nat
      /\ offset <= filled[c]
  BY <1>1, <1>s, RestOfEach DEF TcpInv, TcpTypeOK
<1>3. ASSUME NEW i \in 0..(filled'[c] - 1)
      PROVE  buffer'[c][i] = got'[c] - filled'[c] + 1 + i
  <2>1. i \in Slot /\ i + offset \in 0..(filled[c] - 1) /\ i + offset < filled[c]
    BY <1>1, <1>2, <1>3, MaxAssumption DEF Slot
  <2>2. buffer'[c][i] = buffer[c][i + offset]
    BY <1>1, <2>1 DEF Shifted
  <2> QED
    BY <1>1, <1>2, <1>3, <2>1, <2>2 DEF Rest
<1>4. Taken(c)' = Taken(c)
  BY <1>1, <1>2 DEF Taken
<1> QED
  BY <1>1, <1>2, <1>3, <1>4 DEF Rest

(* Every handler keeps the invariant of all connections. *)
LEMMA NextTcpInv == TcpInv /\ [TcpNext]_tcp => TcpInv'
<1> SUFFICES ASSUME TcpInv, [TcpNext]_tcp PROVE FreshUntilAccepted' /\ BufferIsTheRest'
  BY NextShape DEF TcpInv
<1>0. TcpTypeOK /\ FreshUntilAccepted /\ Nobody \notin Conn
  BY ConnAssumption DEF TcpInv
<1>r. \A c \in Conn : socket[c] = "open" => Rest(c)
  BY RestOfEach DEF TcpInv
<1>1. FreshUntilAccepted'
  <2>1. ASSUME NEW c \in Conn, Accept(c) PROVE FreshUntilAccepted'
    BY <1>0, <2>1 DEF Accept, FreshUntilAccepted, TcpTypeOK
  <2>2. ASSUME NEW c \in Conn, NEW n \in 1..Max, Receive(c, n) PROVE FreshUntilAccepted'
    BY <1>0, <2>2 DEF Receive, FreshUntilAccepted, TcpTypeOK
  <2>3. ASSUME NEW e, Cut(e) PROVE FreshUntilAccepted'
    BY <1>0, <2>3 DEF Cut, FreshUntilAccepted, TcpTypeOK
  <2>4. CASE KeepRest
    BY <1>0, <2>4 DEF KeepRest, LoopOver, FreshUntilAccepted, TcpTypeOK
  <2>5. CASE CloseSocket
    BY <1>0, <2>5 DEF CloseSocket, LoopOver, FreshUntilAccepted, TcpTypeOK
  <2>6. ASSUME NEW c \in Conn, Disconnect(c) PROVE FreshUntilAccepted'
    BY <1>0, <2>6 DEF Disconnect, FreshUntilAccepted, TcpTypeOK
  <2>7. CASE CloseAll
    BY <1>0, <2>7 DEF CloseAll, FreshUntilAccepted, TcpTypeOK
  <2>8. CASE Listen \/ StopListening \/ UNCHANGED tcp
    BY <1>0, <2>8 DEF Listen, StopListening, tcp, FreshUntilAccepted
  <2> QED
    BY <2>1, <2>2, <2>3, <2>4, <2>5, <2>6, <2>7, <2>8 DEF TcpNext
<1>2. ASSUME NEW c \in Conn, socket'[c] = "open" PROVE Rest(c)'
  <2>1. ASSUME NEW d \in Conn, Accept(d) PROVE Rest(c)'
    <3>1. CASE d = c
      BY <2>1, <3>1, AcceptKeepsRest
    <3>2. CASE d # c
      <4>1. socket[c] = "open" /\ UNCHANGED <<buffer, filled, got, active, offset, handed>>
        BY <1>0, <1>2, <2>1, <3>2 DEF Accept, TcpTypeOK
      <4> QED
        BY <1>r, <4>1, RestUntouched DEF Taken
    <3> QED
      BY <3>1, <3>2
  <2>2. ASSUME NEW d \in Conn, NEW n \in 1..Max, Receive(d, n) PROVE Rest(c)'
    <3>1. CASE d = c
      BY <2>2, <3>1, ReceiveKeepsRest
    <3>2. CASE d # c
      <4>1. /\ socket[c] = "open" /\ handed' = handed /\ active # c /\ active' # c
            /\ filled'[c] = filled[c] /\ got'[c] = got[c] /\ buffer'[c] = buffer[c]
        BY <1>0, <1>2, <2>2, <3>2 DEF Receive, TcpTypeOK
      <4> QED
        BY <1>r, <4>1, RestUntouched DEF Taken
    <3> QED
      BY <3>1, <3>2
  <2>3. ASSUME NEW e, Cut(e) PROVE Rest(c)'
    <3>1. CASE active = c
      BY <2>3, <3>1, CutKeepsRest
    <3>2. CASE active # c
      <4>1. /\ socket[c] = "open" /\ handed'[c] = handed[c] /\ active' # c
            /\ UNCHANGED <<buffer, filled, got>>
        BY <1>0, <1>2, <2>3, <3>2 DEF Cut, TcpTypeOK
      <4> QED
        BY <1>r, <3>2, <4>1, RestUntouched DEF Taken
    <3> QED
      BY <3>1, <3>2
  <2>4. CASE KeepRest
    <3>1. CASE active = c
      BY <2>4, <3>1, KeepRestKeepsRest
    <3>2. CASE active # c
      <4>1. /\ socket[c] = "open" /\ handed' = handed /\ got' = got /\ active' # c
            /\ filled'[c] = filled[c] /\ buffer'[c] = buffer[c]
        BY <1>0, <1>2, <2>4, <3>2 DEF KeepRest, LoopOver, TcpTypeOK
      <4> QED
        BY <1>r, <3>2, <4>1, RestUntouched DEF Taken
    <3> QED
      BY <3>1, <3>2
  <2>5. CASE CloseSocket
    <3>1. /\ socket[c] = "open" /\ active # c /\ active' # c
          /\ UNCHANGED <<buffer, filled, got, handed>>
      BY <1>0, <1>2, <2>5 DEF CloseSocket, LoopOver, TcpTypeOK
    <3> QED
      BY <1>r, <3>1, RestUntouched DEF Taken
  <2>6. ASSUME NEW d \in Conn, Disconnect(d) PROVE Rest(c)'
    <3>1. socket[c] = "open" /\ UNCHANGED <<buffer, filled, got, active, offset, handed>>
      BY <1>0, <1>2, <2>6 DEF Disconnect, TcpTypeOK
    <3> QED
      BY <1>r, <3>1, RestUntouched DEF Taken
  <2>7. CASE CloseAll
    BY <1>2, <2>7 DEF CloseAll
  <2>8. CASE Listen \/ StopListening \/ UNCHANGED tcp
    <3>1. socket[c] = "open" /\ UNCHANGED <<buffer, filled, got, active, offset, handed>>
      BY <1>2, <2>8 DEF Listen, StopListening, tcp
    <3> QED
      BY <1>r, <3>1, RestUntouched DEF Taken
  <2> QED
    BY <2>1, <2>2, <2>3, <2>4, <2>5, <2>6, <2>7, <2>8 DEF TcpNext
<1>3. BufferIsTheRest'
  BY <1>2 DEF BufferIsTheRest, Rest, Taken
<1> QED
  BY <1>1, <1>3

LEMMA InitTcpInv == TcpInit => TcpInv
<1> SUFFICES ASSUME TcpInit PROVE FreshUntilAccepted /\ BufferIsTheRest
  BY InitShape DEF TcpInv
<1> QED
  BY DEF TcpInit, FreshUntilAccepted, BufferIsTheRest

LEMMA TcpInvariant == TcpSpec => []TcpInv
  BY InitTcpInv, NextTcpInv, PTL DEF TcpSpec

(* However a stream is cut into receives, the buffer of an open connection holds its
   rest in order and without a gap, and the elements before it were handed on. *)
THEOREM BufferAlwaysTheRest == TcpSpec => []BufferIsTheRest
<1>1. TcpInv => BufferIsTheRest
  BY DEF TcpInv
<1> QED
  BY <1>1, TcpInvariant, PTL

-----------------------------------------------------------------------------
(* RoomToReceive, connection by connection. *)
Room(c) ==
  /\ filled[c] < Max
  /\ \A e \in Element[c] :
       e.kind # Malformed /\ e.from = got[c] - filled[c] + 1 => e.to > got[c]

(* When the loop is over and the connection goes on, no whole element is left and
   there is room behind what is kept. *)
LEMMA KeepRestLeavesRoom ==
  ASSUME TcpInv, KeepRest, NEW c \in Conn, active = c
  PROVE  Room(c)'
<1>1. /\ Whole(c) = {} /\ ~GiveUp(c)
      /\ filled'[c] = filled[c] - offset /\ got' = got
  BY ConnAssumption DEF TcpInv, TcpTypeOK, KeepRest, LoopOver
<1>s. socket[c] = "open" /\ offset <= filled[c]
  BY ConnAssumption DEF TcpInv, TcpTypeOK
<1>2. /\ Rest(c) /\ offset \in 0..Max /\ filled[c] \in 0..Max /\ got[c] \in Nat
      /\ offset <= filled[c]
  BY <1>1, <1>s, RestOfEach DEF TcpInv, TcpTypeOK
<1>3. filled'[c] < Max
  BY <1>1, <1>2, MaxAssumption DEF GiveUp
<1>4. ASSUME NEW e \in Element[c], e.kind # Malformed, e.from = got'[c] - filled'[c] + 1
      PROVE  e.to > got'[c]
  <2>1. e.from \in Nat /\ e.to \in Nat /\ e.from <= e.to
    BY <1>1, Elements
  <2>2. CASE offset = filled[c]
    BY <1>1, <1>2, <1>4, <2>1, <2>2
  <2>3. CASE offset < filled[c]
    <3>1. buffer[c][offset] = e.from
      BY <1>1, <1>2, <1>4, <2>3, MaxAssumption DEF Rest
    <3>2. ~(offset + e.to - e.from < filled[c])
      BY <1>1, <1>4, <2>3, <3>1 DEF Whole
    <3> QED
      BY <1>1, <1>2, <1>4, <2>1, <3>2
  <2> QED
    BY <1>2, <2>2, <2>3
<1> QED
  BY <1>3, <1>4 DEF Room

(* Every step keeps the room of the connections that wait. *)
LEMMA NextRoom == TcpInv /\ RoomToReceive /\ [TcpNext]_tcp => RoomToReceive'
<1> SUFFICES ASSUME TcpInv, RoomToReceive, [TcpNext]_tcp,
                    NEW c \in Conn, socket'[c] = "open", active' # c
             PROVE  Room(c)'
  BY DEF RoomToReceive, Room
<1>0. TcpTypeOK /\ FreshUntilAccepted /\ Nobody \notin Conn /\ Max \in Nat \ {0}
  BY ConnAssumption, MaxAssumption DEF TcpInv
<1>1. ASSUME socket[c] = "open", active # c, UNCHANGED <<filled, got>> PROVE Room(c)'
  BY <1>1 DEF RoomToReceive, Room
<1>2. ASSUME NEW d \in Conn, Accept(d) PROVE Room(c)'
  <2>1. CASE d = c
    <3>1. filled'[c] = 0 /\ got'[c] = 0
      BY <1>0, <1>2, <2>1 DEF Accept, FreshUntilAccepted
    <3>2. \A e \in Element[c] : e.to > 0
      BY Elements
    <3> QED
      BY <1>0, <3>1, <3>2 DEF Room
  <2>2. CASE d # c
    BY <1>0, <1>1, <1>2, <2>2 DEF Accept, TcpTypeOK
  <2> QED
    BY <2>1, <2>2
<1>3. ASSUME NEW d \in Conn, NEW n \in 1..Max, Receive(d, n) PROVE Room(c)'
  <2>1. d # c /\ socket[c] = "open" /\ active # c
    BY <1>0, <1>3 DEF Receive
  <2>2. filled'[c] = filled[c] /\ got'[c] = got[c]
    BY <1>0, <1>3, <2>1 DEF Receive, TcpTypeOK
  <2> QED
    BY <2>1, <2>2 DEF RoomToReceive, Room
<1>4. ASSUME NEW e, Cut(e) PROVE Room(c)'
  BY <1>1, <1>4 DEF Cut
<1>5. CASE KeepRest
  <2>1. CASE active = c
    BY <1>5, <2>1, KeepRestLeavesRoom
  <2>2. CASE active # c
    <3>1. socket[c] = "open" /\ filled'[c] = filled[c] /\ got'[c] = got[c]
      BY <1>0, <1>5, <2>2 DEF KeepRest, TcpTypeOK
    <3> QED
      BY <2>2, <3>1 DEF RoomToReceive, Room
  <2> QED
    BY <2>1, <2>2
<1>6. CASE CloseSocket
  <2>1. socket[c] = "open" /\ active # c
    BY <1>0, <1>6 DEF CloseSocket, LoopOver, TcpTypeOK
  <2> QED
    BY <1>1, <1>6, <2>1 DEF CloseSocket
<1>7. ASSUME NEW d \in Conn, Disconnect(d) PROVE Room(c)'
  BY <1>0, <1>1, <1>7 DEF Disconnect, TcpTypeOK
<1>8. CASE CloseAll
  BY <1>8 DEF CloseAll
<1>9. CASE Listen \/ StopListening \/ UNCHANGED tcp
  BY <1>1, <1>9 DEF Listen, StopListening, tcp
<1> QED
  BY <1>2, <1>3, <1>4, <1>5, <1>6, <1>7, <1>8, <1>9 DEF TcpNext

(* A connection that waits has room for the bytes it waits for, and holds no whole
   element. *)
THEOREM AlwaysRoomToReceive == TcpSpec => []RoomToReceive
<1>1. TcpInit => RoomToReceive
  BY DEF TcpInit, RoomToReceive
<1> QED
  BY <1>1, TcpInvariant, NextRoom, PTL DEF TcpSpec
=============================================================================
