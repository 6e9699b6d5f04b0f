---------------------------- MODULE TcpBulkInsert ----------------------------
(***************************************************************************)
(* TcpBulkInsertHandle: each connection keeps one buffer of a maximal      *)
(* packet.  A receive appends bytes, whole elements are cut from the       *)
(* front, Data among them go to insertData, and the rest moves to the      *)
(* front of the buffer.                                                    *)
(*                                                                         *)
(* A byte is its position in the stream of the connection, counted from 1, *)
(* so that the buffer shows which bytes it holds and in which order.  The  *)
(* loop of handleReceive is modelled one round per step; nothing else runs *)
(* until it ends.                                                          *)
(***************************************************************************)
EXTENDS Integers, FiniteSets

CONSTANTS
  Conn,     \* connections that peers make
  Max,      \* MAX_NDN_PACKET_SIZE
  Sent,     \* connection -> number of bytes its peer sends
  Element   \* connection -> the elements [from, to, kind] in its stream

Other     == 0   \* kind of an element that is no Data; a Data is its packet's number
Malformed == -1  \* kind of bytes that are no element: fromBuffer fails on them
Nobody    == 0

ASSUME ConnAssumption == Conn \subseteq Nat \ {Nobody}
ASSUME MaxAssumption == Max \in Nat \ {0}
ASSUME SentAssumption == Sent \in [Conn -> Nat]
ASSUME ElementAssumption ==
  \A c \in Conn :
    /\ Element[c] \subseteq [from : Nat \ {0}, to : Nat, kind : Nat \cup {Malformed}]
    /\ \A e \in Element[c] : e.from <= e.to
    \* elements follow one another from the first byte on
    /\ \A e \in Element[c] : e.from = 1 \/ \E d \in Element[c] : d.to = e.from - 1
    /\ \A d, e \in Element[c] : d # e => d.to < e.from \/ e.to < d.from

VARIABLES
  listening,  \* the acceptor waits for connections
  socket,     \* connection -> "none", "open", "closed" by the peer or the end of the
              \* process, "refused" by handleReceive
  buffer,     \* connection -> m_inputBuffer
  filled,     \* connection -> m_inputBufferSize
  got,        \* connection -> bytes received so far
  active,     \* the connection whose handleReceive runs, or Nobody
  offset,     \* its local offset
  handed      \* connection -> elements cut from its buffer so far

tcp == <<listening, socket, buffer, filled, got, active, offset, handed>>

Slot == 0..(Max - 1)

TcpInit ==
  /\ listening = FALSE
  /\ socket = [c \in Conn |-> "none"]
  /\ buffer = [c \in Conn |-> [i \in Slot |-> 0]]
  /\ filled = [c \in Conn |-> 0]
  /\ got = [c \in Conn |-> 0]
  /\ active = Nobody
  /\ offset = 0
  /\ handed = [c \in Conn |-> {}]

-----------------------------------------------------------------------------
(* listen; an address that does not resolve, or is in use, throws. *)
Listen ==
  /\ ~listening
  /\ listening' = TRUE
  /\ UNCHANGED <<socket, buffer, filled, got, active, offset, handed>>

(* An accept that fails, stop's cancel of it included: handleAccept returns, and no other
   is made; connections go on. *)
StopListening ==
  /\ listening /\ active = Nobody
  /\ listening' = FALSE
  /\ UNCHANGED <<socket, buffer, filled, got, active, offset, handed>>

(* handleAccept: a client object with an empty buffer, its first receive, and the
   next accept. *)
Accept(c) ==
  /\ listening /\ active = Nobody
  /\ socket[c] = "none"
  /\ socket' = [socket EXCEPT ![c] = "open"]
  /\ UNCHANGED <<listening, buffer, filled, got, active, offset, handed>>

(* handleReceive of n bytes, which async_receive put behind what was kept. *)
Receive(c, n) ==
  /\ active = Nobody
  /\ socket[c] = "open"
  /\ n \in 1..(Max - filled[c])
  /\ got[c] + n <= Sent[c]
  /\ buffer' = [buffer EXCEPT ![c] =
       [i \in Slot |-> IF filled[c] <= i /\ i < filled[c] + n
                         THEN got[c] + 1 + i - filled[c] ELSE @[i]]]
  /\ filled' = [filled EXCEPT ![c] = @ + n]
  /\ got' = [got EXCEPT ![c] = @ + n]
  /\ active' = c
  /\ offset' = 0
  /\ UNCHANGED <<listening, socket, handed>>

WholeMutStrict(c) ==
  {e \in Element[c] :
     /\ e.kind # Malformed
     /\ offset < filled[c] /\ buffer[c][offset] = e.from
     /\ offset + e.to - e.from + 1 < filled[c]}

(* Block::fromBuffer at the offset: the element that starts there, all of it in the
   buffer. *)
Whole(c) ==
  {e \in Element[c] :
     /\ e.kind # Malformed
     /\ offset < filled[c] /\ buffer[c][offset] = e.from
     /\ offset + e.to - e.from < filled[c]}

CutMutOffByOne(e) ==
  /\ active # Nobody
  /\ e \in Whole(active)
  /\ offset' = offset + e.to - e.from
  /\ handed' = [handed EXCEPT ![active] = @ \cup {e}]
  /\ UNCHANGED <<listening, socket, buffer, filled, got, active>>

(* A round of the loop.  A Data is decoded and handed to insertData; an exception of
   either is swallowed and the loop goes on. *)
Cut(e) ==
  /\ active # Nobody
  /\ e \in Whole(active)
  /\ offset' = offset + e.to - e.from + 1
  /\ handed' = [handed EXCEPT ![active] = @ \cup {e}]
  /\ UNCHANGED <<listening, socket, buffer, filled, got, active>>

LoopOver == active # Nobody /\ Whole(active) = {}

(* The buffer is full and its front is no whole element: the socket is closed. *)
GiveUpMutNever(c) == FALSE
GiveUp(c) == offset < filled[c] /\ filled[c] = Max /\ offset = 0

CloseSocket ==
  /\ LoopOver
  /\ GiveUp(active)
  /\ socket' = [socket EXCEPT ![active] = "refused"]
  /\ active' = Nobody
  /\ offset' = 0
  /\ UNCHANGED <<listening, buffer, filled, got, handed>>

(* std::copy of what is left to the front, one byte after the other *)
Shifted(buf, n, size) == [i \in Slot |-> IF i + n < size THEN buf[i + n] ELSE buf[i]]

KeepRest ==
  /\ LoopOver
  /\ ~GiveUp(active)
  /\ buffer' = [buffer EXCEPT ![active] = Shifted(@, offset, filled[active])]
  /\ filled' = [filled EXCEPT ![active] = @ - offset]
  /\ active' = Nobody
  /\ offset' = 0
  /\ UNCHANGED <<listening, socket, got, handed>>

(* An error on the socket, or its end: what is left in the buffer is dropped. *)
Disconnect(c) ==
  /\ active = Nobody
  /\ socket[c] = "open"
  /\ socket' = [socket EXCEPT ![c] = "closed"]
  /\ UNCHANGED <<listening, buffer, filled, got, active, offset, handed>>

(* The end of the process. *)
CloseAll ==
  /\ listening' = FALSE
  /\ socket' = [c \in Conn |-> IF socket[c] = "open" THEN "closed" ELSE socket[c]]
  /\ active' = Nobody
  /\ offset' = 0
  /\ UNCHANGED <<buffer, filled, got, handed>>

TcpNext ==
  \/ Listen \/ StopListening
  \/ \E c \in Conn :
       \/ Accept(c) \/ Disconnect(c)
       \/ \E n \in 1..Max : Receive(c, n)
       \/ \E e \in Element[c] : Cut(e)
  \/ CloseSocket \/ KeepRest \/ CloseAll

TcpSpec == TcpInit /\ [][TcpNext]_tcp

-----------------------------------------------------------------------------
(* The shape of the state. *)
TcpTypeOK ==
  /\ listening \in BOOLEAN
  /\ socket \in [Conn -> {"none", "open", "closed", "refused"}]
  /\ buffer \in [Conn -> [Slot -> Nat]]
  /\ filled \in [Conn -> 0..Max]
  /\ got \in [Conn -> Nat]
  /\ active \in Conn \cup {Nobody}
  /\ offset \in 0..Max
  /\ active # Nobody => offset <= filled[active] /\ socket[active] = "open"
  /\ handed \in [Conn -> SUBSET UNION {Element[c] : c \in Conn}]

(* m_inputBuffer of an open connection always holds the bytes of the stream that no
   element took, in order and without a gap, and exactly the elements before them were
   handed on, however the stream is cut into receives. *)
BufferIsTheRest ==
  \A c \in Conn : socket[c] = "open" =>
    /\ \A i \in 0..(filled[c] - 1) : buffer[c][i] = got[c] - filled[c] + 1 + i
    /\ \A e \in Element[c] :
         LET taken == got[c] - filled[c] + (IF active = c THEN offset ELSE 0)
         IN  e \in handed[c] <=> e.kind # Malformed /\ e.to <= taken

(* A connection that waits for more bytes (tcp-bulk-insert-handle.cpp:212) has room
   for them and holds no whole element: it is never left with an empty
   async_receive. *)
RoomToReceive ==
  \A c \in Conn : socket[c] = "open" /\ active # c =>
    /\ filled[c] < Max
    /\ \A e \in Element[c] :
         e.kind # Malformed /\ e.from = got[c] - filled[c] + 1 => e.to > got[c]

(* The element and those before it are well-formed and fit in the buffer, and the peer
   sends it to its end. *)
WellSent(c, e) ==
  /\ e.to <= Sent[c]
  /\ \A d \in Element[c] : d.from <= e.from => d.kind # Malformed /\ d.to - d.from < Max
=============================================================================
