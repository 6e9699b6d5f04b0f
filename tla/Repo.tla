-------------------------------- MODULE Repo --------------------------------
(***************************************************************************)
(* The repo process: what main does before io_service::run, and the        *)
(* handlers that share one RepoStorage then: ReadHandle, DeleteHandle and  *)
(* TcpBulkInsertHandle, with the insertions of WriteHandle and WatchHandle *)
(* as single steps.                                                        *)
(*                                                                         *)
(* main runs to enableListening without the io_service; from then on one   *)
(* handler runs at a time.  The outcome of a prefix registration arrives   *)
(* as a callback.  A signal is a handler too; a crash is not.              *)
(***************************************************************************)
EXTENDS DeleteHandle, TcpBulkInsert

CONSTANT ReadInterest  \* queries that consumers send

ASSUME ReadAssumption == ReadInterest \subseteq [names : SUBSET Name, keyed : BOOLEAN]

VARIABLES
  phase,       \* "down", "constructed", "loaded", "validating", "running"
  pending,     \* registrations not answered yet, of "data" and "command" prefixes
  registered,  \* those that succeeded, while the Face is open
  accepted     \* not in the code: packets whose insertion succeeded and that no
               \* delete command has named since

process == <<phase, pending, registered>>
all == <<vars, deletion, tcp, process, accepted>>

RepoInit ==
  /\ Init /\ DeleteInit /\ TcpInit
  /\ phase = "down"
  /\ pending = {} /\ registered = {}
  /\ accepted = {}

(* What a handler leaves alone, unless its exception has reached main or it aborts. *)
OthersGo ==
  IF up' THEN UNCHANGED <<tcp, process>>
  ELSE CloseAll /\ phase' = "down" /\ pending' = {} /\ registered' = {}

NoDelete == UNCHANGED loop /\ answer' = NoAnswer

Idle == phase = "running" /\ active = Nobody /\ ~Looping

-----------------------------------------------------------------------------
(* parseConfig and the constructor: the configuration is read, the database opened
   and its table created; the validator's rules are loaded.  What is wrong there
   throws, and main returns. *)
Construct ==
  /\ phase = "down"
  /\ phase' = "constructed"
  /\ NotCalled /\ NoDelete /\ UNCHANGED <<tcp, pending, registered, accepted>>

(* initializeStorage, a row of the table at a time *)
InitializeStorage ==
  /\ phase = "constructed"
  /\ \/ (BeginLoad \/ LoadRow) /\ UNCHANGED phase
     \/ FinishLoad /\ phase' = "loaded"
     \/ LoadFails /\ phase' = "down"
  /\ NoDelete /\ UNCHANGED <<tcp, pending, registered, accepted>>

(* enableValidation loads the rules again. *)
EnableValidation ==
  /\ phase = "loaded"
  /\ phase' = "validating"
  /\ NotCalled /\ NoDelete /\ UNCHANGED <<tcp, pending, registered, accepted>>

(* enableListening: the prefixes are asked for, and the TCP endpoint is opened when
   there is one. *)
EnableListening ==
  /\ phase = "validating"
  /\ phase' = "running"
  /\ pending' = {"data", "command"}
  /\ Listen \/ UNCHANGED tcp
  /\ NotCalled /\ NoDelete /\ UNCHANGED <<registered, accepted>>

(* SIGINT, SIGTERM: terminate stops the io_service, between two handlers. *)
Terminate ==
  /\ Idle
  /\ Stop
  /\ CloseAll
  /\ phase' = "down" /\ pending' = {} /\ registered' = {}
  /\ NoDelete /\ UNCHANGED accepted

(* An exception before run, or the end of the process at any point of its code; while
   it loads the table, see InitializeStorage. *)
Crash ==
  /\ phase # "down"
  /\ \/ Stop
     \/ ~up /\ ~Loading /\ NotCalled
  /\ CloseAll
  /\ phase' = "down" /\ pending' = {} /\ registered' = {}
  /\ loop' = NoLoop
  /\ answer' = NoAnswer
  /\ UNCHANGED accepted

-----------------------------------------------------------------------------
Register(p) ==
  /\ Idle
  /\ p \in pending
  /\ pending' = pending \ {p}
  /\ registered' = registered \cup {p}
  /\ NotCalled /\ NoDelete /\ UNCHANGED <<tcp, phase, accepted>>

(* ReadHandle::onRegisterFailed shuts the Face: TCP goes on without it. *)
ReadRegisterFails ==
  /\ Idle
  /\ "data" \in pending
  /\ pending' = {} /\ registered' = {}
  /\ NotCalled /\ NoDelete /\ UNCHANGED <<tcp, phase, accepted>>

(* onRegisterFailed of the command handles throws. *)
CommandRegisterFails ==
  /\ Idle
  /\ "command" \in pending
  /\ Stop
  /\ OthersGo
  /\ NoDelete /\ UNCHANGED accepted

(* ReadHandle::onInterest puts what readData finds; what it throws ends the process. *)
Read(q) ==
  /\ Idle /\ "data" \in registered
  /\ ReadData(q) \/ ReadError(q)
  /\ OthersGo
  /\ NoDelete /\ UNCHANGED accepted

(* A Data that WriteHandle or WatchHandle fetched: the exception of its insertion
   ends the process. *)
Fetched(n) ==
  /\ Idle /\ "command" \in registered
  /\ InsertDuplicate(n) \/ InsertNameless(n) \/ InsertData(n) \/ InsertError(n)
  /\ reply' = Threw => ~up'
  /\ accepted' = IF reply' = Inserted(TRUE) THEN accepted \cup {n} ELSE accepted
  /\ OthersGo
  /\ NoDelete

(* The parameter of a command of any handle is not well-formed. *)
MalformedCommand ==
  /\ Idle /\ "command" \in registered
  /\ MalformedDelete
  /\ OthersGo
  /\ UNCHANGED accepted

Delete(c) ==
  /\ Idle /\ "command" \in registered
  /\ RefuseDelete(c) \/ DeleteOnce(c) \/ DeleteRange(c)
  /\ accepted' = IF index' = index THEN accepted ELSE accepted \ Touched(c)
  /\ OthersGo

(* A range that ends with the last SegmentNo wraps around to all others. *)
Named(c) ==
  IF c.end = Word - 1 THEN UNION {SegmentsOf[c][i] : i \in SegmentNo} ELSE Touched(c)

DeleteRound ==
  /\ DeleteSegment \/ FinishDelete
  /\ accepted' = IF index' = index THEN accepted ELSE accepted \ Named(loop.command)
  /\ OthersGo

-----------------------------------------------------------------------------
(* TcpBulkInsertClient: handleReceive, with insertData for each Data; what it throws
   is caught. *)
TcpInsert(e) ==
  /\ phase = "running"
  /\ Cut(e)
  /\ \/ e.kind = Other /\ NotCalled
     \/ /\ InsertDuplicate(e.kind) \/ InsertNameless(e.kind) \/ InsertData(e.kind) \/ InsertError(e.kind)
        /\ up'
  /\ accepted' = IF e.kind # Other /\ reply' = Inserted(TRUE) THEN accepted \cup {e.kind} ELSE accepted
  /\ NoDelete /\ UNCHANGED <<process>>

OnlyTcp == NotCalled /\ NoDelete /\ UNCHANGED <<process, accepted>>

TcpConnection(c) ==
  /\ phase = "running" /\ ~Looping
  /\ Accept(c) \/ Disconnect(c)
  /\ OnlyTcp

TcpAcceptFails ==
  /\ phase = "running" /\ ~Looping
  /\ StopListening
  /\ OnlyTcp

TcpReceive(c) ==
  /\ phase = "running" /\ ~Looping
  /\ \E n \in 1..Max : Receive(c, n)
  /\ OnlyTcp

TcpEndReceive == (CloseSocket \/ KeepRest) /\ OnlyTcp

RepoNext ==
  \/ Construct \/ InitializeStorage \/ EnableValidation \/ EnableListening
  \/ Terminate \/ Crash
  \/ \E p \in pending : Register(p)
  \/ ReadRegisterFails \/ CommandRegisterFails
  \/ \E q \in ReadInterest : Read(q)
  \/ \E n \in Name : Fetched(n)
  \/ MalformedCommand
  \/ \E c \in DeleteCommand : Delete(c)
  \/ DeleteRound
  \/ \E c \in Conn :
       TcpConnection(c) \/ TcpReceive(c) \/ \E e \in Element[c] : TcpInsert(e)
  \/ TcpAcceptFails \/ TcpEndReceive

RepoSpec == RepoInit /\ [][RepoNext]_all

(* A loop of a handler runs on, and what a peer has sent arrives. *)
FairRepo ==
  /\ RepoSpec
  /\ WF_all(DeleteRound)
  /\ WF_all(TcpEndReceive \/ \E c \in Conn : \E e \in Element[c] : TcpInsert(e))
  /\ \A c \in Conn : SF_all(TcpReceive(c))

-----------------------------------------------------------------------------
(* An element of a stream is handed on while its connection lives, if it and those
   before it are well-formed and fit in the buffer, however the bytes arrive and
   whatever other handlers do, but for a delete that does not end. *)
StreamIsHandled ==
  \A c \in Conn : \A e \in Element[c] :
    socket[c] = "open" /\ WellSent(c, e) ~>
      \/ socket[c] = "closed" \/ e \in handed[c]
      \/ Looping /\ loop.command.end = Word - 1

(* A packet whose insertion succeeded is in the database until a delete command names
   it, in the range the command gives (delete-handle.cpp:182): through other insertions,
   deletions of other packets, the end of the process in the middle of a handler, and
   restarts. *)
AcceptedIsOnDisk == accepted \subseteq RowNames
=============================================================================
