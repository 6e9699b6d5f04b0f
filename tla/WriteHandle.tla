----------------------------- MODULE WriteHandle -----------------------------
(***************************************************************************)
(* WriteHandle: the insert command.  A command starts a process that       *)
(* fetches one Data, or the segments start..end of a name under a credit   *)
(* window, stores what the validator accepts, and keeps a status that      *)
(* insert-check commands read.                                             *)
(*                                                                         *)
(* Handlers run one at a time in the io_service.  Between two of them the  *)
(* Face answers or times out Interests, the validator finishes in any      *)
(* order, timers pass and other commands arrive; each of these is a step.  *)
(***************************************************************************)
EXTENDS Integers, FiniteSets, Sequences

CONSTANTS
  Proc,          \* process ids that generateProcessId returns, all different
  Command,       \* [name, start, end]: commands clients send
  Word,          \* the number of SegmentNo values: 2^64
  Credit,        \* DEFAULT_CREDIT
  RetryTime,     \* RETRY_TIMEOUT
  Environment    \* what the producer, the network and the rest of the repo may do:
                 \* [available, final, lossy, unverified, storageFails], see env

NoBlock   == -1
Whole     == -2  \* stands for the segment of a single, unsegmented insert
NoSegment == -3  \* a FinalBlockId that is not a segment number
SegmentNo == 0..(Word - 1)
Segment   == SegmentNo \cup {Whole}
FinalBlock == SegmentNo \cup {NoBlock, NoSegment}

ASSUME WordAssumption == Word \in Nat /\ Credit \in Nat \ {0} /\ Credit < Word
ASSUME RetryAssumption == RetryTime \in Nat
ASSUME CommandAssumption ==
  \A c \in Command : {c.start, c.end} \subseteq SegmentNo \cup {NoBlock}
ASSUME EnvironmentAssumption ==
  Environment \subseteq
    [available : SUBSET Segment,         \* segments the producer has
     final : SUBSET FinalBlock,          \* FinalBlockIds its Data may carry
     lossy : BOOLEAN,                    \* may an Interest for them time out?
     unverified : BOOLEAN,               \* may the validator refuse a Data?
     storageFails : BOOLEAN]             \* may insertData throw for a packet not there?

VARIABLES
  processes,  \* m_processes: ProcessId -> ProcessInfo
  used,       \* ids handed out so far
  flight,     \* <<p, s>>: Interest of process p for segment s, in the Face
  arrived,    \* <<p, s, f>>: Data for s with FinalBlockId f, at the validator
  doomed,     \* ids with a deferredDeleteProcess event in the scheduler
  stored,     \* <<name, s, p>>: packets in RepoStorage, and who inserted them
  up,         \* the repo process runs: no exception has reached main
  reply,      \* status code of the reply this step sent, 0 for none
  env         \* the environment of this behaviour, chosen once

vars == <<processes, used, flight, arrived, doomed, stored, up, reply, env>>

Live == DOMAIN processes

Init ==
  /\ processes = [p \in {} |-> 0]
  /\ used = {}
  /\ flight = {}
  /\ arrived = {}
  /\ doomed = {}
  /\ stored = {}
  /\ up = TRUE
  /\ reply = 0
  /\ env \in Environment

-----------------------------------------------------------------------------
(* operator[] of m_processes, and its erase *)
SetProcess(p, info) ==
  processes' = [q \in Live \cup {p} |-> IF q = p THEN info ELSE processes[q]]

EraseProcess(p) ==
  processes' = [q \in Live \ {p} |-> processes[q]]

(* An uncaught exception: main returns, everything in memory is gone. *)
Exit ==
  /\ up' = FALSE
  /\ processes' = [p \in {} |-> 0]
  /\ flight' = {}
  /\ arrived' = {}
  /\ doomed' = {}
  /\ reply' = 0
  /\ UNCHANGED <<used, stored, env>>

Has(name, s) == \E p \in Proc : <<name, s, p>> \in stored

(* Definitions whose name ends in a mutation (MutOffByOne, ...) are variants of the
   definition after them with a plausible bug, for mutation runs only. *)
NSegmentsMutOffByOne(start, end) == (end - start) % Word

(* end - start + 1 in uint64_t *)
NSegments(start, end) == (end - start + 1) % Word

-----------------------------------------------------------------------------
(* Commands: onValidated, with the parameters the command carries. *)
IsSegmented(c) == c.start # NoBlock \/ c.end # NoBlock
StartOf(c) == IF c.start = NoBlock THEN 0 ELSE c.start

(* A signature the validator refuses (401), a block of another type, a check without
   ProcessId or start > end (403), Selectors beside block ids (402): a reply and nothing
   else. *)
RejectCommand(c) ==
  /\ up
  /\ \/ reply' \in {401, 403}
     \/ IsSegmented(c) /\ reply' = 402
  /\ UNCHANGED <<processes, used, flight, arrived, doomed, stored, up, env>>

(* Parameters whose bytes are malformed raise the base class of the error that the
   handlers catch: it reaches main. *)
MalformedCommand == up /\ Exit

NewInfo(c) ==
  [name |-> c.name, start |-> c.start, end |-> c.end, status |-> 300,
   insertNum |-> 0, credit |-> 0, next |-> 0, queue |-> <<>>,
   retries |-> [s \in {} |-> 0], noEnd |-> "unset"]

InsertSingle(p, c) ==
  /\ up
  /\ p \notin used
  /\ ~IsSegmented(c)
  /\ SetProcess(p, NewInfo(c))
  /\ used' = used \cup {p}
  /\ flight' = flight \cup {<<p, Whole>>}
  /\ reply' = 100
  /\ UNCHANGED <<arrived, doomed, stored, up, env>>

(* segInit: the window start .. start+initialCredit-1 is requested, computed in
   uint64_t, and the segment after it waits in the queue. *)
InitialCredit(c) ==
  IF c.end = NoBlock THEN Credit
  ELSE LET n == NSegments(StartOf(c), c.end) IN IF n < Credit THEN n ELSE Credit

InsertSegmented(p, c) ==
  LET credit == InitialCredit(c)
      stop   == (StartOf(c) + credit) % Word
      window == {s \in SegmentNo : StartOf(c) <= s /\ s < stop}
      next   == IF window = {} THEN StartOf(c) ELSE stop
  IN
  /\ up
  /\ p \notin used
  /\ IsSegmented(c)
  /\ c.end # NoBlock => StartOf(c) <= c.end
  /\ SetProcess(p, [NewInfo(c) EXCEPT
       !.start = StartOf(c),
       !.credit = credit - Cardinality(window),
       !.next = next,
       !.queue = <<next>>,
       !.retries = [s \in window |-> 0],
       !.noEnd = IF c.end = NoBlock THEN "running" ELSE "unset"])
  /\ used' = used \cup {p}
  /\ flight' = flight \cup {<<p, s>> : s \in window}
  /\ reply' = 100
  /\ UNCHANGED <<arrived, doomed, stored, up, env>>

-----------------------------------------------------------------------------
(* The Face delivers Data: onData, onSegmentData hand it to the validator. *)
Deliver(p, s, f) ==
  /\ up
  /\ <<p, s>> \in flight
  /\ s \in env.available /\ f \in env.final
  /\ flight' = flight \ {<<p, s>>}
  /\ arrived' = arrived \cup {<<p, s, f>>}
  /\ reply' = 0
  /\ UNCHANGED <<processes, used, doomed, stored, up, env>>

(* onDataValidationFailed writes a line to stderr. *)
Refused(p, s, f) ==
  /\ up
  /\ env.unverified
  /\ <<p, s, f>> \in arrived
  /\ arrived' = arrived \ {<<p, s, f>>}
  /\ reply' = 0
  /\ UNCHANGED <<processes, used, flight, doomed, stored, up, env>>

LateDataMutNoLookup(p, s, f) ==
  /\ up
  /\ <<p, s, f>> \in arrived
  /\ p \notin Live
  /\ SetProcess(p, NewInfo(CHOOSE c \in Command : TRUE))
  /\ arrived' = arrived \ {<<p, s, f>>}
  /\ reply' = 0
  /\ UNCHANGED <<used, flight, doomed, stored, up, env>>

(* A callback that finds its process gone does nothing. *)
LateData(p, s, f) ==
  /\ up
  /\ <<p, s, f>> \in arrived
  /\ p \notin Live
  /\ arrived' = arrived \ {<<p, s, f>>}
  /\ reply' = 0
  /\ UNCHANGED <<processes, used, flight, doomed, stored, up, env>>

DataThrowsMutCounted(p, s, f) ==
  /\ up
  /\ <<p, s, f>> \in arrived
  /\ p \in Live
  /\ Has(processes[p].name, s)
  /\ SetProcess(p, [processes[p] EXCEPT !.insertNum = @ + 1])
  /\ arrived' = arrived \ {<<p, s, f>>}
  /\ reply' = 0
  /\ UNCHANGED <<used, flight, doomed, stored, up, env>>

(* RepoStorage::insertData throws for a packet it has, for a full index and on an
   SQLite error; toSegment throws for a FinalBlockId that is not a segment. *)
DataThrows(p, s, f) ==
  /\ up
  /\ <<p, s, f>> \in arrived
  /\ p \in Live
  /\ \/ /\ s = Whole => processes[p].insertNum = 0
        /\ Has(processes[p].name, s) \/ env.storageFails
     \/ s # Whole /\ f = NoSegment
  /\ Exit

DataValidatedMutNotDoomed(p, f) ==
  LET info == processes[p] IN
  /\ up
  /\ <<p, Whole, f>> \in arrived
  /\ p \in Live
  /\ info.insertNum = 0 => ~Has(info.name, Whole)
  /\ SetProcess(p, [info EXCEPT !.insertNum = 1])
  /\ stored' = IF info.insertNum = 0 THEN stored \cup {<<info.name, Whole, p>>} ELSE stored
  /\ arrived' = arrived \ {<<p, Whole, f>>}
  /\ reply' = 0
  /\ UNCHANGED <<used, flight, doomed, up, env>>

(* onDataValidated *)
DataValidated(p, f) ==
  LET info == processes[p] IN
  /\ up
  /\ <<p, Whole, f>> \in arrived
  /\ p \in Live
  /\ info.insertNum = 0 => ~Has(info.name, Whole)
  /\ SetProcess(p, [info EXCEPT !.insertNum = 1])
  /\ stored' = IF info.insertNum = 0 THEN stored \cup {<<info.name, Whole, p>>} ELSE stored
  /\ doomed' = doomed \cup {p}
  /\ arrived' = arrived \ {<<p, Whole, f>>}
  /\ reply' = 0
  /\ UNCHANGED <<used, flight, up, env>>

(* The EndBlockId after a Data: the smaller of the command's and FinalBlockId. *)
RefreshedEnd(end, f) ==
  IF f # NoBlock /\ (end = NoBlock \/ f < end) THEN f ELSE end

(* onSegmentDataValidated stores the segment and counts it; its credit returns. *)
Counted(p, f) ==
  [processes[p] EXCEPT !.end = RefreshedEnd(@, f), !.insertNum = @ + 1, !.credit = @ + 1]

(* onSegmentDataControl, in the order of its returns *)
PastNoEndMutEvenWithEnd(info) == info.noEnd = "passed"
PastNoEnd(info) == info.end = NoBlock /\ info.noEnd = "passed"
AllInsertedMutStrict(info) ==
  info.end # NoBlock /\ info.insertNum > NSegments(info.start, info.end)
AllInserted(info) == info.end # NoBlock /\ info.insertNum >= NSegments(info.start, info.end)
NothingToSend(info) == info.credit = 0 \/ info.queue = <<>>
BeyondEndMutAtEnd(info) == info.end # NoBlock /\ Head(info.queue) >= info.end
BeyondEnd(info) == info.end # NoBlock /\ Head(info.queue) > info.end

AfterSendingMutFreeCredit(info, fetched) ==
  LET sending == Head(info.queue)
      kept    == DOMAIN info.retries \ {fetched}
      nxt     == (info.next + 1) % Word
      more    == info.end = NoBlock \/ nxt <= info.end
  IN
  [info EXCEPT
     !.retries = [s \in kept \cup {sending} |-> IF s \in kept THEN info.retries[s] ELSE 0],
     !.next = IF more THEN nxt ELSE @,
     !.queue = IF more THEN Append(Tail(@), nxt) ELSE Tail(@)]

AfterSendingMutPushThenIncrement(info, fetched) ==
  LET sending == Head(info.queue)
      kept    == DOMAIN info.retries \ {fetched}
      nxt     == (info.next + 1) % Word
      more    == info.end = NoBlock \/ nxt <= info.end
  IN
  [info EXCEPT
     !.credit = @ - 1,
     !.retries = [s \in kept \cup {sending} |-> IF s \in kept THEN info.retries[s] ELSE 0],
     !.next = IF more THEN nxt ELSE @,
     !.queue = IF more THEN Append(Tail(@), info.next) ELSE Tail(@)]

(* The head of the queue is requested; the next segment is queued unless it lies
   beyond the end. *)
AfterSending(info, fetched) ==
  LET sending == Head(info.queue)
      kept    == DOMAIN info.retries \ {fetched}
      nxt     == (info.next + 1) % Word
      more    == info.end = NoBlock \/ nxt <= info.end
  IN
  [info EXCEPT
     !.credit = @ - 1,
     !.retries = [s \in kept \cup {sending} |->
                    IF s \notin kept THEN 0
                    ELSE IF s = sending THEN info.retries[s] + 1 ELSE info.retries[s]],
     !.next = IF more THEN nxt ELSE @,
     !.queue = IF more THEN Append(Tail(@), nxt) ELSE Tail(@)]

SegmentValidated(p, s, f) ==
  LET info == Counted(p, f) IN
  /\ up
  /\ s # Whole /\ f # NoSegment
  /\ <<p, s, f>> \in arrived
  /\ p \in Live
  /\ ~Has(info.name, s)
  /\ stored' = stored \cup {<<info.name, s, p>>}
  /\ arrived' = arrived \ {<<p, s, f>>}
  /\ reply' = 0
  /\ UNCHANGED <<used, up, env>>
  /\ \/ /\ PastNoEnd(info)
        /\ SetProcess(p, [info EXCEPT !.status = 405])
        /\ doomed' = doomed \cup {p}
        /\ UNCHANGED flight
     \/ /\ AllInserted(info)
        /\ SetProcess(p, [info EXCEPT !.status = 200])
        /\ doomed' = doomed \cup {p}
        /\ UNCHANGED flight
     \/ /\ ~PastNoEnd(info) /\ ~AllInserted(info)
        /\ UNCHANGED doomed
        /\ \/ /\ NothingToSend(info)
              /\ SetProcess(p, info)
              /\ UNCHANGED flight
           \/ /\ ~NothingToSend(info) /\ BeyondEnd(info)
              /\ SetProcess(p, [info EXCEPT !.queue = Tail(@)])
              /\ UNCHANGED flight
           \/ /\ ~NothingToSend(info) /\ ~BeyondEnd(info)
              /\ SetProcess(p, AfterSending(info, s))
              /\ flight' = flight \cup {<<p, Head(info.queue)>>}

-----------------------------------------------------------------------------
(* An Interest times out. *)
MayTimeout(p, s) ==
  /\ up
  /\ <<p, s>> \in flight
  /\ env.lossy \/ s \notin env.available
  /\ reply' = 0

(* onTimeout, or onSegmentTimeoutControl after the last retry: the process is
   erased, if it is still there. *)
GiveUp(p, s) ==
  /\ MayTimeout(p, s)
  /\ p \in Live /\ s # Whole => processes[p].retries[s] >= RetryTime
  /\ EraseProcess(p)
  /\ flight' = flight \ {<<p, s>>}
  /\ UNCHANGED <<used, arrived, doomed, stored, up, env>>

RetryMutCountsDown(p, s) ==
  /\ MayTimeout(p, s)
  /\ p \in Live /\ s # Whole
  /\ processes[p].retries[s] < RetryTime
  /\ SetProcess(p, [processes[p] EXCEPT !.retries[s] = @ - 1])
  /\ UNCHANGED <<used, flight, arrived, doomed, stored, up, env>>

RetryMutOffByOne(p, s) ==
  /\ MayTimeout(p, s)
  /\ p \in Live /\ s # Whole
  /\ processes[p].retries[s] <= RetryTime
  /\ SetProcess(p, [processes[p] EXCEPT !.retries[s] = @ + 1])
  /\ UNCHANGED <<used, flight, arrived, doomed, stored, up, env>>

(* onSegmentTimeoutControl expresses the Interest again. *)
Retry(p, s) ==
  /\ MayTimeout(p, s)
  /\ p \in Live /\ s # Whole
  /\ processes[p].retries[s] < RetryTime
  /\ SetProcess(p, [processes[p] EXCEPT !.retries[s] = @ + 1])
  /\ UNCHANGED <<used, flight, arrived, doomed, stored, up, env>>

(* steady_clock passes noEndTime of a process whose end is unknown. *)
NoEndTimePasses(p) ==
  /\ up
  /\ p \in Live
  /\ processes[p].noEnd = "running"
  /\ SetProcess(p, [processes[p] EXCEPT !.noEnd = "passed"])
  /\ reply' = 0
  /\ UNCHANGED <<used, flight, arrived, doomed, stored, up, env>>

(* The scheduler runs deleteProcess, PROCESS_DELETE_TIME after it was asked to. *)
DeleteProcess(p) ==
  /\ up
  /\ p \in doomed
  /\ EraseProcess(p)
  /\ doomed' = doomed \ {p}
  /\ reply' = 0
  /\ UNCHANGED <<used, flight, arrived, stored, up, env>>

(* onCheckValidated; while the end is unknown it also moves noEndTime, or says
   405 when that has passed (extendNoEndTime). *)
Check(p) ==
  /\ up
  /\ p \in used
  /\ \/ /\ p \notin Live
        /\ reply' = 404
        /\ UNCHANGED processes
     \/ /\ p \in Live
        /\ processes[p].end # NoBlock \/ processes[p].start = NoBlock \/ processes[p].noEnd = "running"
        /\ reply' = processes[p].status
        /\ UNCHANGED processes
     \/ /\ p \in Live
        /\ processes[p].end = NoBlock /\ processes[p].noEnd = "passed"
        /\ SetProcess(p, [processes[p] EXCEPT !.status = 405])
        /\ reply' = 405
  /\ UNCHANGED <<used, flight, arrived, doomed, stored, up, env>>

Next ==
  \/ MalformedCommand
  \/ \E c \in Command : RejectCommand(c)
  \/ \E p \in Proc :
       \/ \E c \in Command : InsertSingle(p, c) \/ InsertSegmented(p, c)
       \/ \E f \in FinalBlock :
            \/ DataValidated(p, f)
            \/ \E s \in Segment :
                 \/ Deliver(p, s, f) \/ Refused(p, s, f) \/ LateData(p, s, f)
                 \/ DataThrows(p, s, f) \/ SegmentValidated(p, s, f)
       \/ \E s \in Segment : GiveUp(p, s) \/ Retry(p, s)
       \/ NoEndTimePasses(p) \/ DeleteProcess(p) \/ Check(p)

Spec == Init /\ [][Next]_vars

-----------------------------------------------------------------------------
(* While a process has Interests in the Face one of them is answered or times out,
   while it has Data at the validator one gets its answer, and the scheduler runs
   its events.  noEndTime need not pass: each
   check command moves it. *)
Answer(p, s) == (\E f \in FinalBlock : Deliver(p, s, f)) \/ GiveUp(p, s) \/ Retry(p, s)

Verdict(p, s) ==
  \E f \in FinalBlock :
    \/ Refused(p, s, f) \/ LateData(p, s, f) \/ DataThrows(p, s, f)
    \/ SegmentValidated(p, s, f) \/ (s = Whole /\ DataValidated(p, f))

FairSpec ==
  /\ Spec
  /\ \A p \in Proc :
       /\ WF_vars(\E s \in Segment : Answer(p, s))
       /\ WF_vars(\E s \in Segment : Verdict(p, s))
       /\ WF_vars(DeleteProcess(p))

-----------------------------------------------------------------------------
InfoOK(info) ==
  /\ DOMAIN info = {"name", "start", "end", "status", "insertNum", "credit", "next",
                    "queue", "retries", "noEnd"}
  /\ info.name \in {c.name : c \in Command}
  /\ {info.start, info.end} \subseteq SegmentNo \cup {NoBlock}
  /\ info.status \in {200, 300, 405}
  /\ info.insertNum \in Nat /\ info.credit \in Int
  /\ info.next \in SegmentNo /\ info.queue \in Seq(SegmentNo)
  /\ DOMAIN info.retries \subseteq SegmentNo
  /\ info.retries \in [DOMAIN info.retries -> Nat]
  /\ info.noEnd \in {"unset", "running", "passed"}

(* The shape of the state. *)
TypeOK ==
  /\ Live \subseteq used /\ used \subseteq Proc
  /\ \A p \in Live : InfoOK(processes[p])
  /\ flight \subseteq Proc \X Segment
  /\ arrived \subseteq Proc \X Segment \X FinalBlock
  /\ doomed \subseteq used
  /\ up \in BOOLEAN
  /\ reply \in {0, 100, 200, 300, 401, 402, 403, 404, 405}

InFlight(p) == {s \in Segment : <<p, s>> \in flight}
AtValidator(p) == {s \in Segment : \E f \in FinalBlock : <<p, s, f>> \in arrived}
Outstanding(p) == InFlight(p) \cup AtValidator(p)
StoredBy(p) == {s \in Segment : <<processes[p].name, s, p>> \in stored}
IsSegmentProcess(p) == processes[p].start # NoBlock

(* "WriteHandle provides basic credit based congestion control" (write-handle.hpp:36-40):
   across deliveries, validations in any order, retries and shrinking ends, a process
   never has more Interests out than the credits it was given, and the credits it
   still has are part of that bound. *)
CreditBound ==
  \A p \in Live : IsSegmentProcess(p) =>
    /\ processes[p].credit >= 0
    /\ processes[p].credit + Cardinality(Outstanding(p)) <= Credit

(* A segment in nextSegmentQueue was never requested: it is neither out, nor counted
   for retries, nor stored, so no Data is fetched twice (and no insertData throws) by
   the process itself. At most one segment waits. *)
WaitingSegmentIsFresh ==
  \A p \in Live :
    /\ Len(processes[p].queue) <= 1
    /\ \A i \in DOMAIN processes[p].queue :
         processes[p].queue[i] \notin
           Outstanding(p) \cup DOMAIN processes[p].retries \cup StoredBy(p)

(* The assertions of write-handle.cpp:332 and :378: when the Data or the timeout of a
   segment comes back to its process, retryCounts has the segment; and it has been
   retried at most RETRY_TIMEOUT times. *)
OutstandingIsTracked ==
  \A p \in Live : IsSegmentProcess(p) => \A s \in Outstanding(p) :
    /\ s \in DOMAIN processes[p].retries
    /\ processes[p].retries[s] <= RetryTime

(* The InsertNum that a check reply reports is the number of packets this process put
   into the repository, none counted twice. *)
InsertNumIsStored ==
  \A p \in Live : processes[p].insertNum = Cardinality(StoredBy(p))

(* A process that reports 200, or whose single Data is stored, has its deletion
   scheduled: finished processes do not pile up in m_processes. *)
FinishedIsDoomed ==
  \A p \in Live :
    processes[p].status = 200 \/ (~IsSegmentProcess(p) /\ processes[p].insertNum > 0)
      => p \in doomed

(* Unless the validator refuses Data, a live process that is not about to be deleted
   has an Interest or a Data out whose callback will move it: no process is stuck in
   m_processes. *)
NoProcessStuck ==
  ~env.unverified => \A p \in Live : p \in doomed \/ Outstanding(p) # {}

(* The producer has no segment beyond a FinalBlockId. *)
FinalIsLast ==
  \A f \in env.final \cap SegmentNo : \A s \in env.available \cap SegmentNo : s <= f

(* "All the data has been inserted, StatusCode is refreshed as 200"
   (write-handle.cpp:300): where FinalBlockIds are right, every segment from StartBlockId
   to EndBlockId is stored once the status is 200, in whatever order the Data are
   validated and whichever of them carry a FinalBlockId. *)
DoneMeansStored ==
  FinalIsLast => \A p \in Live : processes[p].status = 200 =>
    \A s \in processes[p].start..processes[p].end : Has(processes[p].name, s)

(* 200 is the last word: no later Data, timeout or check of the same process turns a
   success that a client may have read into another status. *)
SuccessIsFinal ==
  [][\A p \in Live : processes[p].status = 200 /\ p \in DOMAIN processes' =>
       processes'[p].status = 200]_vars

(* No callback of a process that was erased (bound to its id in the Face, the
   validator or the scheduler) brings it back through operator[]. *)
NoResurrection ==
  [][\A p \in used \ Live : p \notin DOMAIN processes']_vars

(* "If repo cannot get FinalBlockId in noendTimeout time, the fetching process will
   terminate" (write-handle.hpp:54), and a process that can get it ends with 200 or by
   giving up: unless the validator refuses Data, every process is removed from
   m_processes, whatever Interests are lost. *)
VerifiedProcessTerminates ==
  \A p \in Proc : (p \in Live /\ ~env.unverified) ~> p \notin Live

(* When no Interest for an available segment is lost, the validator accepts and no
   FinalBlockId cuts the range, every segment of a command with an EndBlockId gets
   stored, unless the repo process ended. *)
Favourable(c) ==
  /\ ~env.lossy /\ ~env.unverified
  /\ StartOf(c)..c.end \subseteq env.available
  /\ \A f \in env.final : f = NoBlock \/ f >= c.end

CommandCompletes ==
  \A p \in Proc : \A c \in {d \in Command : d.end # NoBlock} :
    (/\ Favourable(c)
     /\ p \in Live /\ processes[p].name = c.name
     /\ processes[p].start = StartOf(c) /\ processes[p].end = c.end
     /\ processes[p].noEnd = "unset")
      ~> (~up \/ \A s \in StartOf(c)..c.end : Has(c.name, s))
=============================================================================
