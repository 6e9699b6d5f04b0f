----------------------------- MODULE WatchHandle -----------------------------
(***************************************************************************)
(* WatchHandle: the watch commands.  A start command makes the repo send   *)
(* Interests for a name prefix, one after another, each excluding the      *)
(* packets seen so far, until a stop command, a number of Interests or a   *)
(* timeout ends it.  The status of each watch is in m_processes, but the   *)
(* limits, the counters and the clock are members that all watches share.  *)
(*                                                                         *)
(* Each start begins a chain of callbacks: the Interest in the Face, then  *)
(* its Data at the validator, then the next Interest.  Handlers run one at *)
(* a time; commands and chains interleave in any order.                    *)
(***************************************************************************)
EXTENDS Integers, FiniteSets

CONSTANTS
  Watched,       \* the name prefixes that commands name
  Packet,        \* packets under a prefix, numbered in canonical order
  Command,       \* start commands clients send: see CommandAssumption
  Word,          \* the number of uint64_t values: 2^64
  Chain,         \* ids of chains; bounds the chains at a time
  MaxStarts,     \* bound of the model: start commands accepted
  StorageFails   \* BOOLEAN: may insertData throw for a packet it does not have?

ASSUME SetAssumption == IsFiniteSet(Packet) /\ Packet \subseteq Nat /\ MaxStarts \in Nat
ASSUME WordAssumption == Word \in Nat \ {0}
ASSUME CommandAssumption ==   \* MaxInterestNum and WatchTimeout, 0 when they are missing
  Command \subseteq [name : Watched, max : 0..(Word - 1), timeout : 0..(Word - 1)]
ASSUME StorageAssumption == StorageFails \in BOOLEAN

VARIABLES
  processes,  \* m_processes: name -> [status, insertNum, running]
  max,        \* m_maxInterestNum (int64_t), 0 for no limit
  interestNum,\* m_interestNum, up to MaxCount
  clock,      \* m_startTime and m_watchTimeout: "off", "running" or "passed"
  size,       \* m_size
  chain,      \* chain id -> [name, excl, at]: at = Face, or the packet at the validator
  doomed,     \* name -> number of deferredDeleteProcess events in the scheduler
  stored,     \* <<name, packet>>: packets in RepoStorage
  up,         \* the repo process runs: no exception has reached main
  reply,      \* status code of the reply this step sent, 0 for none
  history     \* not in the code: of: name -> the limits that its last start set and
              \* the Interests sent for the name since; starts: how many there were;
              \* named: the names that start and stop commands gave

shared == <<max, interestNum, clock, size>>
vars == <<processes, shared, chain, doomed, stored, up, reply, history>>

Known == DOMAIN processes
Busy  == DOMAIN chain

(* uint64_t to int64_t *)
AsInt64(x) == IF x < Word \div 2 THEN x ELSE x - Word

(* A limit is only compared with the count, so a count may stop at the largest. *)
MaxCount == CHOOSE m \in {AsInt64(c.max) : c \in Command} \cup {0} :
              0 <= m /\ \A c \in Command : AsInt64(c.max) <= m
PlusOne(k) == IF k < MaxCount THEN k + 1 ELSE k
SentPlusOne(k) == IF k <= MaxCount THEN k + 1 ELSE k

Face  == -1   \* the Interest is in the Face
Empty == [x \in {} |-> 0]
NoLimit == [max |-> 0, timed |-> FALSE, sent |-> 0]

Init ==
  /\ processes = Empty
  /\ max = 0
  /\ interestNum = 0
  /\ clock = "off"
  /\ size = 0
  /\ chain = Empty
  /\ doomed = [n \in Watched |-> 0]
  /\ stored = {}
  /\ up = TRUE
  /\ reply = 0
  /\ history = [starts |-> 0, named |-> {}, of |-> [n \in Watched |-> NoLimit]]

-----------------------------------------------------------------------------
(* operator[] makes an entry that does not run, with an empty response. *)
NewProcess == [status |-> 0, insertNum |-> 0, running |-> FALSE]
Entry(n) == IF n \in Known THEN processes[n] ELSE NewProcess

SetProcess(n, entry) ==
  processes' = [m \in Known \cup {n} |-> IF m = n THEN entry ELSE processes[m]]

SetChain(c, link) == chain' = [d \in Busy \cup {c} |-> IF d = c THEN link ELSE chain[d]]
EndChain(c) == chain' = [d \in Busy \ {c} |-> chain[d]]

Exit ==
  /\ up' = FALSE
  /\ processes' = Empty
  /\ chain' = Empty
  /\ doomed' = [n \in Watched |-> 0]
  /\ reply' = 0
  /\ UNCHANGED <<shared, stored, history>>

(* expressInterest for name n, and ++m_interestNum *)
CountInterest(n) ==
  /\ interestNum' = PlusOne(interestNum)
  /\ history' = [history EXCEPT !.of[n].sent = SentPlusOne(@)]

(* watchStop *)
WatchStop(n) ==
  /\ SetProcess(n, [Entry(n) EXCEPT !.running = FALSE])
  /\ max' = 0
  /\ interestNum' = 0
  /\ clock' = "off"
  /\ size' = 0

(* Definitions whose name ends in a mutation (MutStrict, ...) are variants of the
   definition after them with a plausible bug, for mutation runs only. *)
OverLimitMutStrict == clock = "passed" \/ (interestNum > max /\ max # 0)

(* onRunning: what ends a watch; its effects are StopAtLimit. *)
OverLimit == clock = "passed" \/ (interestNum >= max /\ max # 0)

-----------------------------------------------------------------------------
(* A command that the validator refuses (401), that is not a RepoCommandParameter, or a
   check that names nothing (403): a reply and nothing else. *)
RejectCommand ==
  /\ up
  /\ reply' \in {401, 403}
  /\ UNCHANGED <<processes, shared, chain, doomed, stored, up, history>>

(* Parameters whose bytes are malformed raise the base class of the error that the
   handlers catch: it reaches main. *)
MalformedCommand == up /\ Exit

(* m_watchTimeout: with 0 the clock is off, and a negative one has passed already. *)
Clock(timeout) ==
  IF timeout = 0 THEN "off" ELSE IF AsInt64(timeout) < 0 THEN "passed" ELSE "running"

(* processWatchCommand, with the first Interest of the new chain *)
Start(command, c) ==
  LET n == command.name IN
  /\ up
  /\ history.starts < MaxStarts
  /\ c \notin Busy
  /\ max' = AsInt64(command.max)
  /\ clock' = Clock(command.timeout)
  /\ SetProcess(n, [status |-> 300, insertNum |-> 0, running |-> TRUE])
  /\ interestNum' = PlusOne(interestNum)
  /\ SetChain(c, [name |-> n, excl |-> {}, at |-> Face])
  /\ history' = [starts |-> history.starts + 1,
                 named |-> history.named \cup {n},
                 of |-> [history.of EXCEPT ![n] =
                           [max |-> max', timed |-> clock' # "off", sent |-> 1]]]
  /\ reply' = 100
  /\ UNCHANGED <<size, doomed, stored, up>>

(* onStopValidated *)
Stop(n) ==
  /\ up
  /\ WatchStop(n)
  /\ history' = [history EXCEPT !.named = @ \cup {n}]
  /\ reply' = 101
  /\ UNCHANGED <<chain, doomed, stored, up>>

(* onCheckValidated *)
Check(n) ==
  /\ up
  /\ \/ /\ n \notin Known
        /\ reply' = 404
        /\ UNCHANGED processes
     \/ /\ n \in Known
        /\ processes[n].running
        /\ reply' = processes[n].status
        /\ UNCHANGED processes
     \/ /\ n \in Known
        /\ ~processes[n].running
        /\ SetProcess(n, [processes[n] EXCEPT !.status = 101])
        /\ reply' = 101
  /\ UNCHANGED <<shared, chain, doomed, stored, up, history>>

-----------------------------------------------------------------------------
(* The Face answers the Interest of chain c with a packet it does not exclude. *)
Deliver(c, v) ==
  /\ up
  /\ c \in Busy
  /\ chain[c].at = Face
  /\ v \in Packet \ chain[c].excl
  /\ SetChain(c, [chain[c] EXCEPT !.at = v])
  /\ reply' = 0
  /\ UNCHANGED <<processes, shared, doomed, stored, up, history>>

AtValidator(c, v) == up /\ c \in Busy /\ chain[c].at = v

(* A callback whose watch does not run ends its chain; operator[] leaves an entry. *)
NotRunning(c) ==
  LET n == chain[c].name IN
  /\ up
  /\ c \in Busy
  /\ ~Entry(n).running
  /\ SetProcess(n, Entry(n))
  /\ EndChain(c)
  /\ reply' = 0
  /\ UNCHANGED <<shared, doomed, stored, up, history>>

(* onRunning says no: the watch stops and its entry is deleted later. *)
StopAtLimit(c) ==
  LET n == chain[c].name IN
  /\ WatchStop(n)
  /\ doomed' = [doomed EXCEPT ![n] = @ + 1]
  /\ EndChain(c)
  /\ UNCHANGED history

(* excludeBefore(v), or MinSuffixComponents when v is the prefix itself *)
ExcludeBeforeMutForgets(S, v) == {v}
ExcludeBefore(S, v) == S \cup {u \in Packet : u <= v}

(* The next Interest of chain c. *)
FetchNext(c, excl) ==
  /\ SetChain(c, [chain[c] EXCEPT !.excl = excl, !.at = Face])
  /\ CountInterest(chain[c].name)

(* insertData throws for a packet it has, a full index or an SQLite error, and a
   false result is turned into an exception. *)
DataThrows(c, v) ==
  /\ AtValidator(c, v)
  /\ Entry(chain[c].name).running
  /\ <<chain[c].name, v>> \in stored \/ StorageFails
  /\ Exit

(* onDataValidated: the stop in onRunning comes before setInsertNum. *)
DataValidated(c, v) ==
  LET n == chain[c].name IN
  /\ AtValidator(c, v)
  /\ Entry(n).running
  /\ <<n, v>> \notin stored
  /\ stored' = stored \cup {<<n, v>>}
  /\ reply' = 0
  /\ UNCHANGED up
  /\ \/ OverLimit /\ StopAtLimit(c)
     \/ /\ ~OverLimit
        /\ size' = size + 1
        /\ SetProcess(n, [processes[n] EXCEPT !.insertNum = size'])
        /\ FetchNext(c, ExcludeBefore(chain[c].excl, v))
        /\ UNCHANGED <<max, clock, doomed>>

RefusedMutNoNext(c, v) ==
  /\ AtValidator(c, v)
  /\ Entry(chain[c].name).running
  /\ reply' = 0
  /\ UNCHANGED <<stored, up>>
  /\ \/ OverLimit /\ StopAtLimit(c)
     \/ /\ ~OverLimit
        /\ EndChain(c)
        /\ UNCHANGED <<processes, shared, doomed, history>>

(* onDataValidationFailed *)
Refused(c, v) ==
  /\ AtValidator(c, v)
  /\ Entry(chain[c].name).running
  /\ reply' = 0
  /\ UNCHANGED <<stored, up>>
  /\ \/ OverLimit /\ StopAtLimit(c)
     \/ /\ ~OverLimit
        /\ FetchNext(c, ExcludeBefore(chain[c].excl, v))
        /\ UNCHANGED <<processes, max, clock, size, doomed>>

TimeoutMutIgnoresStop(c) ==
  /\ up
  /\ c \in Busy
  /\ chain[c].at = Face
  /\ reply' = 0
  /\ UNCHANGED <<stored, up>>
  /\ \/ OverLimit /\ StopAtLimit(c)
     \/ /\ ~OverLimit
        /\ FetchNext(c, chain[c].excl)
        /\ UNCHANGED <<processes, max, clock, size, doomed>>

TimeoutMutNoLimit(c) ==
  /\ up
  /\ c \in Busy
  /\ chain[c].at = Face
  /\ Entry(chain[c].name).running
  /\ reply' = 0
  /\ FetchNext(c, chain[c].excl)
  /\ UNCHANGED <<processes, max, clock, size, doomed, stored, up>>

(* onTimeout *)
Timeout(c) ==
  /\ up
  /\ c \in Busy
  /\ chain[c].at = Face
  /\ Entry(chain[c].name).running
  /\ reply' = 0
  /\ UNCHANGED <<stored, up>>
  /\ \/ OverLimit /\ StopAtLimit(c)
     \/ /\ ~OverLimit
        /\ FetchNext(c, chain[c].excl)
        /\ UNCHANGED <<processes, max, clock, size, doomed>>

-----------------------------------------------------------------------------
(* steady_clock passes m_startTime + m_watchTimeout. *)
WatchTimePasses ==
  /\ up
  /\ clock = "running"
  /\ clock' = "passed"
  /\ reply' = 0
  /\ UNCHANGED <<processes, max, interestNum, size, chain, doomed, stored, up, history>>

(* The scheduler runs deleteProcess. *)
DeleteProcess(n) ==
  /\ up
  /\ doomed[n] > 0
  /\ processes' = [m \in Known \ {n} |-> processes[m]]
  /\ doomed' = [doomed EXCEPT ![n] = @ - 1]
  /\ reply' = 0
  /\ UNCHANGED <<shared, chain, stored, up, history>>

Callback(c) ==
  \/ NotRunning(c)
  \/ Timeout(c)
  \/ \E v \in Packet : DataThrows(c, v) \/ DataValidated(c, v) \/ Refused(c, v)

Next ==
  \/ RejectCommand \/ MalformedCommand
  \/ \E n \in Watched : Stop(n) \/ Check(n) \/ DeleteProcess(n)
  \/ \E c \in Chain :
       \/ \E command \in Command : Start(command, c)
       \/ \E v \in Packet : Deliver(c, v)
       \/ Callback(c)
  \/ WatchTimePasses

Spec == Init /\ [][Next]_vars

(* The Face answers or times out every Interest it holds and the validator answers
   for every Data, the scheduler runs its events, and time passes. *)
Progress(c) == Callback(c) \/ \E v \in Packet : Deliver(c, v)

-----------------------------------------------------------------------------
Running(n) == n \in Known /\ processes[n].running

(* A watch that runs has an Interest or a Data out, whose callback sends the next
   Interest or stops it: no validation failure, timeout, stop or stale deletion
   leaves a watch that says 300 and fetches nothing. *)
RunningIsFetching ==
  \A n \in Watched : Running(n) => \E c \in Busy : chain[c].name = n

(* A stop takes effect at once, whatever was in the Face or at the validator: for a
   name whose watch does not run no packet is stored and no Interest is sent, other
   than by a new start. *)
StoppedIsQuiet ==
  [][\A n \in Watched : ~Running(n) /\ reply' # 100 =>
       /\ {p \in stored' : p[1] = n} = {p \in stored : p[1] = n}
       /\ history'.of[n].sent = history.of[n].sent]_vars

(* Until a second start, the packets stored are excluded by every Interest after them,
   through timeouts, refusals and stops: insertData never throws "The Entry Has Already
   In the Skiplist" (repo-storage.cpp:49) on a packet that the watch itself stored. *)
StoredIsExcluded ==
  history.starts <= 1 => \A c \in Busy : \A v \in Packet :
    <<chain[c].name, v>> \in stored => v \in chain[c].excl

(* watch-handle.hpp:36-42: a watch stops when "the total amount of sent interests
   reaches a specific number", through timeouts, refusals, restarts and stale deletions,
   while no start or stop command names another prefix (all watches share one limit);
   with a number that int64_t makes negative it sends the first Interest only. *)
AloneWithinMaxInterestNum ==
  \A n \in Watched : history.named = {n} =>
    (Running(n) /\ history.of[n].max # 0 =>
       history.of[n].sent <= 1 \/ history.of[n].sent <= history.of[n].max)

(* watch-handle.hpp:36-42 again: a watch with a number of Interests or a timeout
   stops by itself, unless a later start lifts its limit or a start or stop command
   names another prefix. *)
Limited(n) == history.of[n].max # 0 \/ history.of[n].timed

LimitedWatchEnds ==
  \A n \in Watched :
    (Running(n) /\ Limited(n)) ~> (~Running(n) \/ ~Limited(n) \/ history.named # {n})

=============================================================================
