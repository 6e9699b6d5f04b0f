# repo-ng in TLA+

repo-ng is a repository of NDN Data packets. It stores what it is told to fetch (insert and
watch commands) or what is pushed over TCP, deletes on command, and answers Interests from its
store. This directory holds TLA+ models of its core, the TLC runs that check them on small
instances, and proofs that TLAPS checks for every value of the constants.

## The system

One process (`src/main.cpp`, `src/repo.cpp`) runs one `io_service`. Every handler, timer and
callback runs to its end before another starts, so a handler is one atomic action in the models;
what interleaves is the order of handlers. An exception that no handler catches leaves
`io_service::run` and reaches `main`, which returns: the process ends and all state in memory is
lost. The table in SQLite survives.

| Component | State | Operations | Talks to |
|---|---|---|---|
| `RepoStorage` | - | initialize, insertData, deleteData by name and by Interest, readData | Index, SqliteStorage |
| `Index` / `SkipList` | entries (full name, id, key locator hash) in canonical order, size, capacity | insert, erase, find by name and by Interest, hasData | - |
| `SqliteStorage` | table NDN_REPO on disk, m_size | insert, erase, read, fullEnumerate, size | SQLite |
| `WriteHandle` | m_processes: id -> response, credit, queue, retry counts, noEndTime | insert command, insert check, Data, validation, timeout, scheduled deletion | Face, validator, scheduler, RepoStorage |
| `WatchHandle` | m_processes: name -> (response, running); limits, counters and clock shared by all watches | watch start, stop, check; Data, validation, timeout, scheduled deletion | the same |
| `DeleteHandle` | - | delete by name, by selectors, by a segment range | RepoStorage |
| `ReadHandle` | - | Interest | RepoStorage |
| `TcpBulkInsertHandle` | acceptor; for each connection a buffer of one maximal packet | accept, receive, stop | RepoStorage |
| `BaseHandle`, command codecs | generator of process ids | reply, extractParameter, wireEncode, wireDecode | - |
| tools (`ndnputfile`, `ndngetfile`, `ndnrepowatch`, `repo-ng-ls`) | file position, pre-signed segments, retry counts | their protocol loops | the repo, over the Face |

What makes it hard:

* **Two copies of one set.** The index in memory and the rows on disk must agree through every
  insert, every deletion loop, an error in the middle of either, and a restart.
* **Callbacks bound to ids and names.** The Face, the validator and the scheduler hold a process
  id or a watch name; when they call back, the process may be gone, finished or started again.
* **Out of order.** Segments are answered and validated in any order; the end of a range can
  become known, or shrink, while segments beyond it are out.
* **Timers.** Interests time out and are retried; noEndTime, watchTimeout and the ten seconds
  until a finished process is deleted race with late Data and check commands.
* **Shared members.** All watches share their limits, counters and clock.
* **Exceptions end everything.** A packet inserted twice, a full index or an SQLite error in a
  handler stops the whole repo; the TCP handler swallows the same exception.
* **One thread.** A loop that does not end (a search, the deletion of a range) stops everything.
* **Inference across the network.** The tools know of the repo only what its replies say, seconds
  late: `ndnputfile` infers from a count that its file is stored, `ndngetfile` from a packet's
  FinalBlockId that the file is over.

What makes each component correct: index and table hold the same packets, and every id leads to
its own packet (`RepoStorage`); the credit window is never exceeded, each segment is fetched and
counted once, a status of 200 means stored, and every process goes away (`WriteHandle`); a watch
that says it runs does fetch, a stopped one is quiet, limits are kept and no packet is fetched
twice (`WatchHandle`); a search returns the entry that the selectors ask for, over a container
that stays well formed for every random height (`Index`, `SkipList`); every packet that a peer
sends over TCP is handed on, however the stream is cut (`TcpBulkInsertHandle`); what a reply calls
deleted is gone (`DeleteHandle`); replies and parameters say what they were set to (codecs); a
finished upload is stored and a finished download is the file (tools).

## Modules

| Module | Models | Extends or refines |
|---|---|---|
| `PacketStore` | what the storage promises: a durable set of packets | abstract |
| `RepoStorage` | `repo-storage.cpp`, `sqlite-storage.cpp`, the index as a function from names to ids | implements `PacketStore` |
| `SortedSet` | what the index asks of its container | abstract |
| `SkipList` | `skiplist.hpp`, nodes and links on every level | implements `SortedSet` |
| `Index` | `index.cpp`: capacity, selectors, both searches | extends `SkipList` |
| `WriteHandle` | `write-handle.cpp` | |
| `WatchHandle` | `watch-handle.cpp` | |
| `DeleteHandle` | `delete-handle.cpp` | extends `RepoStorage` |
| `TcpBulkInsert` | `tcp-bulk-insert-handle.cpp` | |
| `Repo` | `repo.cpp`, `main.cpp`, `read-handle.cpp`: the life of the process and the handlers that share the store | composes `DeleteHandle`, `TcpBulkInsert` and `RepoStorage` |
| `CommandCodec` | `repo-command-parameter.hpp`, `repo-command-response.hpp` | functions only |
| `RepoWatch` | `ndnrepowatch.cpp` and the repo it commands | composes `WatchHandle` and `CommandCodec` |
| `PutFile` | `ndnputfile.cpp` and the repo it writes to | composes with `WriteHandle`, implements it |
| `GetFile` | `ndngetfile.cpp`, reading what `PutFile` writes | extends `PutFile` |
| `MC...` | instances for TLC: names, commands, streams, scenes | |
| `RepoStorageProofs`, `IndexProofs`, `WriteHandleProofs`, `WatchProofs`, `TcpBulkInsertProofs`, `RepoProofs`, `CommandCodecProofs`, `PutFileProofs` | theorems about the module of that name; `IndexProofs` also about `SkipList`, `WatchProofs` about `WatchHandle` and `RepoWatch`, `RepoProofs` about `DeleteHandle`, `PutFileProofs` about `GetFile` | |

Definitions named `...Mut...` are variants of the definition that follows them with a plausible
bug. No specification uses them; they are there so that each property can be seen to fail on a
program that has the bug.

### RepoStorage

`rows` and `lastId` are the table and SQLite's AUTOINCREMENT counter, `index` is `m_index`,
`rowid` what `sqlite3_last_insert_rowid` returns, `size` is `SqliteStorage::m_size`. A packet is
its full name, a number in canonical order. `InsertData` is a whole `insertData`: lookup, row,
index entry, with `PutRow` and `LoseRow` for a step that succeeds and one that fails with
something else than `SQLITE_CONSTRAINT` (which the code takes for success). `DeleteData` is the
whole deletion loop, `DeleteError` a loop that an SQLite error cuts short, `ReadError` an error of
`SqliteStorage::read`, which ends the process. `Stop` is a signal or a crash between two handlers.

A start is `BeginLoad`, a `LoadRow` for each row of the table in the order of ids (`cursor` is the
row it has reached), and `FinishLoad`; between any two rows it may fail or be killed (`LoadFails`),
and it fails when the index is full. `LoadRow` is what `Index::insert` does with the row: the
first row of a name wins, the id goes through `sqlite3_column_int` (`ColumnInt`, with `IntMax` for
2^31 - 1), and the key locator hash is empty, because `fullEnumerate` takes column 3 of a result
that has columns 0 to 2. A crash in the middle of a handler adds no state: between two SQL statements of a handler the rows
are those of `DeleteError`, or those before or after the insert. Which matching entry a read
returns is left open here and decided in `Index`. `PRAGMA synchronous = OFF` can lose rows when
the machine loses power; only the end of the process is modelled.

### WriteHandle

`processes` is `m_processes`; `flight`, `arrived` and `doomed` are the Interests in the Face, the
Data at the validator and the deletions in the scheduler, each bound to a process id. `stored`
names who inserted a packet, so that what a process reports can be compared with what it did.
`SegmentValidated` is `onSegmentDataValidated` with `onSegmentDataControl`, return by return;
`Retry` and `GiveUp` are the two ways out of a timeout; `DataThrows` is every exception on the
way. `env`, chosen in `Init`, says what the producer has, which FinalBlockIds its Data carry,
whether Interests get lost, the validator refuses and the storage fails. The clock is abstracted
to whether a process's noEndTime has passed. Data is taken to have the name that was asked for,
and durations (`m_interestLifetime`, shared by all processes) are not modelled. A command whose
parameter is no TLV ends the process (`MalformedCommand`, here, in `WatchHandle` and in `Repo`):
the handlers catch `RepoCommandParameter::Error`, and what the library throws is its base class.

### WatchHandle

`chain` holds the callbacks of each start: an Interest in the Face or a packet at the validator,
with what the Interest excludes. `max`, `interestNum`, `clock` and `size` are the members that
watches share. A command carries its limits as unsigned numbers below `Word` (2^64), 0 for a field
it does not have; `max` is the `int64_t` that they are stored in (`AsInt64`), where the upper half
is negative and the first callback ends the watch, and a timeout of 0 is none (`Clock`). `doomed` counts scheduled deletions per name. `history` is not in the code: it
records what a watch was asked and sent, which the shared members do not keep, and is read by
properties and by the bound on starts only.

### SkipList and Index

`nexts` and `prevs` give each node its links, level by level; the domain of a node's links is its
height, the head's is the number of levels. `Walk` goes along one level to the last node before
the one looked for; `Positions` are the walks of `insert` and `lower_bound` from the top level down, `Link` and `Unlink` the loops that change the links,
`Emptied` the levels that `erase` takes from the head. The level of a new node is any up to
`MaxLevels`, because `pickRandomLevel` may return any.

`Index` numbers names in canonical order, so that the container holds numbers and a name, a
sequence of components, is looked up in `NameOf`. `Precedes` and `Successor` are ndn-cxx's order
of names and `getSuccessor`; `NameAssumption` says that numbers follow that order and that every
prefix of a name has one, `InterestAssumption` that the successor of a name asked for has one. A call of `find(interest)` is a phase of
`search`; a round of its loop is a step (`LeftRound`, `RightRound`), and nothing else runs until
it returns. The iterator of the rightmost search can step back onto the head, which the code reads
as an entry: its name is empty (`EntryName`). An entry without key locator has a null hash, and a
query by key locator that reaches it ends the process (`Dereferences`, `Crash`).

### DeleteHandle, TcpBulkInsert and Repo

A delete of one name, or by selectors, is one step; a range is a loop of one step per segment
(`DeleteSegment`), since each of its deletions commits on its own and any may end the process.
`answer` is the reply. `SegmentsOf` says which packets are under the name and a segment number.

In `TcpBulkInsert` a byte is its position in the stream of its connection, so that the buffer shows
which bytes it holds and in which order. A receive takes any number of bytes that fits; a round of
`handleReceive` is one step (`Cut`), and what follows the loop is `CloseSocket` or `KeepRest`.

`Repo` puts both over one `RepoStorage`, and adds the steps of `main` up to `io_service::run`,
registrations and their failures, a signal, and a crash at any point, between two rows of the load too. What `WriteHandle` and
`WatchHandle` do to the store is `Fetched`. A packet inserted over TCP that throws is swallowed;
in the other handlers it ends the process. `accepted` is not in the code: it remembers what the
store has taken and no delete has named since.

### CommandCodec and RepoWatch

The fields of a command or response are a function from the types it has to values, its wire form
the sequence of its elements; lengths and the coding of one number are left out. An object keeps
its wire form until a setter resets it. `RepoWatch` sends such wire forms between `ndnrepowatch`
and `WatchHandle`, whose response objects (`object`) are changed and encoded again and again, while
other users start, stop and check the same watch. `depth` counts how often the tool has appended
"watch" to its prefix: the repo listens for one only, so the first check after a start goes unheard
and the tool fails while the watch goes on (`ndnrepowatch.cpp:237`). The options `-n` and `-w` are
`int64_t` in the tool and unsigned on the wire (`AsWord`); 0 is sent, and means no limit to the
repo. Timeouts so large that nanoseconds overflow are left out: a timeout is 0 or some time.

### PutFile and GetFile

`PutFile` gives the Interests of `WriteHandle` to `ndnputfile`: what `Deliver` may bring is no
longer any Data but the segment that the tool has prepared, with the FinalBlockId that it has then.
`tool` holds its phase, process id, `m_currentSegmentNo` and `m_isFinished`; `call` is the command
or response on its way, `ignored` the Interests left without an answer, `kept` the FinalBlockId in
each stored packet. The distance in `ToPrepare` is unsigned. `scene`, chosen in `Init`, is the
length of the file, the option `-s`, whether the link loses, and whether others ask for the file;
the validator checks signatures or not by `env.unverified`, and a FinalBlockId set after the
signature was made does not pass it (`IsSigned`).

`GetFile` adds a reader that starts at any time. `below` is the number of components that the
uploaded names have after the name it was given, so that options that do not fit the upload are
there too: a segment for `-s`, or a whole packet where a segment is expected, whose `toSegment`
throws, end it (`OnUnexpectedData`). `First` is the packet that `Index` selects for the reader's first Interest. The overall
timeout of the reader only ends it and is left out.

## Runs

| Run | Shows | Bounds |
|---|---|---|
| `storage_ample` | index and table in step; the pair refines `PacketStore` | 4 names (one nameless), room for 3, 5 ids, all in an int: enough to insert, delete and insert again every packet and restart in between |
| `storage_tight` | a start that ends well repairs what lost writes and failed starts did; delete counts are exact | the same names, room for 2, 3 ids, lost writes, queries by key locator |
| `storage_full_insert` (violated) | an insert refused by a full index leaves its row | room for 2 |
| `index` | the skip list is well formed and a sorted set; searches return the right entry | 5 names of which 4 fit, in two groups under one name and one outside, 3 levels, 12 Interests with each selector and none |
| `index_rightmost` (violated) | a rightmost search goes on for ever | the same, one level |
| `write_one` | window, retries, statuses, life and end of a process; bounded commands complete | one process, window 2, one retry, 6 segment numbers, three environments: everything may fail, only loss, nothing fails |
| `write_pair` | InsertNum is what was stored; 200 means all stored | two processes on ranges that meet, the second with an end that the FinalBlockId shrinks, 8 segment numbers |
| `watch_many` | a running watch fetches, a stopped one is quiet, limits are kept alone | two names, two packets each, two starts, numbers below 16, so that a MaxInterestNum is negative once stored |
| `watch_client` | replies say what the repo holds, options arrive, a limited watch ends, no packet fetched twice | one name, two packets, one chain, two starts, every verb, options from none to both, 0 and negative ones |
| `repo` | accepted packets stay, deleted are gone, ranges are answered, streams are handed on | two packets, segments 1 and 2 of 3 numbers, so that a range reaches a number that nothing has and the last, one connection with a buffer of 2 and a stream of a packet that fills it, another element, and one that does not fit |
| `put_file` | a finished upload is stored, what is read is the file, prompt ones complete | files of 0 to 4 blocks, window 2, look-ahead 2, two retries (one for the reader), sixteen sessions of uploads, links and readers' options, three repo configurations |
| `put_single` (violated) | with `-s` success is reported before anything is stored | one block |

The window of 2 stands for `DEFAULT_CREDIT` 12, one or two retries for `RETRY_TIMEOUT` 3, the
look-ahead of 2 for `PRE_SIGN_DATA_COUNT` 11: the code only compares them, so a segment inside the
window, one waiting, one ahead of the prepared ones and one beyond the end are all there. `Word`
stands for 2^64. The ranges of `write_one` and `write_pair` do not reach the last numbers, where
the theorems still hold; a delete range in `repo` does. In `WatchHandle` a count stops at the
largest limit any command carries, which no comparison can tell from a larger one. Three levels
are enough for a skip list of four entries to gain and lose a level above and below others; the
code's 32 would only repeat that. Runs that check no deadlock do so because the program may really
stop: after an exception in `main`, or when both tools have ended, nothing happens.

Fairness. `FairSpec` of `WriteHandle` and `FairWatch`: the Face answers or times out Interests and
the validator answers, because both are callbacks the libraries guarantee; the scheduler runs its
events; time passes for a watch's timeout. Nothing is assumed of commands, and nothing of
noEndTime, which check commands move for ever. Termination of insert processes therefore rests on
the retry counts alone. `IndexSpec`: a loop that is running goes on. `FairRepo`: the same for the
loops of `DeleteHandle` and of `handleReceive`; and what a peer has sent arrives on an open
connection (strong fairness, since a receive is not enabled while another handler runs).
`PutFileFairness`: the tool's timers, answers and callbacks happen. For a link that loses nothing
`PutFile` makes an assumption about time that a weak fairness cannot express: a message takes far
less than the one second between two checks, the four of an Interest and the ten of noEndTime or a
deletion (`RetryIsDue`, `SlowTimerIsDue`). On a lossy link every timer may fire at any time, and
only safety is claimed. That assumption is used by `UploadCompletes` and `StoredFileIsRead` only.

Liveness is conditional in three places: `SearchReturns` excludes the searches that
`index_rightmost` shows not to end, `RangeIsAnswered` the range that ends with 2^64 - 1, and
`UploadCompletes` a repo that checks signatures.

What the violated runs say is in PROJECT.json under "findings", each with the line it contradicts.
These divergences were met too and have no run of their own; the models behave as the code does:

* `sqlite-storage.cpp:167`: a step of the INSERT that fails with anything but SQLITE_CONSTRAINT is
  taken for a success, and the entry gets the id of an earlier row, or 0 (compare
  `sqlite-storage.hpp:59`). `IndexPointsToOwnRow` is false with `LostWrites = TRUE`.
* `sqlite-storage.cpp:107` reads a 64-bit id into an int: after 2^31 inserts a start gives entries
  ids of no row or of another (compare `repo-storage.hpp:55`). `StartRepairsIndex` is false with an
  `IntMax` below `MaxId`.
* `sqlite-storage.cpp:165` binds the bytes of the Buffer object as key locator hash, not the hash
  (`index.hpp:77`), and `:108` reads it back from a column that the result does not have: after a
  restart a query by key locator finds nothing.
* `delete-handle.cpp:69`, `write-handle.cpp:81`, `watch-handle.cpp:81` catch only
  `RepoCommandParameter::Error`, the error that `base-handle.hpp:96` documents; the library's
  `ndn::tlv::Error` for bytes that are no TLV goes on to `main`.
* `watch-handle.cpp:330`: a MaxInterestNum of 2^63 or more is stored as a negative number, which
  every count has reached.
* `write-handle.cpp:138`: a refused Data frees no credit and ends nothing, so its process may stay
  for ever; compare `write-handle.hpp:54`.
* `write-handle.cpp:174` before `:278`: after noEndTime has passed a late FinalBlockId still keeps
  an insert going (compare `write-handle.hpp:96`).
* `write-handle.cpp:243`: a range that ends with the last SegmentNo wraps the loop bound, no
  Interest is sent and the process never moves (compare `write-handle.hpp:38`).
* `write-handle.cpp:297`: a FinalBlockId more than one below StartBlockId wraps the number of
  segments left: the process counts to a number out of reach and stays for ever.
* `write-handle.cpp:298` compares counts: with a FinalBlockId below segments that the producer
  does have, those segments count too, and the status is 200 before the range is stored.
* `watch-handle.cpp:92`: a stop command for any name resets the limits of all watches (compare
  `watch-handle.hpp:40`).
* `watch-handle.cpp:312`: a deletion scheduled for a watch erases the one started again on its name
  within ten seconds, also one that "will run forever" (`:320`).
* A refused watch Data excludes all smaller ones too, against the comment at
  `watch-handle.cpp:185`.
* `delete-handle.cpp:182`: a range that ends with 2^64 - 1 deletes for ever; `:117`: a command
  without ProcessId deletes, then answers 403.
* `ndnputfile.cpp:315`: FinalBlockId is set in Data that are already signed, which a validator
  then refuses; `:459` says `-s` implies `-u`, which lines 484-486 do not do.
* `ndngetfile.cpp:120` appends the last component twice, so that without `-u` the segments of a
  packet at the level of the version are asked for under a name that nobody has.
* `ndnrepowatch.cpp:237`: no check after the first command is heard.

## Proofs

Every safety invariant, action property and refinement that a passing run checks has a theorem,
for every value of the constants. Most invariants are not inductive as they stand; the
strengthening is named with each.

`RepoStorageProofs`, for any finite set of names and any capacity:

* `TypeCorrect`: the type invariant, which is inductive as it stands.
* `IndexRowsAgree` (no lost writes, ids that fit in an int: `MaxId <= IntMax`): every entry leads to its own row. Inductive with the type
  invariant, which says that new ids are larger than all old ones.
* `NoRowLeftBehind`, `AlwaysRestartable` (the same, and capacity for every name): rows are the
  rows of entries, one per name. The invariant needs both directions, and that rows of one name
  are unique (`RowsDistinct`), since the index keeps only the first row of a name at start-up; and,
  while a start runs, that the index is that of the rows up to `cursor` (`LoadedPart`).
* `StorageImplementsPacketStore` (also no Interest with a key locator): every step of
  `RepoStorage` is a step of `PacketStore` or a stutter, with `stored` the names in the rows. The
  hypotheses are necessary: a full index, ids that do not fit in an int, lost writes and the key
  locator hash break it.
* `StartAlwaysRepairs` (ids that fit in an int): from `LoadedPart`, an induction over the rows that
  a start has read; so also with lost writes, a small index and rows of one name. A start that
  fails leaves nothing of what it read, and the next one begins anew.
* `CountsAreExact`: from the type invariant alone. A count other than -1 means that the loop erased as many rows as entries.

`IndexProofs`, for any names, heights and Interests:

* `IndexLevelsWellFormed`: from the inductive invariant `ListOK`, which states the links of each
  level locally: next and previous are inverse, next is larger, and no node of the level lies
  between. That says nothing about a walk, so the proofs show that the recursive functions of the
  model (`Walk`, `Positions`, `Ring`, `Scan`) have the value they should: such a function exists,
  because it can be written down explicitly (the largest node of the level before x, the sequence
  of nodes in order, the nearest node where a scan stops), and any function that satisfies the
  equation agrees with it, by a smallest or largest counterexample, since nodes are finitely many.
* `IndexImplementsSortedSet`: the lowest ring lists the entries in order, and `insert`, `erase`
  and `lower_bound` do to it what `SortedSet` says.
* `SearchesAreRight`: from `SearchOK`. A leftmost search has passed no match. A rightmost one has
  no match from `last` on, and either only entries under the name lie between the first of them and
  `last`, or the search has stepped over that first entry and then nothing matches anywhere. That
  a deletion finds all under a name at the place where `lower_bound` leads, and that a group of
  children stands together, follows from the canonical order of names.

`WriteHandleProofs`, for any commands, window, retry limit, width of SegmentNo and environment:

* `TypeCorrect`: the type invariant.
* `WindowNeverExceeded`, `FinishedIsDeleted`, `SuccessStays`: from the inductive invariant
  `Window`. Its sum `CreditKept` counts a Data at the validator once per FinalBlockId instead of
  once per segment: that sum is kept by every step even if a segment were out twice, so nothing
  about fresh segments is needed and wrap-around does no harm. `OwnCallbacks` says that callbacks
  belong to ids handed out, and segments to segment processes, so that a new process starts with
  nothing out and a segment never finishes a single insert. `SuccessHasEnd` is why a check cannot
  turn 200 into 405: only a process without an EndBlockId can run out of noEndTime.
* `InsertNumIsExact`: from `Counts`, which adds that a single insert counts one packet at most,
  that it alone waits for a whole Data, and that packets come from processes that had an id.
* `ErasedStaysErased`: from the type invariant.
* `WaitingIsFresh`, `RetriesAreTracked` (`RoomInNumbers`: no command starts, and no producer has
  segments, within a window of the last number): from `Order`. Segments are asked for in order and
  at most one waits; what was asked for, in the Face, at the validator or stored, lies below it,
  is out once and has its retry count. Without the hypothesis both are false: a range that goes
  on past segment 2^64 - 1 asks for segment 0 again.
* `SuccessMeansStored` (`RoomInNumbers`): from `Kept`, which counts: what is stored lies in the
  range, so that when there are as many as the range has, all are. The property itself is about
  producers whose FinalBlockId is that of the last segment (`FinalIsLast`); see the divergence at
  `write-handle.cpp:298`.
* `NoProcessWaitsForNothing` (`RoomInNumbers`, and `FinalCoversStart`: no FinalBlockId more than
  one below a first segment): from `Moving`. All before the waiting segment is out or stored, and
  when none waits all of the range is; so a process with nothing out has stored the range, was
  found finished, and its deletion is scheduled. See the divergence at `write-handle.cpp:297`.

`WatchProofs`, for any names, packets, commands and number of starts. `WatchHandle`'s steps are
classified once: each begins a chain, sends the next Interest of one, or rests (`NextSteps`); the
invariants are then proved of those three.

* `WatchFetches`: a watch that runs has a chain with something out; what lets a chain end also
  ends its watch, for every name that has it.
* `StopIsImmediate`: an action property of the shape invariant.
* `ExcludesWhatItStored`: from `OneChain`: until the second start there is one chain.
* `KeepsToItsNumber` (finitely many commands): from `Alone`. While no command names another
  prefix, the shared counter is at least what this watch sent; a limit that is negative as an
  `int64_t` allows the first Interest and no other.
* `WatchImplementsHandle`: what `ndnrepowatch` encodes, the repo decodes to one of its commands,
  so that every step of `RepoWatch` is one of `WatchHandle` or leaves its state alone.
* `RepliesAreTheState`: from `ObjectsOK`. The response object of each watch has a wire form that
  is none or the encoding of its fields, and its fields follow `m_processes`.
* `OptionsAreKept`: from `Told`. After the reply that says the watch runs there was a start; if
  it was the only one, the limits are those of the command line.

`TcpBulkInsertProofs`, for any connections, streams and buffer size:

* `TcpTypeCorrect`: the type invariant.
* `BufferAlwaysTheRest`: the bytes in the buffer are consecutive and the last ones received, and
  the elements handed on are those before them. The invariant adds that a connection that was not accepted
  yet has received nothing.
* `AlwaysRoomToReceive`: a full buffer whose loop took nothing closes the socket, a loop that took
  something made room, and a loop ends only when no whole element is at the front.

`RepoProofs`, for any packets, commands and streams:

* `RepoImplementsTcp`: each step of the process is one of `TcpBulkInsert` or leaves it alone, so
  that its theorems hold of the whole repo.
* `AcceptedStaysOnDisk` (no lost writes, ids that fit in an int): with the invariants of `RepoStorage`, whose steps all
  handlers use; an error or a crash in the middle of a deletion loop removes only what was named.
  A full index is included.
* `ReportedGoneIsGone` (the same, and capacity for every name): from `LoopOK`: what a deletion
  loop has passed is not in the index, since nothing else runs between its rounds, and by
  `NoRowLeftBehind` what is not in the index is not in the table.

`CommandCodecProofs`: `ParameterRoundTrip` and `ResponseRoundTrip`, for every set of fields
and any values (the wire form has each type at most once, so that the first match is the only one),
and `EncodedIsCurrent`, that an object whose setters reset the cached form never sends an old one.

`PutFileProofs`, for any file, window, look-ahead, retry limit, link and configuration:

* `PutFileIsWriteHandle`: every step is a step of `WriteHandle` or leaves its state alone, so that
  its theorems, and with them the exact InsertNum, hold of the upload.
* `UploadedIsStored`: when the tool ends with success, every block is stored. InsertNum counts
  packets in the store; everything at the validator or in the store is a segment that the tool has
  prepared; its count of segments is the length of the file once it is finished; so a count equal
  to it, even one read long ago, means that no segment is missing, by cardinality.
* `GetFileIsPutFile`: a reader changes nothing that the tool and the repo have.
* `OutputIsRight`: the number in the reader's Interest is the number of blocks it has written, and
  a FinalBlockId in a stored packet is that of the last block or none (`Packets`, `Reads`).

The assumptions on constants are the named ASSUMEs of each module; the hypotheses in parentheses
are in each theorem's statement. Both are what the code's environment gives: SQLite that reports
its errors, an index with room, fewer than 2^31 inserts, numbers far from 2^64.

Left to TLC: everything under fairness, which TLAPS cannot prove (`ENABLED`): `SearchReturns`,
`VerifiedProcessTerminates`, `CommandCompletes`, `LimitedWatchEnds`, `RangeIsAnswered`,
`StreamIsHandled`, `UploadCompletes` and `StoredFileIsRead`; and the three violations.

## Left out, and what is next

* Next: the safety half of termination, measures that every step of a loop or of a process
  decreases; and a shorter argument for `SkipList`, whose `Link` and `Unlink` take most of
  `IndexProofs`.
* Process ids are fresh: that `generateProcessId` (`base-handle.cpp:27`) starts again with the same
  ids after a restart is not modelled.
* Some properties are stated for the case in which they are true, and the other case is in the
  models but in no property: a validator that refuses Data, FinalBlockIds below the range, two
  watches at once or one started twice, keyed queries after a restart. The hazards in PROJECT.json
  say which.
* Durations: `m_interestLifetime` is shared by all processes, which changes how long an Interest
  waits but not what may happen to it.
* `Repo` takes `WriteHandle` and `WatchHandle` as single insertions, so that a whole repo stays
  small enough to check; their own modules have the rest.

Not planned: wire formats, cryptography and validator rules, SQL text, the syntax of the
configuration file and of command lines, `repo-ng-ls` (reads the table and prints it) and the
example producer.
