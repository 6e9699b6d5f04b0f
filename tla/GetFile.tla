------------------------------- MODULE GetFile -------------------------------
(***************************************************************************)
(* ndngetfile, reading from the repo while or after PutFile writes.  It    *)
(* keeps one Interest out, first for the name it was given, then for one   *)
(* segment after the other, and appends what comes to its output.          *)
(***************************************************************************)
EXTENDS PutFile

CONSTANTS
  MaxRetry,  \* MAX_RETRY
  Reading    \* <<upload, command line>> pairs to check: a scene of PutFile, and
             \* [runs, versioned, single, below], whether there is a reader, its options
             \* -u and -s, and how many components the uploaded names have after the
             \* name it was given

ASSUME ReadingAssumption ==
  /\ MaxRetry \in Nat
  /\ Reading \subseteq
       Scene \X [runs : BOOLEAN, versioned : BOOLEAN, single : BOOLEAN, below : 0..2]
  /\ \A r \in Reading : r[2].below \in (IF r[1].isSingle THEN 0..1 ELSE 1..2)

Prefix == -4   \* the name the reader was given
Strange == -5  \* a name with a component twice, or below a packet: nobody has it
None == -6

VARIABLES
  get,      \* [want, next, isFirst, isFinished, retries]: the name in the outstanding
            \* Interest, m_nextSegment, m_isFirst, m_isFinished, m_retryCount
  output,   \* what was written to m_os, a sequence of segments
  reading   \* the reader's command line, chosen once

getVars == <<get, output, reading>>
allVars == <<putVars, getVars>>

GetFileInit ==
  /\ PutFileInit
  /\ get = [want |-> None, next |-> 0, isFirst |-> TRUE, isFinished |-> FALSE, retries |-> 0]
  /\ output = <<>>
  /\ \E r \in Reading : scene = r[1] /\ reading = r[2]

(* The packets of the file in the repo, and the one it returns for the name of the
   reader's first Interest: the leftmost child or, when the name has no version, the
   rightmost at that level, and below it the leftmost. *)
InRepo == {s \in Segment : Has(File, s)}
Leftmost(S) == CHOOSE s \in S : \A t \in S : s <= t
Rightmost(S) == CHOOSE s \in S : \A t \in S : s >= t
First == IF ~reading.versioned /\ reading.below = 1 THEN Rightmost(InRepo) ELSE Leftmost(InRepo)

Found == (get.want = Prefix /\ InRepo # {}) \/ get.want \in InRepo
Received == IF get.want = Prefix THEN First ELSE get.want

-----------------------------------------------------------------------------
Run ==
  /\ reading.runs
  /\ get.want = None /\ get.next = 0
  /\ get' = [get EXCEPT !.want = Prefix, !.next = 1]
  /\ UNCHANGED <<putVars, output, reading>>

(* The components after the reader's name that a segment of the file has, when it was
   given a name with its version, and when not. *)
ExpectedBelow == IF reading.versioned THEN 1 ELSE 2

(* A packet at the level of the file itself: written, and its segments are asked for,
   without -u at a name with the last component twice. *)
OnWholeData ==
  /\ up /\ Found
  /\ reading.below = ExpectedBelow - 1
  /\ get' = [get EXCEPT !.want =
       IF reading.single THEN None ELSE IF reading.versioned THEN 0 ELSE Strange]
  /\ output' = Append(output, Received)
  /\ UNCHANGED <<putVars, reading>>

SeeksFirstMutNever(s) == FALSE

(* The first packet may be any segment; the reader then asks for the first. *)
SeeksFirst(s) == get.isFirst /\ s # 0

OnFirstSegment ==
  /\ up /\ Found
  /\ reading.below = ExpectedBelow /\ ~reading.single
  /\ Received # Whole
  /\ SeeksFirst(Received)
  /\ get' = [get EXCEPT !.want = 0, !.isFirst = FALSE]
  /\ UNCHANGED <<putVars, output, reading>>

IsLast(s) == kept[s] = s

(* fetchNextData and readData *)
OnSegment ==
  /\ up /\ Found
  /\ reading.below = ExpectedBelow /\ ~reading.single
  /\ ~SeeksFirst(Received)
  /\ get' = IF IsLast(Received)
            THEN [get EXCEPT !.want = None, !.isFirst = FALSE, !.isFinished = TRUE]
            ELSE [get EXCEPT !.want = get.next, !.next = @ + 1, !.isFirst = FALSE, !.retries = 0]
  /\ output' = Append(output, Received)
  /\ UNCHANGED <<putVars, reading>>

(* A segment for the option -s, or a name of another length: an error message.  A whole
   packet where a segment is expected: toSegment throws, and the reader ends. *)
OnUnexpectedData ==
  /\ up /\ Found
  /\ \/ reading.below = ExpectedBelow /\ (reading.single \/ Received = Whole)
     \/ reading.below \notin {ExpectedBelow - 1, ExpectedBelow}
  /\ get' = [get EXCEPT !.want = None]
  /\ UNCHANGED <<putVars, output, reading>>

(* onTimeout: the repo says nothing when it has nothing, and a link may lose. *)
OnTimeout ==
  /\ get.want # None
  /\ ~(up /\ Found) \/ scene.lossy
  /\ get' = [get EXCEPT !.retries = @ + 1, !.want = IF get.retries < MaxRetry THEN @ ELSE None]
  /\ UNCHANGED <<putVars, output, reading>>

GetStep == Run \/ OnWholeData \/ OnFirstSegment \/ OnSegment \/ OnUnexpectedData \/ OnTimeout

GetFileNext == GetStep \/ (PutFileNext /\ UNCHANGED getVars)

GetFileSpec == GetFileInit /\ [][GetFileNext]_allVars

(* The reader's Interest is answered or times out; the fairness of PutFile besides. *)
FairGetFile == GetFileSpec /\ PutFileFairness /\ WF_allVars(GetStep)

-----------------------------------------------------------------------------
(* The options fit the name and what was uploaded under it. *)
FitsUpload == reading.below = IF scene.isSingle THEN ExpectedBelow - 1 ELSE ExpectedBelow

(* "INFO: End of file is reached" (ndngetfile.cpp:160), and what is written before: a
   reader with the options that fit the name writes the blocks in order from the first,
   none twice, none skipped, whatever the repo holds when it starts and while it reads;
   the whole file when it says that it is finished.  That the segment that comes is
   the one asked for last (BOOST_ASSERT, ndngetfile.cpp:170) is part of it. *)
OutputIsTheFile ==
  FitsUpload =>
    /\ \A i \in DOMAIN output : output[i] = IF scene.isSingle THEN Whole ELSE i - 1
    /\ get.isFinished => Len(output) = scene.length

(* A file that the repo holds whole when the reader starts is read whole where nothing is
   lost: the reader learns the end of the file from the FinalBlockId that the tool put
   into the segments, in whatever order they were asked for. *)
StoredFileIsRead ==
  (/\ FitsUpload /\ ~scene.isSingle /\ ~reading.single /\ ~scene.lossy
   /\ get.want = Prefix /\ get.retries = 0
   /\ tool.phase = "done")
    ~> (get.isFinished \/ ~up)
=============================================================================
