------------------------------- MODULE PutFile -------------------------------
(***************************************************************************)
(* ndnputfile with the repo it writes to.  The tool registers the name of  *)
(* the file, sends an insert command, and answers the Interests of the     *)
(* repo's WriteHandle with segments that it reads and signs a few ahead.   *)
(* Every second it asks the repo how many packets it has inserted, and     *)
(* infers from that number when the file is written.                       *)
(*                                                                         *)
(* Two processes: a step is a callback of the tool or of the repo.  The    *)
(* link between them may lose and delay; then commands and Interests time  *)
(* out.                                                                    *)
(***************************************************************************)
EXTENDS WriteHandle

CONSTANTS
  File,       \* the name of the file, m_dataPrefix
  NoProcess,  \* m_processId before a response has set it
  PreSign,    \* PRE_SIGN_DATA_COUNT
  Scene       \* [length, isSingle, lossy, asked]: the file's number of blocks, the
              \* option -s, whether the link loses and delays, and whether others than
              \* this repo send Interests for the file

(* What startInsertCommand asks for. *)
InsertCommand(single) ==
  [name |-> File, start |-> IF single THEN NoBlock ELSE 0, end |-> NoBlock]

ASSUME NoProcessAssumption == NoProcess \notin Proc
ASSUME PreSignAssumption == PreSign \in Nat \ {0}
ASSUME FileAssumption == \A b \in BOOLEAN : InsertCommand(b) \in Command
ASSUME SceneAssumption ==
  Scene \subseteq [length : 0..(Word - 1), isSingle : BOOLEAN, lossy : BOOLEAN, asked : BOOLEAN]

VARIABLES
  tool,     \* [phase, process, segments, isFinished]: where the tool is, m_processId,
            \* m_currentSegmentNo (m_data holds the segments below it), m_isFinished
  call,     \* [kind, process, status, insertNum]: the tool's command on its way, or the
            \* repo's response to it
  ignored,  \* <<p, s>> in flight: the tool left it unanswered, or it or its Data is lost
  kept,     \* stored segment -> the FinalBlockId in the stored packet
  scene     \* the scene of this behaviour, chosen once

toolVars == <<tool, call, ignored, kept, scene>>
putVars == <<vars, toolVars>>

Message(kind, p, status, n) ==
  [kind |-> kind, process |-> p, status |-> status, insertNum |-> n]
NoCall == Message("none", NoProcess, 0, 0)
Ask(kind) == Message(kind, NoProcess, 0, 0)
Response(p, status, n) == Message("response", p, status, n)

PutFileInit ==
  /\ Init
  /\ tool = [phase |-> "registering", process |-> NoProcess, segments |-> 0, isFinished |-> FALSE]
  /\ call = NoCall
  /\ ignored = {}
  /\ kept = [s \in {} |-> NoBlock]
  /\ scene \in Scene

(* The tool has ended: "done" when it saw the insertion complete, "over" when an
   exception reached its main or stopProcess ran. *)
Ended == tool.phase \in {"done", "over"}
Waiting == tool.phase \in {"inserting", "sleeping", "checking"}  \* in processEvents

RepoIdle == UNCHANGED vars

-----------------------------------------------------------------------------
(* The tool's commands. *)
RegisterSucceeds ==
  /\ tool.phase = "registering"
  /\ tool' = [tool EXCEPT !.phase = "inserting"]
  /\ call' = Ask("insert")
  /\ RepoIdle /\ UNCHANGED <<ignored, kept, scene>>

(* Exceptions: registration refused, a command without an answer.  And stopProcess,
   that the option -w schedules.  In all of them the tool's Face is gone. *)
GivesUp ==
  /\ \/ tool.phase = "registering"
     \/ tool.phase \in {"inserting", "checking"} /\ (scene.lossy \/ ~up)
     \/ Waiting /\ scene.lossy
  /\ tool' = [tool EXCEPT !.phase = "over"]
  /\ RepoIdle /\ UNCHANGED <<call, ignored, kept, scene>>

OnInsertCommandResponse ==
  /\ tool.phase = "inserting" /\ call.kind = "response"
  /\ tool' = IF call.status >= 400 THEN [tool EXCEPT !.phase = "over"]
             ELSE [tool EXCEPT !.phase = "sleeping", !.process = call.process]
  /\ call' = NoCall
  /\ RepoIdle /\ UNCHANGED <<ignored, kept, scene>>

StartCheckCommand ==
  /\ tool.phase = "sleeping"
  /\ tool' = [tool EXCEPT !.phase = "checking"]
  /\ call' = Ask("check")
  /\ RepoIdle /\ UNCHANGED <<ignored, kept, scene>>

IsCompleteMutEarly(n) == n = tool.segments

(* What the tool infers from the InsertNum of a check. *)
IsComplete(n) ==
  /\ tool.isFinished
  /\ \/ scene.isSingle /\ n = 1
     \/ n = tool.segments

OnCheckCommandResponse ==
  /\ tool.phase = "checking" /\ call.kind = "response"
  /\ tool' = [tool EXCEPT !.phase =
       IF call.status >= 400 THEN "over"
       ELSE IF IsComplete(call.insertNum) THEN "done" ELSE "sleeping"]
  /\ call' = NoCall
  /\ RepoIdle /\ UNCHANGED <<ignored, kept, scene>>

-----------------------------------------------------------------------------
(* The tool's answers. *)
Least(m, n) == IF m < n THEN m ELSE n

ToPrepareMutNoLookahead(reference) ==
  IF tool.segments = 0 THEN 1
  ELSE IF (tool.segments - 1 - reference) % Word >= 1 THEN 0 ELSE 1

(* How many blocks prepareNextData reads for a reference segment.  The distance from
   the last segment to the reference is unsigned: it is huge for a reference ahead of
   the last. *)
ToPrepare(reference) ==
  LET distance == (tool.segments - 1 - reference) % Word IN
  IF tool.isFinished THEN 0
  ELSE IF tool.segments = 0 THEN PreSign
  ELSE IF distance >= PreSign THEN 0 ELSE PreSign - distance

Prepared(reference) ==
  LET segments == Least(tool.segments + ToPrepare(reference), scene.length) IN
  [tool EXCEPT !.segments = segments,
               !.isFinished = @ \/ (segments = scene.length /\ scene.length > 0)]

FinalBlockIdOfMutCount(t) == IF t.isFinished THEN t.segments ELSE NoBlock

(* The FinalBlockId of a segment as it is sent: once the end of the file is known it is
   set in every Data, in the ones signed before too. *)
FinalBlockIdOf(t) == IF t.isFinished THEN t.segments - 1 ELSE NoBlock

(* A signature covers the FinalBlockId that the Data had when it was signed. *)
IsSigned(s, f) == f = NoBlock \/ f = s

(* onInterest: the segment is there after prepareNextData, and is sent. *)
OnInterest(p, s) ==
  /\ Waiting /\ ~scene.isSingle /\ scene.length > 0
  /\ <<p, s>> \in flight \ ignored
  /\ tool' = Prepared(s)
  /\ s < tool'.segments
  /\ Deliver(p, s, FinalBlockIdOf(tool'))
  /\ UNCHANGED <<call, ignored, kept, scene>>

(* ... is not there: no answer.  On a lossy link the answer, too, may be lost. *)
LeaveInterest(p, s) ==
  /\ Waiting /\ ~scene.isSingle /\ scene.length > 0
  /\ <<p, s>> \in flight \ ignored
  /\ tool' = Prepared(s)
  /\ s >= tool'.segments \/ scene.lossy
  /\ ignored' = ignored \cup {<<p, s>>}
  /\ RepoIdle /\ UNCHANGED <<call, kept, scene>>

(* onSingleInterest reads the file anew for each Interest. *)
OnSingleInterest(p) ==
  /\ Waiting /\ scene.isSingle
  /\ <<p, Whole>> \in flight \ ignored
  /\ scene.length = 1 /\ ~tool.isFinished
  /\ tool' = [tool EXCEPT !.isFinished = TRUE]
  /\ \/ Deliver(p, Whole, NoBlock) /\ UNCHANGED ignored
     \/ scene.lossy /\ ignored' = ignored \cup {<<p, Whole>>} /\ RepoIdle
  /\ UNCHANGED <<call, kept, scene>>

(* Nothing left to read, or more than fits into one Data: an exception. *)
ReadThrows ==
  /\ Waiting
  /\ flight \ ignored # {} \/ scene.asked
  /\ \/ scene.length = 0
     \/ scene.isSingle /\ (scene.length > 1 \/ tool.isFinished)
  /\ tool' = [tool EXCEPT !.phase = "over"]
  /\ RepoIdle /\ UNCHANGED <<call, ignored, kept, scene>>

(* An Interest of somebody else for any segment has the same effects on the tool. *)
OthersAsk(s) ==
  /\ Waiting /\ scene.asked
  /\ scene.length > 0
  /\ \/ ~scene.isSingle /\ s # Whole /\ tool' = Prepared(s)
     \/ /\ scene.isSingle /\ s = Whole /\ scene.length = 1 /\ ~tool.isFinished
        /\ tool' = [tool EXCEPT !.isFinished = TRUE]
  /\ RepoIdle /\ UNCHANGED <<call, ignored, kept, scene>>

-----------------------------------------------------------------------------
(* The repo: steps of WriteHandle, with what the tool has to do with them. *)
ToolIdle == UNCHANGED toolVars

RepoTakesInsert(p) ==
  /\ call.kind = "insert"
  /\ \/ /\ RejectCommand(InsertCommand(scene.isSingle))
        /\ call' = Response(NoProcess, reply', 0)
     \/ /\ InsertSingle(p, InsertCommand(scene.isSingle))
        /\ call' = Response(p, 100, 0)
     \/ /\ InsertSegmented(p, InsertCommand(scene.isSingle))
        /\ call' = Response(p, 100, 0)
  /\ UNCHANGED <<tool, ignored, kept, scene>>

(* The tool's checks are well-formed and signed like the insert command that the repo
   took: neither 401 nor 403 comes back. *)
RepoTakesCheck(p) ==
  /\ call.kind = "check"
  /\ p = tool.process
  /\ Check(p)
  /\ call' = Response(p, reply', IF p \in Live THEN processes[p].insertNum ELSE 0)
  /\ UNCHANGED <<tool, ignored, kept, scene>>

(* The validator accepts a Data with a good signature; whether it looks at signatures
   at all is env.unverified, the repo's configuration. *)
Accepts(s, f) == env.unverified => IsSigned(s, f)

RepoStores(p, s, f) ==
  /\ Accepts(s, f)
  /\ SegmentValidated(p, s, f) \/ (s = Whole /\ DataValidated(p, f))
  /\ kept' = [t \in DOMAIN kept \cup {s} |-> IF t = s THEN f ELSE kept[t]]
  /\ UNCHANGED <<tool, call, ignored, scene>>

RepoRefuses(p, s, f) == ~Accepts(s, f) /\ Refused(p, s, f) /\ ToolIdle

RepoDrops(p, s, f) == LateData(p, s, f) /\ ToolIdle

RepoThrows(p, s, f) ==
  /\ Accepts(s, f) /\ DataThrows(p, s, f)
  /\ ignored' = {}
  /\ UNCHANGED <<tool, call, kept, scene>>

(* On a link that does not lose, the time a message takes is far below the second
   between two checks, the 4 seconds of an Interest, the 10 seconds until a finished
   process is deleted or noEndTime passes, and the 16 of the last retry.  So nothing
   that will be answered times out, what is retried fewer times is retried first, and
   the rest lasts until the tool has read what it waits for. *)
RetryIsDue(p, s) ==
  \/ scene.lossy \/ Ended
  \/ /\ <<p, s>> \in ignored /\ arrived = {} /\ p \in Live
     /\ \A t \in DOMAIN processes[p].retries :
          <<p, t>> \in flight =>
            \/ processes[p].retries[s] < processes[p].retries[t]
            \/ processes[p].retries[s] = processes[p].retries[t] /\ <<p, t>> \in ignored
SlowTimerIsDue == scene.lossy \/ Ended

RepoRetries(p, s) ==
  /\ RetryIsDue(p, s) /\ Retry(p, s)
  /\ ignored' = ignored \ {<<p, s>>}
  /\ UNCHANGED <<tool, call, kept, scene>>

RepoGivesUp(p, s) ==
  /\ SlowTimerIsDue /\ GiveUp(p, s)
  /\ ignored' = ignored \ {<<p, s>>}
  /\ UNCHANGED <<tool, call, kept, scene>>

NoEndTimeIsOver(p) == SlowTimerIsDue /\ NoEndTimePasses(p) /\ ToolIdle

RepoDeletes(p) == SlowTimerIsDue /\ DeleteProcess(p) /\ ToolIdle

-----------------------------------------------------------------------------
ToolStep ==
  \/ RegisterSucceeds \/ GivesUp \/ OnInsertCommandResponse \/ StartCheckCommand
  \/ OnCheckCommandResponse \/ ReadThrows
  \/ \E p \in Proc : OnSingleInterest(p) \/ \E s \in SegmentNo : OnInterest(p, s) \/ LeaveInterest(p, s)
  \/ \E s \in Segment : OthersAsk(s)

RepoStep ==
  \E p \in Proc :
    \/ RepoTakesInsert(p) \/ RepoTakesCheck(p) \/ NoEndTimeIsOver(p) \/ RepoDeletes(p)
    \/ \E s \in Segment :
         \/ RepoRetries(p, s) \/ RepoGivesUp(p, s)
         \/ \E f \in FinalBlock :
              \/ RepoStores(p, s, f) \/ RepoRefuses(p, s, f) \/ RepoDrops(p, s, f)
              \/ RepoThrows(p, s, f)

PutFileNext == ToolStep \/ RepoStep

PutFileSpec == PutFileInit /\ [][PutFileNext]_putVars

(* Registrations and commands are answered or time out, timers fire, Interests that
   reach the tool and Data that reach the validator are handled. *)
PutFileFairness ==
  /\ WF_putVars(RegisterSucceeds \/ GivesUp)
  /\ WF_putVars(OnInsertCommandResponse \/ OnCheckCommandResponse)
  /\ WF_putVars(StartCheckCommand)
  /\ WF_putVars(ReadThrows \/ \E p \in Proc :
       OnSingleInterest(p) \/ \E s \in SegmentNo : OnInterest(p, s) \/ LeaveInterest(p, s))
  /\ WF_putVars(\E p \in Proc : RepoTakesInsert(p) \/ RepoTakesCheck(p))
  /\ WF_putVars(\E p \in Proc, s \in Segment : RepoRetries(p, s) \/ RepoGivesUp(p, s))
  /\ WF_putVars(\E p \in Proc, s \in Segment, f \in FinalBlock :
       RepoStores(p, s, f) \/ RepoRefuses(p, s, f) \/ RepoDrops(p, s, f) \/ RepoThrows(p, s, f))
  /\ WF_putVars(\E p \in Proc : RepoDeletes(p))

FairPutFile == PutFileSpec /\ PutFileFairness

-----------------------------------------------------------------------------
(* "Technically, the check should not infer, but directly has signal from repo that
   write operation has been finished" (ndnputfile.cpp:413): what the tool infers from
   an InsertNum that was read earlier, while segments are still read and asked for in
   any order, is right.  Every block of the file is in the repo when the tool ends
   without an error. *)
UploadIsStored ==
  tool.phase = "done" /\ ~scene.isSingle =>
    \A s \in 0..(scene.length - 1) : Has(File, s)

(* "Write a file into a repo" (ndnputfile.cpp:457): the same for the option -s. *)
SingleUploadIsStored ==
  tool.phase = "done" /\ scene.isSingle => Has(File, Whole)

(* On a link that loses nothing, to a repo that does not look at signatures and whose
   database works, an accepted upload of a readable file ends with success, whatever
   the order in which Interests reach the tool: an Interest ahead of the segments that
   are prepared is retried after they are. *)
UploadCompletes ==
  (/\ tool.phase = "sleeping" /\ ~scene.lossy /\ ~scene.asked
   /\ scene.length = 1 \/ (scene.length > 1 /\ ~scene.isSingle)
   /\ ~env.unverified /\ ~env.storageFails)
    ~> tool.phase = "done"
=============================================================================
