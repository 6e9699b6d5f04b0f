--------------------------- MODULE PutFileProofs ---------------------------
(***************************************************************************)
(* Proofs about PutFile and the reader beside it, GetFile, for every file, *)
(* window and look-ahead, and every order in which Interests, Data,        *)
(* timeouts and responses happen: what ndnputfile infers from the          *)
(* InsertNum of a check is right, and what ndngetfile writes is the file,  *)
(* block after block, whenever it starts.                                  *)
(***************************************************************************)
EXTENDS GetFile, WriteHandleProofs, NaturalsInduction, WellFoundedInduction

(* The repo's part of a step is a step of WriteHandle. *)
LEMMA RepoStepIsNext == RepoStep => Next
<1>1. ASSUME NEW p \in Proc, RepoTakesInsert(p) PROVE Next
  <2>1. \E c \in Command : RejectCommand(c) \/ InsertSingle(p, c) \/ InsertSegmented(p, c)
    <3>1. InsertCommand(scene.isSingle) \in Command
      <4>1. CASE scene.isSingle
        BY <4>1, FileAssumption DEF InsertCommand
      <4>2. CASE ~scene.isSingle
        BY <4>2, FileAssumption DEF InsertCommand
      <4> QED
        BY <4>1, <4>2
    <3> QED
      BY <1>1, <3>1 DEF RepoTakesInsert
  <2> QED
    BY <2>1 DEF Next
<1>2. ASSUME NEW p \in Proc, RepoTakesCheck(p) \/ NoEndTimeIsOver(p) \/ RepoDeletes(p) PROVE Next
  BY <1>2 DEF RepoTakesCheck, NoEndTimeIsOver, RepoDeletes, Next
<1>3. ASSUME NEW p \in Proc, NEW s \in Segment, RepoRetries(p, s) \/ RepoGivesUp(p, s) PROVE Next
  BY <1>3 DEF RepoRetries, RepoGivesUp, Next
<1>4. ASSUME NEW p \in Proc, NEW s \in Segment, NEW f \in FinalBlock,
             RepoStores(p, s, f) \/ RepoRefuses(p, s, f) \/ RepoDrops(p, s, f) \/ RepoThrows(p, s, f)
      PROVE  Next
  BY <1>4 DEF RepoStores, RepoRefuses, RepoDrops, RepoThrows, Next
<1> QED
  BY <1>1, <1>2, <1>3, <1>4 DEF RepoStep


-----------------------------------------------------------------------------
Phase == {"registering", "inserting", "sleeping", "checking", "over", "done"}

(* The shape of the tool's state; once the end of a file of segments is known, all its
   segments are in m_data. *)
ToolOK ==
  /\ scene \in Scene
  /\ tool \in [phase : Phase, process : Proc \cup {NoProcess}, segments : 0..scene.length,
               isFinished : BOOLEAN]
  /\ call.process \in Proc \cup {NoProcess} /\ call.insertNum \in Nat
  /\ ~scene.isSingle /\ tool.isFinished => tool.segments = scene.length /\ scene.length > 0

LEMMA SceneOK ==
  ASSUME scene \in Scene
  PROVE  /\ scene.length \in 0..(Word - 1) /\ Word \in Nat /\ scene.length \in Nat
         /\ scene.isSingle \in BOOLEAN
<1>1. scene \in [length : 0..(Word - 1), isSingle : BOOLEAN, lossy : BOOLEAN, asked : BOOLEAN]
  BY SceneAssumption
<1>2. scene.isSingle \in BOOLEAN
  BY <1>1
<1> QED
  BY <1>1, <1>2, WordAssumption

(* prepareNextData never drops a segment, and reads to the end at most. *)
LEMMA PreparedOK ==
  ASSUME ToolOK, NEW s \in SegmentNo, scene.length > 0
  PROVE  /\ Prepared(s) \in [phase : Phase, process : Proc \cup {NoProcess},
                             segments : 0..scene.length, isFinished : BOOLEAN]
         /\ Prepared(s).phase = tool.phase
         /\ Prepared(s).process = tool.process
         /\ tool.segments <= Prepared(s).segments
         /\ ~scene.isSingle /\ Prepared(s).isFinished => Prepared(s).segments = scene.length
<1> DEFINE k == ToPrepare(s)
           segments == Least(tool.segments + k, scene.length)
           finished == tool.isFinished \/ (segments = scene.length /\ scene.length > 0)
<1>1. scene.length \in Nat /\ Word \in Nat \ {0} /\ tool.segments \in 0..scene.length
  BY SceneOK, WordAssumption DEF ToolOK
<1>2. k \in Nat /\ (tool.isFinished => k = 0)
  <2>1. (tool.segments - 1 - s) % Word \in Nat
    BY <1>1, SegmentNumbers
  <2> QED
    BY <2>1, PreSignAssumption DEF ToPrepare
<1>3. segments \in 0..scene.length /\ tool.segments <= segments
  BY <1>1, <1>2 DEF Least
<1>4. tool.isFinished => segments = tool.segments
  BY <1>1, <1>2 DEF Least
<1>5. finished \in BOOLEAN
  BY Zenon
<1>6. Prepared(s) = [tool EXCEPT !.segments = segments, !.isFinished = finished]
  BY DEF Prepared
<1>7. ~scene.isSingle /\ finished => segments = scene.length
  BY <1>4 DEF ToolOK
<1> HIDE DEF segments, finished, k
<1>8. tool \in [phase : Phase, process : Proc \cup {NoProcess}, segments : 0..scene.length,
               isFinished : BOOLEAN]
  BY DEF ToolOK
<1> QED
  BY <1>3, <1>5, <1>6, <1>7, <1>8

(* What a step of the tool does. *)
ToolMoves ==
  /\ scene' = scene /\ ToolOK'
  /\ tool.segments <= tool'.segments
  /\ \/ UNCHANGED vars
     \/ \E p \in Proc, s \in Segment, f \in FinalBlock :
          Deliver(p, s, f) /\ (~scene.isSingle => s \in 0..(tool'.segments - 1))
  /\ call' = call \/ call'.insertNum = 0
  /\ tool.phase # "done" /\ tool'.phase = "done" => UNCHANGED vars /\ IsComplete(call.insertNum)

(* A phase, a process and the end of a single file, and nothing else of the tool. *)
LEMMA ToolChanges ==
  ASSUME ToolOK
  PROVE  /\ \A phase \in Phase : \A process \in Proc \cup {NoProcess} :
              LET new == [tool EXCEPT !.phase = phase, !.process = process] IN
              /\ new \in [phase : Phase, process : Proc \cup {NoProcess},
                          segments : 0..scene.length, isFinished : BOOLEAN]
              /\ new.segments = tool.segments /\ new.phase = phase
              /\ new.isFinished => tool.isFinished
         /\ \A phase : [tool EXCEPT !.phase = phase] = [tool EXCEPT !.phase = phase, !.process = tool.process]
<1>1. tool \in [phase : Phase, process : Proc \cup {NoProcess}, segments : 0..scene.length,
                isFinished : BOOLEAN]
  BY DEF ToolOK
<1> QED
  BY <1>1

(* Steps that only move the tool to another phase. *)
LEMMA PhaseMoves ==
  ASSUME ToolOK, scene' = scene, UNCHANGED vars,
         tool' \in [phase : Phase, process : Proc \cup {NoProcess},
                    segments : 0..scene.length, isFinished : BOOLEAN],
         tool'.segments = tool.segments, tool'.isFinished => tool.isFinished,
         call' = call \/ (call'.insertNum = 0 /\ call'.process = NoProcess),
         tool'.phase = "done" => IsComplete(call.insertNum)
  PROVE  ToolMoves
<1>1. tool.segments \in Nat
  BY SceneOK DEF ToolOK
<1>2. ToolOK'
  BY DEF ToolOK
<1> QED
  BY <1>1, <1>2 DEF ToolMoves

LEMMA CallMessages ==
  /\ \A kind : Ask(kind).insertNum = 0 /\ Ask(kind).process = NoProcess
  /\ NoCall.insertNum = 0 /\ NoCall.process = NoProcess
  /\ \A p, status, n : Response(p, status, n).insertNum = n /\ Response(p, status, n).process = p
  BY DEF Ask, NoCall, Response, Message

LEMMA CommandMoves ==
  ASSUME ToolOK,
         \/ RegisterSucceeds \/ GivesUp \/ OnInsertCommandResponse \/ StartCheckCommand
         \/ OnCheckCommandResponse \/ ReadThrows
  PROVE  ToolMoves
<1> DEFINE move(phase, process) == [tool EXCEPT !.phase = phase, !.process = process]
<1>0. tool.process \in Proc \cup {NoProcess} /\ call.process \in Proc \cup {NoProcess}
  BY DEF ToolOK
<1>1. \A phase : [tool EXCEPT !.phase = phase] = move(phase, tool.process)
  BY ToolChanges
<1>7. ASSUME NEW phase \in {"inserting", "checking", "sleeping", "over", "done"},
             NEW process \in Proc \cup {NoProcess}, tool' = move(phase, process),
             scene' = scene, UNCHANGED vars,
             call' = call \/ (call'.insertNum = 0 /\ call'.process = NoProcess),
             phase = "done" => IsComplete(call.insertNum)
      PROVE  ToolMoves
  <2>1. /\ tool' \in [phase : Phase, process : Proc \cup {NoProcess},
                      segments : 0..scene.length, isFinished : BOOLEAN]
        /\ tool'.segments = tool.segments /\ tool'.phase = phase
        /\ tool'.isFinished => tool.isFinished
    <3>1. phase \in Phase
      BY DEF Phase
    <3>2. LET new == [tool EXCEPT !.phase = phase, !.process = process] IN
          /\ new \in [phase : Phase, process : Proc \cup {NoProcess},
                      segments : 0..scene.length, isFinished : BOOLEAN]
          /\ new.segments = tool.segments /\ new.phase = phase
          /\ new.isFinished => tool.isFinished
      BY <3>1, ToolChanges, Zenon
    <3> QED
      BY <1>7, <3>2, Zenon
  <2> QED
    BY <1>7, <2>1, PhaseMoves
<1> HIDE DEF move
<1>2. CASE RegisterSucceeds
  <2>1. tool' = move("inserting", tool.process) /\ call' = Ask("insert")
        /\ scene' = scene /\ UNCHANGED vars
    BY <1>1, <1>2 DEF RegisterSucceeds, RepoIdle
  <2> QED
    BY <1>0, <1>7, <2>1, CallMessages
<1>3. CASE GivesUp \/ ReadThrows
  <2>1. tool' = move("over", tool.process) /\ call' = call /\ scene' = scene /\ UNCHANGED vars
    BY <1>1, <1>3 DEF GivesUp, ReadThrows, RepoIdle
  <2> QED
    BY <1>0, <1>7, <2>1
<1>4. CASE OnInsertCommandResponse
  <2>1. \/ tool' = move("over", tool.process)
        \/ tool' = move("sleeping", call.process)
    BY <1>1, <1>4 DEF OnInsertCommandResponse, move
  <2>2. call' = NoCall /\ scene' = scene /\ UNCHANGED vars
    BY <1>4 DEF OnInsertCommandResponse, RepoIdle
  <2> QED
    BY <1>0, <1>7, <2>1, <2>2, CallMessages
<1>5. CASE StartCheckCommand
  <2>1. tool' = move("checking", tool.process) /\ call' = Ask("check")
        /\ scene' = scene /\ UNCHANGED vars
    BY <1>1, <1>5 DEF StartCheckCommand, RepoIdle
  <2> QED
    BY <1>0, <1>7, <2>1, CallMessages
<1>6. CASE OnCheckCommandResponse
  <2>1. \/ tool' = move("over", tool.process) \/ tool' = move("sleeping", tool.process)
        \/ tool' = move("done", tool.process) /\ IsComplete(call.insertNum)
    BY <1>1, <1>6 DEF OnCheckCommandResponse
  <2>2. call' = NoCall /\ scene' = scene /\ UNCHANGED vars
    BY <1>6 DEF OnCheckCommandResponse, RepoIdle
  <2> QED
    BY <1>0, <1>7, <2>1, <2>2, CallMessages
<1> QED
  BY <1>2, <1>3, <1>4, <1>5, <1>6

LEMMA AnswerMoves ==
  ASSUME ToolOK,
         \/ \E p \in Proc : OnSingleInterest(p) \/ \E s \in SegmentNo : OnInterest(p, s) \/ LeaveInterest(p, s)
         \/ \E s \in Segment : OthersAsk(s)
  PROVE  ToolMoves
<1>1. /\ tool \in [phase : Phase, process : Proc \cup {NoProcess}, segments : 0..scene.length,
                   isFinished : BOOLEAN]
      /\ scene.length \in 0..(Word - 1) /\ Word \in Nat /\ tool.segments \in Nat
  BY SceneOK DEF ToolOK
<1>2. ASSUME NEW s \in SegmentNo, tool' = Prepared(s), scene.length > 0, call' = call, scene' = scene
      PROVE  /\ ToolOK' /\ tool.segments <= tool'.segments /\ tool'.segments \in 0..scene.length
             /\ tool'.phase = tool.phase
  <2>1. /\ tool' \in [phase : Phase, process : Proc \cup {NoProcess},
                      segments : 0..scene.length, isFinished : BOOLEAN]
        /\ tool'.phase = tool.phase /\ tool.segments <= tool'.segments
        /\ ~scene.isSingle /\ tool'.isFinished => tool'.segments = scene.length
    BY <1>2, PreparedOK
  <2>2. ToolOK'
    BY <1>2, <2>1 DEF ToolOK
  <2> QED
    BY <2>1, <2>2
<1>3. ASSUME NEW p \in Proc, NEW s \in SegmentNo, OnInterest(p, s) PROVE ToolMoves
  <2>1. /\ tool' = Prepared(s) /\ scene.length > 0 /\ call' = call /\ scene' = scene
        /\ ~scene.isSingle /\ s < tool'.segments
        /\ Deliver(p, s, FinalBlockIdOf(tool'))
    BY <1>3 DEF OnInterest
  <2>2. /\ ToolOK' /\ tool.segments <= tool'.segments /\ tool'.segments \in 0..scene.length
        /\ tool'.phase = tool.phase
    BY <1>2, <2>1
  <2>3. s \in 0..(tool'.segments - 1) /\ s \in Segment
    BY <1>1, <2>1, <2>2, SegmentNumbers DEF Segment
  <2>4. FinalBlockIdOf(tool') \in FinalBlock
    BY <1>1, <2>1, <2>2 DEF ToolOK, FinalBlockIdOf, FinalBlock, SegmentNo
  <2> QED
    BY <2>1, <2>2, <2>3, <2>4 DEF ToolMoves
<1>4. ASSUME NEW p \in Proc, NEW s \in SegmentNo, LeaveInterest(p, s) PROVE ToolMoves
  <2>1. /\ tool' = Prepared(s) /\ scene.length > 0 /\ call' = call /\ scene' = scene
        /\ UNCHANGED vars
    BY <1>4 DEF LeaveInterest, RepoIdle
  <2> QED
    BY <1>2, <2>1 DEF ToolMoves
<1>5. ASSUME tool' = [tool EXCEPT !.isFinished = TRUE], call' = call, scene' = scene, scene.isSingle
      PROVE  ToolOK' /\ tool.segments <= tool'.segments /\ tool'.phase = tool.phase
  <2>1. /\ tool' \in [phase : Phase, process : Proc \cup {NoProcess},
                      segments : 0..scene.length, isFinished : BOOLEAN]
        /\ tool'.segments = tool.segments /\ tool'.phase = tool.phase
    BY <1>1, <1>5
  <2> QED
    BY <1>1, <1>5, <2>1 DEF ToolOK
<1>6. ASSUME NEW p \in Proc, OnSingleInterest(p) PROVE ToolMoves
  <2>1. /\ tool' = [tool EXCEPT !.isFinished = TRUE] /\ call' = call /\ scene' = scene
        /\ scene.isSingle
        /\ Deliver(p, Whole, NoBlock) \/ UNCHANGED vars
    BY <1>6 DEF OnSingleInterest, RepoIdle
  <2>2. Whole \in Segment /\ NoBlock \in FinalBlock
    BY DEF Segment, FinalBlock
  <2> QED
    BY <1>5, <2>1, <2>2 DEF ToolMoves
<1>7. ASSUME NEW s \in Segment, OthersAsk(s) PROVE ToolMoves
  <2>1. call' = call /\ scene' = scene /\ UNCHANGED vars /\ scene.length > 0
    BY <1>7 DEF OthersAsk, RepoIdle
  <2>2. CASE s # Whole /\ tool' = Prepared(s)
    BY <1>2, <2>1, <2>2 DEF ToolMoves, Segment
  <2>3. CASE scene.isSingle /\ tool' = [tool EXCEPT !.isFinished = TRUE]
    BY <1>5, <2>1, <2>3 DEF ToolMoves
  <2> QED
    BY <1>7, <2>2, <2>3 DEF OthersAsk
<1> QED
  BY <1>3, <1>4, <1>6, <1>7

LEMMA ToolStepMoves == ASSUME ToolOK, ToolStep PROVE ToolMoves
  BY CommandMoves, AnswerMoves DEF ToolStep

-----------------------------------------------------------------------------
(* What a step of the repo does to the Data at the validator, the names of the processes
   and the packets in RepoStorage. *)
Keeps ==
  /\ arrived' \subseteq arrived
  /\ \A q \in Live' : processes'[q].name = File \/ (q \in Live /\ processes'[q].name = processes[q].name)
  /\ \/ stored' = stored
     \/ \E p \in Live, s \in Segment, f \in FinalBlock :
          <<p, s, f>> \in arrived /\ stored' = stored \cup {<<processes[p].name, s, p>>}

LEMMA NothingStoredKeeps ==
  ASSUME NothingStored, Quiet
  PROVE  Keeps
  BY DEF NothingStored, Quiet, Keeps

LEMMA InsertKeeps ==
  ASSUME TypeOK, NEW p \in Proc, NEW c \in Command, c.name = File,
         InsertSingle(p, c) \/ InsertSegmented(p, c)
  PROVE  Keeps
<1>1. UNCHANGED <<arrived, stored>>
  BY DEF InsertSingle, InsertSegmented
<1>2. PICK info : SetProcess(p, info) /\ info.name = File
  <2>1. NewInfo(c).name = File
    BY DEF NewInfo
  <2>2. CASE InsertSingle(p, c)
    BY <2>1, <2>2 DEF InsertSingle
  <2>3. CASE InsertSegmented(p, c)
    <3>1. PICK start, credit, next, queue, retries, noEnd :
            SetProcess(p, [NewInfo(c) EXCEPT !.start = start, !.credit = credit, !.next = next,
                             !.queue = queue, !.retries = retries, !.noEnd = noEnd])
      BY <2>3, Zenon DEF InsertSegmented
    <3>2. [NewInfo(c) EXCEPT !.start = start, !.credit = credit, !.next = next,
             !.queue = queue, !.retries = retries, !.noEnd = noEnd].name = File
      BY <2>1 DEF NewInfo
    <3> QED
      BY <3>1, <3>2
  <2> QED
    BY <2>2, <2>3
<1>3. \A q \in Live' : processes'[q].name = File \/ (q \in Live /\ processes'[q].name = processes[q].name)
  BY <1>2 DEF SetProcess, Live
<1> QED
  BY <1>1, <1>3 DEF Keeps

LEMMA StoresKeeps ==
  ASSUME TypeOK, Window, NEW p \in Proc, NEW s \in Segment, NEW f \in FinalBlock,
         SegmentValidated(p, s, f) \/ (s = Whole /\ DataValidated(p, f))
  PROVE  Keeps
<1>1. arrived' \subseteq arrived /\ <<p, s, f>> \in arrived /\ p \in Live
  BY DEF SegmentValidated, DataValidated
<1>2. stored' = stored \/ stored' = stored \cup {<<processes[p].name, s, p>>}
  <2>1. CASE SegmentValidated(p, s, f)
    <3>1. f # NoSegment /\ stored' = stored \cup {<<Counted(p, f).name, s, p>>}
      BY <2>1 DEF SegmentValidated
    <3> QED
      BY <1>1, <3>1, CountedOK
  <2>2. CASE s = Whole /\ DataValidated(p, f)
    BY <2>2 DEF DataValidated
  <2> QED
    BY <2>1, <2>2
<1>3. PICK new : SetProcess(p, new) /\ new.name = processes[p].name
  <2>1. CASE SegmentValidated(p, s, f)
    BY <2>1, SegmentValidatedEffect
  <2>2. CASE s = Whole /\ DataValidated(p, f)
    <3>1. SetProcess(p, [processes[p] EXCEPT !.insertNum = 1])
      BY <2>2 DEF DataValidated
    <3>2. [processes[p] EXCEPT !.insertNum = 1].name = processes[p].name
      BY <1>1 DEF TypeOK, InfoOK
    <3> QED
      BY <3>1, <3>2
  <2> QED
    BY <2>1, <2>2
<1>4. \A q \in Live' : q \in Live /\ processes'[q].name = processes[q].name
  BY <1>1, <1>3 DEF SetProcess, Live
<1> QED
  BY <1>1, <1>2, <1>4 DEF Keeps

LEMMA RepoStepKeeps ==
  ASSUME TypeOK, Window, RepoStep
  PROVE  Keeps
<1>0. PICK p \in Proc :
    \/ RepoTakesInsert(p) \/ RepoTakesCheck(p) \/ NoEndTimeIsOver(p) \/ RepoDeletes(p)
    \/ \E s \in Segment :
         \/ RepoRetries(p, s) \/ RepoGivesUp(p, s)
         \/ \E f \in FinalBlock :
              \/ RepoStores(p, s, f) \/ RepoRefuses(p, s, f) \/ RepoDrops(p, s, f)
              \/ RepoThrows(p, s, f)
  BY DEF RepoStep
<1>1. Whole \in Segment /\ NoBlock \in FinalBlock
  BY DEF Segment, FinalBlock
<1>2. CASE RepoTakesInsert(p)
  <2>1. PICK single \in BOOLEAN :
          \/ RejectCommand(InsertCommand(single))
          \/ InsertSingle(p, InsertCommand(single)) \/ InsertSegmented(p, InsertCommand(single))
    <3>1. CASE scene.isSingle
      BY <1>2, <3>1 DEF RepoTakesInsert, InsertCommand
    <3>2. CASE ~scene.isSingle
      BY <1>2, <3>2 DEF RepoTakesInsert, InsertCommand
    <3> QED
      BY <3>1, <3>2
  <2>2. InsertCommand(single) \in Command /\ InsertCommand(single).name = File
    BY FileAssumption DEF InsertCommand
  <2>3. CASE RejectCommand(InsertCommand(single))
    BY <2>3 DEF RejectCommand, Keeps, Live
  <2> QED
    BY <2>1, <2>2, <2>3, InsertKeeps
<1>3. CASE RepoTakesCheck(p) \/ NoEndTimeIsOver(p) \/ RepoDeletes(p)
  <2>1. Check(p) \/ NoEndTimePasses(p) \/ DeleteProcess(p)
    BY <1>3 DEF RepoTakesCheck, NoEndTimeIsOver, RepoDeletes
  <2> QED
    BY <1>1, <2>1, QuietSteps, NothingStoredSteps, NothingStoredKeeps
<1>4. ASSUME NEW s \in Segment, RepoRetries(p, s) \/ RepoGivesUp(p, s)
      PROVE  Keeps
  <2>1. Retry(p, s) \/ GiveUp(p, s)
    BY <1>4 DEF RepoRetries, RepoGivesUp
  <2> QED
    BY <1>1, <2>1, QuietSteps, NothingStoredSteps, NothingStoredKeeps
<1>5. ASSUME NEW s \in Segment, NEW f \in FinalBlock,
             RepoRefuses(p, s, f) \/ RepoDrops(p, s, f) \/ RepoThrows(p, s, f)
      PROVE  Keeps
  <2>1. Refused(p, s, f) \/ LateData(p, s, f) \/ DataThrows(p, s, f)
    BY <1>5 DEF RepoRefuses, RepoDrops, RepoThrows
  <2> QED
    BY <2>1, QuietSteps, NothingStoredSteps, NothingStoredKeeps
<1>6. ASSUME NEW s \in Segment, NEW f \in FinalBlock, RepoStores(p, s, f) PROVE Keeps
  BY <1>6, StoresKeeps DEF RepoStores
<1> QED
  BY <1>0, <1>2, <1>3, <1>4, <1>5, <1>6

(* What a step of the repo does to the tool: nothing but a response. *)
LEMMA RepoStepResponds ==
  ASSUME RepoStep
  PROVE  /\ UNCHANGED <<tool, scene>>
         /\ \/ call' = call
            \/ call'.insertNum = 0 /\ call'.process \in Proc \cup {NoProcess}
            \/ \E p \in Live : p \in Proc /\ call'.process = p /\ call'.insertNum = processes[p].insertNum
<1>1. UNCHANGED <<tool, scene>>
  BY ZenonT(40) DEF RepoStep, RepoTakesInsert, RepoTakesCheck, NoEndTimeIsOver, RepoDeletes, RepoRetries,
         RepoGivesUp, RepoStores, RepoRefuses, RepoDrops, RepoThrows, ToolIdle, toolVars
<1>2. ASSUME NEW p \in Proc, RepoTakesInsert(p)
      PROVE  call'.insertNum = 0 /\ call'.process \in Proc \cup {NoProcess}
  <2>1. call' = Response(p, 100, 0) \/ \E status : call' = Response(NoProcess, status, 0)
    BY <1>2 DEF RepoTakesInsert
  <2> QED
    BY <2>1, CallMessages
<1>3. ASSUME NEW p \in Proc, RepoTakesCheck(p)
      PROVE  /\ call'.process = p
             /\ call'.insertNum = IF p \in Live THEN processes[p].insertNum ELSE 0
  BY <1>3, CallMessages DEF RepoTakesCheck
<1>4. call' = call \/ \E p \in Proc : RepoTakesInsert(p) \/ RepoTakesCheck(p)
  BY DEF RepoStep, NoEndTimeIsOver, RepoDeletes, RepoRetries,
         RepoGivesUp, RepoStores, RepoRefuses, RepoDrops, RepoThrows, ToolIdle, toolVars
<1> QED
  BY <1>1, <1>2, <1>3, <1>4

-----------------------------------------------------------------------------
(* The inductive invariant.  Everything in the repo and at its validator is of the file,
   and of a segment that the tool has read; the InsertNum on its way to the tool is at
   most the number of segments that its process has stored. *)
StoredFor(p) == {s \in Segment : <<File, s, p>> \in stored}
Named == \A p \in Live : processes[p].name = File
StoredHere == stored \subseteq {File} \X Segment \X Proc
Brought(p, s) == <<File, s, p>> \in stored \/ \E f \in FinalBlock : <<p, s, f>> \in arrived
AreRead ==
  ~scene.isSingle =>
    \A p \in Proc, s \in Segment : Brought(p, s) => s \in 0..(tool.segments - 1)
Reported == call.insertNum <= Cardinality(StoredFor(call.process))

Upload == ToolOK /\ Named /\ StoredHere /\ AreRead /\ Reported

LEMMA FiniteStoredFor ==
  \A p : IsFiniteSet(StoredFor(p)) /\ Cardinality(StoredFor(p)) \in Nat
<1>1. IsFiniteSet(Segment)
  BY SegmentNumbers, FS_AddElement DEF Segment
<1> QED
  BY <1>1, FS_Subset, FS_CardinalityType DEF StoredFor

LEMMA InitUpload == PutFileInit => Upload /\ UploadIsStored
<1> SUFFICES ASSUME PutFileInit PROVE Upload /\ UploadIsStored
  OBVIOUS
<1>1. scene \in Scene /\ call = NoCall
      /\ tool = [phase |-> "registering", process |-> NoProcess, segments |-> 0, isFinished |-> FALSE]
  BY DEF PutFileInit
<1>2. ToolOK
  <2>1. tool \in [phase : Phase, process : Proc \cup {NoProcess}, segments : 0..scene.length,
                  isFinished : BOOLEAN]
    BY <1>1, SceneOK DEF Phase
  <2> QED
    BY <1>1, <2>1, CallMessages DEF ToolOK
<1>3. Named /\ StoredHere /\ AreRead
  BY DEF PutFileInit, Init, Live, Named, StoredHere, AreRead, Brought
<1>4. Reported
  BY <1>1, CallMessages, FiniteStoredFor DEF Reported
<1> QED
  BY <1>1, <1>2, <1>3, <1>4 DEF Upload, UploadIsStored

(* Nothing that is stored gets lost, so what was counted stays. *)
LEMMA ReportedStays ==
  ASSUME stored \subseteq stored', NEW p, NEW n \in Nat, n <= Cardinality(StoredFor(p))
  PROVE  n <= Cardinality(StoredFor(p)')
<1>1. StoredFor(p) \subseteq StoredFor(p)'
  BY DEF StoredFor
<1>2. IsFiniteSet(StoredFor(p)') /\ Cardinality(StoredFor(p)') \in Nat
  <2>1. IsFiniteSet(Segment)
    BY SegmentNumbers, FS_AddElement DEF Segment
  <2>2. StoredFor(p)' \subseteq Segment
    BY DEF StoredFor
  <2> QED
    BY <2>1, <2>2, FS_Subset, FS_CardinalityType
<1>3. Cardinality(StoredFor(p)) <= Cardinality(StoredFor(p)')
  BY <1>1, <1>2, FS_Subset
<1> QED
  BY <1>2, <1>3, FiniteStoredFor

LEMMA ToolStepUpload ==
  ASSUME TypeOK, Upload, ToolMoves
  PROVE  Upload' /\ stored' = stored
<1>1. ToolOK /\ ToolOK' /\ scene' = scene /\ tool.segments <= tool'.segments
  BY DEF Upload, ToolMoves
<1>2. tool.segments \in Nat /\ tool'.segments \in Nat
  BY <1>1, SceneOK DEF ToolOK
<1>3. stored' = stored /\ UNCHANGED processes
  BY DEF ToolMoves, Deliver, vars
<1>4. Named' /\ StoredHere'
  BY <1>3 DEF Upload, Named, StoredHere, Live
<1>5. AreRead'
  <2>1. SUFFICES ASSUME ~scene.isSingle, NEW p \in Proc, NEW s \in Segment, Brought(p, s)'
                 PROVE  s \in 0..(tool'.segments - 1)
    BY <1>1 DEF AreRead
  <2>2. CASE Brought(p, s)
    <3>1. s \in 0..(tool.segments - 1)
      BY <2>1, <2>2 DEF Upload, AreRead
    <3> QED
      BY <1>1, <1>2, <3>1
  <2>3. CASE ~Brought(p, s)
    <3>1. PICK q \in Proc, t \in Segment, f \in FinalBlock :
            Deliver(q, t, f) /\ t \in 0..(tool'.segments - 1)
      BY <1>1, <2>1, <2>3 DEF ToolMoves, vars, Brought
    <3>2. arrived' = arrived \cup {<<q, t, f>>}
      BY <3>1 DEF Deliver
    <3>3. p = q /\ s = t
      BY <1>3, <2>1, <2>3, <3>2 DEF Brought
    <3> QED
      BY <3>1, <3>3
  <2> QED
    BY <2>2, <2>3
<1>6. Reported'
  <2>1. call' = call \/ call'.insertNum = 0
    BY DEF ToolMoves
  <2>2. \A p : StoredFor(p)' = StoredFor(p)
    BY <1>3 DEF StoredFor
  <2>3. CASE call' = call
    BY <2>2, <2>3 DEF Upload, Reported
  <2>4. CASE call'.insertNum = 0
    BY <2>2, <2>4, FiniteStoredFor DEF Reported
  <2> QED
    BY <2>1, <2>3, <2>4
<1> QED
  BY <1>1, <1>3, <1>4, <1>5, <1>6 DEF Upload

LEMMA RepoStepUpload ==
  ASSUME TypeOK, Window, Counts, Upload, RepoStep
  PROVE  Upload' /\ stored \subseteq stored' /\ UNCHANGED <<tool, scene>>
<1>1. Keeps /\ UNCHANGED <<tool, scene>>
  BY RepoStepKeeps, RepoStepResponds
<1>2. stored \subseteq stored'
  BY <1>1 DEF Keeps
<1>3. Named'
  BY <1>1 DEF Keeps, Upload, Named
<1>4. ASSUME NEW x \in stored', x \notin stored
      PROVE  \E p \in Proc, s \in Segment, f \in FinalBlock : x = <<File, s, p>> /\ <<p, s, f>> \in arrived
  <2>1. PICK p \in Live, s \in Segment, f \in FinalBlock :
          <<p, s, f>> \in arrived /\ stored' = stored \cup {<<processes[p].name, s, p>>}
    BY <1>1, <1>4 DEF Keeps
  <2>2. p \in Proc /\ processes[p].name = File
    BY DEF TypeOK, Upload, Named
  <2> QED
    BY <1>4, <2>1, <2>2
<1>5. StoredHere'
  <2>1. ASSUME NEW x \in stored' PROVE x \in {File} \X Segment \X Proc
    <3>1. CASE x \in stored
      BY <3>1 DEF Upload, StoredHere
    <3>2. CASE x \notin stored
      <4>1. PICK p \in Proc, s \in Segment : x = <<File, s, p>>
        BY <1>4, <3>2
      <4> QED
        BY <4>1
    <3> QED
      BY <3>1, <3>2
  <2> QED
    BY <2>1 DEF StoredHere
<1>6. AreRead'
  <2>1. ASSUME NEW p \in Proc, NEW s \in Segment, Brought(p, s)' PROVE Brought(p, s)
    <3>1. CASE <<File, s, p>> \in stored' /\ <<File, s, p>> \notin stored
      <4>1. PICK q \in Proc, t \in Segment, f \in FinalBlock :
              <<File, s, p>> = <<File, t, q>> /\ <<q, t, f>> \in arrived
        BY <1>4, <3>1
      <4> QED
        BY <4>1 DEF Brought
    <3>2. CASE <<File, s, p>> \notin stored' \/ <<File, s, p>> \in stored
      BY <1>1, <2>1, <3>2 DEF Brought, Keeps
    <3> QED
      BY <3>1, <3>2
  <2> QED
    BY <1>1, <2>1 DEF Upload, AreRead
<1>7. call.insertNum \in Nat /\ call.process \in Proc \cup {NoProcess}
  BY DEF Upload, ToolOK
<1>8. ToolOK' /\ Reported'
  <2>1. CASE call' = call
    <3>0. PICK p \in Proc \cup {NoProcess}, n \in Nat : p = call.process /\ n = call.insertNum
      BY <1>7
    <3>1. n <= Cardinality(StoredFor(p)')
      BY <1>2, <3>0, ReportedStays DEF Upload, Reported
    <3>2. Reported'
      BY <2>1, <3>0, <3>1 DEF Reported, StoredFor
    <3> QED
      BY <1>1, <2>1, <3>2 DEF Upload, ToolOK
  <2>2. CASE call'.insertNum = 0 /\ call'.process \in Proc \cup {NoProcess}
    <3>1. \A p : 0 <= Cardinality(StoredFor(p)')
      BY <1>2, FiniteStoredFor, ReportedStays
    <3>2. Reported'
      BY <2>2, <3>1 DEF Reported, StoredFor
    <3> QED
      BY <1>1, <2>2, <3>2 DEF Upload, ToolOK
  <2>3. ASSUME NEW p \in Live, p \in Proc, call'.process = p, call'.insertNum = processes[p].insertNum
        PROVE  ToolOK' /\ Reported'
    <3>1. processes[p].insertNum \in Nat
      BY DEF TypeOK, InfoOK
    <3>2. processes[p].insertNum = Cardinality(StoredFor(p))
      <4>1. processes[p].name = File
        BY DEF Upload, Named
      <4>2. StoredBy(p) = StoredFor(p)
        BY <4>1 DEF StoredBy, StoredFor
      <4> QED
        BY <4>2 DEF Counts, InsertNumIsStored
    <3>3. processes[p].insertNum <= Cardinality(StoredFor(p)')
      BY <1>2, <3>1, <3>2, ReportedStays
    <3>4. Reported'
      BY <2>3, <3>3 DEF Reported, StoredFor
    <3> QED
      BY <1>1, <2>3, <3>1, <3>4 DEF Upload, ToolOK
  <2> QED
    BY <2>1, <2>2, <2>3, RepoStepResponds
<1> QED
  BY <1>1, <1>2, <1>3, <1>5, <1>6, <1>8 DEF Upload

(* As many different segments below the end as the file has are all of them. *)
LEMMA InferenceIsRight ==
  ASSUME Upload, IsComplete(call.insertNum)
  PROVE  ~scene.isSingle => \A s \in 0..(scene.length - 1) : Has(File, s)
<1> SUFFICES ASSUME ~scene.isSingle PROVE \A s \in 0..(scene.length - 1) : Has(File, s)
  OBVIOUS
<1>1. scene.length \in 0..(Word - 1) /\ scene.length \in Nat
  BY SceneOK DEF Upload, ToolOK
<1>2. tool.segments = scene.length /\ call.insertNum = tool.segments
  BY DEF IsComplete, Upload, ToolOK
<1>3. PICK p : p = call.process
  OBVIOUS
<1>4. \A s \in StoredFor(p) : s \in 0..(scene.length - 1) /\ p \in Proc
  <2>1. ASSUME NEW s \in StoredFor(p) PROVE p \in Proc
    BY <2>1 DEF StoredFor, Upload, StoredHere
  <2>2. ASSUME NEW s \in StoredFor(p) PROVE s \in 0..(tool.segments - 1)
    BY <2>1, <2>2 DEF StoredFor, Upload, AreRead, Brought
  <2> QED
    BY <1>2, <2>1, <2>2
<1>5. IsFiniteSet(0..(scene.length - 1)) /\ Cardinality(0..(scene.length - 1)) = scene.length
  BY <1>1, FS_Interval
<1>6. scene.length <= Cardinality(StoredFor(p))
  BY <1>2, <1>3 DEF Upload, Reported
<1>7. StoredFor(p) = 0..(scene.length - 1)
  <2>1. StoredFor(p) \subseteq 0..(scene.length - 1)
    BY <1>4
  <2>2. Cardinality(StoredFor(p)) \in Nat
    BY FiniteStoredFor
  <2>3. Cardinality(StoredFor(p)) <= scene.length
        /\ (Cardinality(StoredFor(p)) = scene.length => StoredFor(p) = 0..(scene.length - 1))
    BY <1>5, <2>1, FS_Subset
  <2> QED
    BY <1>1, <1>6, <2>2, <2>3
<1> QED
  BY <1>4, <1>7 DEF StoredFor, Has

LEMMA NextUpload ==
  ASSUME TypeOK, Window, Counts, Upload, UploadIsStored, [PutFileNext]_putVars
  PROVE  Upload' /\ UploadIsStored'
<1>1. CASE UNCHANGED putVars
  BY <1>1 DEF putVars, toolVars, vars, Upload, ToolOK, Named, StoredHere, AreRead, Brought,
              Reported, StoredFor, UploadIsStored, Live, Has
<1>2. CASE ToolStep
  <2>1. ToolMoves /\ Upload' /\ stored' = stored /\ scene' = scene
    BY <1>2, ToolStepMoves, ToolStepUpload DEF Upload, ToolMoves
  <2>2. ASSUME tool'.phase = "done", ~scene.isSingle PROVE \A s \in 0..(scene.length - 1) : Has(File, s)
    <3>1. CASE tool.phase = "done"
      BY <2>2, <3>1 DEF UploadIsStored
    <3>2. CASE tool.phase # "done"
      BY <2>1, <2>2, <3>2, InferenceIsRight DEF ToolMoves
    <3> QED
      BY <3>1, <3>2
  <2> QED
    BY <2>1, <2>2 DEF UploadIsStored, Has
<1>3. CASE RepoStep
  <2>1. Upload' /\ stored \subseteq stored' /\ UNCHANGED <<tool, scene>>
    BY <1>3, RepoStepUpload
  <2> QED
    BY <2>1 DEF UploadIsStored, Has
<1> QED
  BY <1>1, <1>2, <1>3 DEF PutFileNext

-----------------------------------------------------------------------------
(* Seen from the repo the tool is one of the producers and clients that WriteHandle was
   checked and proved against: what is proved of WriteHandle holds of every upload. *)
THEOREM PutFileIsWriteHandle == PutFileSpec => Spec
<1>1. PutFileInit => Init
  BY DEF PutFileInit
<1>2. PutFileInit => TypeOK /\ ToolOK
  BY <1>1, InitTypeOK, InitUpload DEF Upload
<1>3. TypeOK /\ ToolOK /\ [PutFileNext]_putVars => TypeOK' /\ ToolOK' /\ [Next]_vars
  <2> SUFFICES ASSUME TypeOK, ToolOK, [PutFileNext]_putVars PROVE ToolOK' /\ [Next]_vars
    BY NextTypeOK
  <2>1. CASE UNCHANGED putVars
    BY <2>1 DEF putVars, toolVars, vars, ToolOK
  <2>2. CASE ToolStep
    <3>1. ToolMoves
      BY <2>2, ToolStepMoves
    <3> QED
      BY <3>1 DEF ToolMoves, Next
  <2>3. CASE RepoStep
    <3>1. ToolOK'
      <4>1. CASE call' = call
        BY <2>3, <4>1, RepoStepResponds DEF ToolOK
      <4>2. CASE call'.insertNum = 0 /\ call'.process \in Proc \cup {NoProcess}
        BY <2>3, <4>2, RepoStepResponds DEF ToolOK
      <4>3. ASSUME NEW p \in Live, p \in Proc, call'.process = p, call'.insertNum = processes[p].insertNum
            PROVE  ToolOK'
        <5>1. processes[p].insertNum \in Nat
          BY DEF TypeOK, InfoOK
        <5> QED
          BY <2>3, <4>3, <5>1, RepoStepResponds DEF ToolOK
      <4> QED
        BY <2>3, <4>1, <4>2, <4>3, RepoStepResponds
    <3> QED
      BY <2>3, <3>1, RepoStepIsNext
  <2> QED
    BY <2>1, <2>2, <2>3 DEF PutFileNext
<1> QED
  BY <1>1, <1>2, <1>3, PTL DEF PutFileSpec, Spec

(* When ndnputfile ends with success, every segment of the file is in the repo, however
   many checks it took, in whatever order Interests and Data came, whatever was lost. *)
THEOREM UploadedIsStored == PutFileSpec => []UploadIsStored
<1>1. PutFileSpec => [](TypeOK /\ Window /\ Counts)
  BY PutFileIsWriteHandle, TypeCorrect, WindowInvariant, CountsInvariant, PTL
<1> QED
  BY <1>1, InitUpload, NextUpload, PTL DEF PutFileSpec

-----------------------------------------------------------------------------
(* The reader.  What came from the tool, what is in the repo and what the stored packets say of the
   end of the file: a single packet for the option -s, and a FinalBlockId of the last
   segment or none otherwise. *)
FinalIsKnown(f) == f \in {NoBlock, scene.length - 1}
FromTool ==
  \A p \in Proc, s \in Segment, f \in FinalBlock : <<p, s, f>> \in arrived =>
    IF scene.isSingle THEN s = Whole ELSE FinalIsKnown(f)
SingleIsWhole ==
  scene.isSingle => \A s \in Segment, p \in Proc : <<File, s, p>> \in stored => s = Whole
KeptIsStored ==
  /\ \A s \in Segment, p \in Proc : <<File, s, p>> \in stored => s \in DOMAIN kept
  /\ ~scene.isSingle => \A s \in DOMAIN kept : FinalIsKnown(kept[s])

Packets == FromTool /\ SingleIsWhole /\ KeptIsStored

(* The reader itself.  A number in its Interest is the number of blocks it has written. *)
GetOK ==
  /\ get \in [want : Int, next : Nat, isFirst : BOOLEAN, isFinished : BOOLEAN, retries : Nat]
  /\ FitsUpload => output \in Seq(Segment)
  /\ get.next = 0 => get.want = None /\ output = <<>> /\ get.isFirst
  /\ get.isFinished => get.want = None /\ get.next # 0

ReadsSegments ==
  FitsUpload /\ ~scene.isSingle =>
    /\ \A i \in DOMAIN output : output[i] = i - 1
    /\ get.want = Prefix => get.next = 1 /\ output = <<>> /\ get.isFirst
    /\ get.want >= 0 => get.want = Len(output) /\ get.next = get.want + 1 /\ ~get.isFirst
    /\ get.isFinished => Len(output) = scene.length

ReadsWhole ==
  FitsUpload /\ scene.isSingle =>
    /\ \A i \in DOMAIN output : output[i] = Whole
    /\ ~get.isFinished

Reads == GetOK /\ ReadsSegments /\ ReadsWhole

-----------------------------------------------------------------------------
(* What a step of the tool adds to the Data at the validator. *)
LEMMA ToolStepSends ==
  ASSUME TypeOK, ToolOK, ToolStep
  PROVE  /\ UNCHANGED <<kept, scene, stored>>
         /\ \/ arrived' = arrived
            \/ \E p \in Proc, s \in Segment, f \in FinalBlock :
                 /\ arrived' = arrived \cup {<<p, s, f>>}
                 /\ IF scene.isSingle THEN s = Whole ELSE FinalIsKnown(f)
<1>1. ToolMoves
  BY ToolStepMoves
<1>2. UNCHANGED <<kept, scene>>
  BY DEF ToolStep, RegisterSucceeds, GivesUp, OnInsertCommandResponse, StartCheckCommand,
         OnCheckCommandResponse, ReadThrows, OnSingleInterest, OnInterest, LeaveInterest, OthersAsk
<1>3. stored' = stored
  BY <1>1 DEF ToolMoves, Deliver, vars
<1>4. Whole \in Segment /\ NoBlock \in FinalBlock
  BY DEF Segment, FinalBlock
<1>5. CASE \E p \in Proc : \E s \in SegmentNo : OnInterest(p, s)
  <2>1. PICK p \in Proc : \E s \in SegmentNo : OnInterest(p, s)
    BY <1>5
  <2>2. PICK s \in SegmentNo : OnInterest(p, s)
    BY <2>1
  <2>3. arrived' = arrived \cup {<<p, s, FinalBlockIdOf(tool')>>} /\ ~scene.isSingle
    BY <2>2 DEF OnInterest, Deliver
  <2>4. ToolOK' /\ scene' = scene
    BY <1>1 DEF ToolMoves
  <2>5. FinalIsKnown(FinalBlockIdOf(tool'))
    BY <2>3, <2>4 DEF ToolOK, FinalBlockIdOf, FinalIsKnown
  <2>6. FinalBlockIdOf(tool') \in FinalBlock /\ s \in Segment
    BY <2>3, <2>4, SceneOK DEF ToolOK, FinalBlockIdOf, FinalBlock, SegmentNo, Segment
  <2> QED
    BY <1>2, <1>3, <2>3, <2>5, <2>6
<1>6. CASE \E p \in Proc : OnSingleInterest(p)
  <2>1. PICK p \in Proc : OnSingleInterest(p)
    BY <1>6
  <2>2. scene.isSingle
        /\ (arrived' = arrived \cup {<<p, Whole, NoBlock>>} \/ arrived' = arrived)
    BY <2>1 DEF OnSingleInterest, Deliver, RepoIdle, vars
  <2> QED
    BY <1>2, <1>3, <1>4, <2>2
<1>7. CASE \/ RegisterSucceeds \/ GivesUp \/ OnInsertCommandResponse \/ StartCheckCommand
           \/ OnCheckCommandResponse \/ ReadThrows
           \/ \E p \in Proc : \E s \in SegmentNo : LeaveInterest(p, s)
           \/ \E s \in Segment : OthersAsk(s)
  <2>1. UNCHANGED vars
    BY <1>7 DEF RegisterSucceeds, GivesUp, OnInsertCommandResponse, StartCheckCommand,
         OnCheckCommandResponse, ReadThrows, LeaveInterest, OthersAsk, RepoIdle
  <2> QED
    BY <1>2, <2>1 DEF vars
<1> QED
  BY <1>5, <1>6, <1>7 DEF ToolStep

(* What a step of the repo does to the packets and to their FinalBlockIds. *)
LEMMA RepoStepStores ==
  ASSUME TypeOK, Window, Named, RepoStep
  PROVE  /\ arrived' \subseteq arrived /\ scene' = scene
         /\ \/ UNCHANGED <<kept, stored>>
            \/ \E p \in Proc, s \in Segment, f \in FinalBlock :
                 /\ <<p, s, f>> \in arrived
                 /\ kept' = [t \in DOMAIN kept \cup {s} |-> IF t = s THEN f ELSE kept[t]]
                 /\ stored' \subseteq stored \cup {<<File, s, p>>}
<1>1. arrived' \subseteq arrived /\ scene' = scene
  BY RepoStepKeeps, RepoStepResponds DEF Keeps
<1>0. PICK p \in Proc :
    \/ RepoTakesInsert(p) \/ RepoTakesCheck(p) \/ NoEndTimeIsOver(p) \/ RepoDeletes(p)
    \/ \E s \in Segment :
         \/ RepoRetries(p, s) \/ RepoGivesUp(p, s)
         \/ \E f \in FinalBlock :
              \/ RepoStores(p, s, f) \/ RepoRefuses(p, s, f) \/ RepoDrops(p, s, f)
              \/ RepoThrows(p, s, f)
  BY DEF RepoStep
<1>2. CASE RepoTakesInsert(p) \/ RepoTakesCheck(p) \/ NoEndTimeIsOver(p) \/ RepoDeletes(p)
  <2>1. UNCHANGED <<kept, stored>>
    BY <1>2 DEF RepoTakesInsert, RejectCommand, InsertSingle, InsertSegmented, RepoTakesCheck, Check,
                NoEndTimeIsOver, NoEndTimePasses, RepoDeletes, DeleteProcess, ToolIdle, toolVars
  <2> QED
    BY <1>1, <2>1
<1>3. ASSUME NEW s \in Segment, NEW f \in FinalBlock,
             \/ RepoRetries(p, s) \/ RepoGivesUp(p, s) \/ RepoRefuses(p, s, f)
             \/ RepoDrops(p, s, f) \/ RepoThrows(p, s, f)
      PROVE  UNCHANGED <<kept, stored>>
  BY <1>3 DEF RepoRetries, Retry, RepoGivesUp, GiveUp, RepoRefuses, Refused, RepoDrops, LateData,
              RepoThrows, DataThrows, Exit, ToolIdle, toolVars
<1>4. ASSUME NEW s \in Segment, NEW f \in FinalBlock, RepoStores(p, s, f)
      PROVE  /\ <<p, s, f>> \in arrived
             /\ kept' = [t \in DOMAIN kept \cup {s} |-> IF t = s THEN f ELSE kept[t]]
             /\ stored' \subseteq stored \cup {<<File, s, p>>}
  <2>1. <<p, s, f>> \in arrived /\ p \in Live
    BY <1>4 DEF RepoStores, SegmentValidated, DataValidated
  <2>2. processes[p].name = File
    BY <2>1 DEF Named
  <2>3. stored' \subseteq stored \cup {<<File, s, p>>}
    <3>1. CASE SegmentValidated(p, s, f)
      <4>1. f # NoSegment /\ stored' = stored \cup {<<Counted(p, f).name, s, p>>}
        BY <3>1 DEF SegmentValidated
      <4> QED
        BY <2>1, <2>2, <4>1, CountedOK
    <3>2. CASE s = Whole /\ DataValidated(p, f)
      BY <2>2, <3>2 DEF DataValidated
    <3> QED
      BY <1>4, <3>1, <3>2 DEF RepoStores
  <2> QED
    BY <1>4, <2>1, <2>3 DEF RepoStores
<1>5. NoBlock \in FinalBlock
  BY DEF FinalBlock
<1> QED
  BY <1>0, <1>1, <1>2, <1>3, <1>4, <1>5

(* A packet is stored with what it brings: all of it stays as the tool sends it. *)
LEMMA NextPackets ==
  ASSUME TypeOK, Window, Upload, Packets, [PutFileNext]_putVars
  PROVE  Packets'
<1>1. CASE UNCHANGED putVars
  BY <1>1 DEF putVars, toolVars, vars, Packets, FromTool, SingleIsWhole, KeptIsStored, FinalIsKnown
<1>2. CASE ToolStep
  <2>1. ToolOK
    BY DEF Upload
  <2>2. /\ UNCHANGED <<kept, scene, stored>>
        /\ \/ arrived' = arrived
           \/ \E p \in Proc, s \in Segment, f \in FinalBlock :
                /\ arrived' = arrived \cup {<<p, s, f>>}
                /\ IF scene.isSingle THEN s = Whole ELSE FinalIsKnown(f)
    BY <1>2, <2>1, ToolStepSends
  <2>3. SingleIsWhole' /\ KeptIsStored'
    BY <2>2 DEF Packets, SingleIsWhole, KeptIsStored, FinalIsKnown
  <2>4. FromTool'
    <3>1. ASSUME NEW p \in Proc, NEW s \in Segment, NEW f \in FinalBlock, <<p, s, f>> \in arrived'
          PROVE  IF scene.isSingle THEN s = Whole ELSE FinalIsKnown(f)
      BY <2>2, <3>1 DEF Packets, FromTool
    <3> QED
      BY <2>2, <3>1 DEF FromTool, FinalIsKnown
  <2> QED
    BY <2>3, <2>4 DEF Packets
<1>3. CASE RepoStep
  <2>1. /\ arrived' \subseteq arrived /\ scene' = scene
        /\ \/ UNCHANGED <<kept, stored>>
           \/ \E p \in Proc, s \in Segment, f \in FinalBlock :
                /\ <<p, s, f>> \in arrived
                /\ kept' = [t \in DOMAIN kept \cup {s} |-> IF t = s THEN f ELSE kept[t]]
                /\ stored' \subseteq stored \cup {<<File, s, p>>}
    BY <1>3, RepoStepStores DEF Upload
  <2>2. FromTool'
    BY <2>1 DEF Packets, FromTool, FinalIsKnown
  <2>3. CASE UNCHANGED <<kept, stored>>
    BY <2>1, <2>2, <2>3 DEF Packets, SingleIsWhole, KeptIsStored, FinalIsKnown
  <2>4. ASSUME NEW p \in Proc, NEW s \in Segment, NEW f \in FinalBlock, <<p, s, f>> \in arrived,
               kept' = [t \in DOMAIN kept \cup {s} |-> IF t = s THEN f ELSE kept[t]],
               stored' \subseteq stored \cup {<<File, s, p>>}
        PROVE  SingleIsWhole' /\ KeptIsStored'
    <3>1. IF scene.isSingle THEN s = Whole ELSE FinalIsKnown(f)
      BY <2>4 DEF Packets, FromTool
    <3>2. DOMAIN kept' = DOMAIN kept \cup {s}
      BY <2>4
    <3>3. SingleIsWhole'
      BY <2>1, <2>4, <3>1 DEF Packets, SingleIsWhole
    <3>4. \A t \in Segment, q \in Proc : <<File, t, q>> \in stored' => t \in DOMAIN kept'
      BY <2>4, <3>2 DEF Packets, KeptIsStored
    <3>5. ~scene.isSingle => \A t \in DOMAIN kept' : FinalIsKnown(kept'[t])
      BY <2>4, <3>1, <3>2 DEF Packets, KeptIsStored
    <3> QED
      BY <2>1, <3>3, <3>4, <3>5 DEF KeptIsStored, FinalIsKnown
  <2> QED
    BY <2>1, <2>2, <2>3, <2>4 DEF Packets
<1> QED
  BY <1>1, <1>2, <1>3 DEF PutFileNext

-----------------------------------------------------------------------------
(* A set of numbers has a least one. *)
LEMMA LeastOfNumbers ==
  ASSUME NEW S \in SUBSET Nat, S # {}
  PROVE  \E s \in S : \A t \in S : s <= t
<1> DEFINE R == {ss \in Nat \X Nat : ss[1] < ss[2]}
<1>1. IsWellFoundedOn(R, Nat)
  BY NatLessThanWellFounded DEF OpToRel
<1>2. \E s \in S : \A t \in S : ~ (<<t, s>> \in R)
  <2> HIDE DEF R
  <2> QED
    BY <1>1, WFMin
<1>3. PICK s \in S : \A t \in S : ~ (<<t, s>> \in R)
  BY <1>2
<1>4. ASSUME NEW t \in S PROVE s <= t
  <2>1. ~(t < s)
    BY <1>3
  <2> QED
    BY <2>1
<1> QED
  BY <1>4

(* An Interest is answered with the packet of its name, the first one of the file with
   the least number the repo has. *)
LEMMA WhatIsReceived ==
  ASSUME StoredHere, AreRead, Packets, scene \in Scene, ToolOK, FitsUpload, Found
  PROVE  /\ ~scene.isSingle =>
              /\ Received \in SegmentNo /\ Received \in DOMAIN kept /\ FinalIsKnown(kept[Received])
              /\ get.want = Prefix \/ (get.want >= 0 /\ Received = get.want)
         /\ scene.isSingle => Received = Whole
<1>1. InRepo \subseteq Segment /\ \A s \in InRepo : \E p \in Proc : <<File, s, p>> \in stored
  BY DEF InRepo, Has
<1>2. Found => InRepo # {}
  BY DEF Found
<1>3. CASE ~scene.isSingle
  <2>1. ASSUME NEW s \in InRepo
        PROVE  s \in SegmentNo /\ s \in DOMAIN kept /\ FinalIsKnown(kept[s])
    <3>1. PICK p \in Proc : s \in Segment /\ <<File, s, p>> \in stored
      BY <1>1
    <3>2. s \in 0..(tool.segments - 1)
      BY <1>3, <3>1 DEF AreRead, Brought
    <3>3. tool.segments \in 0..scene.length /\ scene.length \in 0..(Word - 1) /\ Word \in Nat
      BY SceneOK DEF ToolOK
    <3>4. s \in SegmentNo
      BY <3>2, <3>3 DEF SegmentNo
    <3>5. s \in DOMAIN kept /\ FinalIsKnown(kept[s])
      BY <1>3, <3>1 DEF Packets, KeptIsStored
    <3> QED
      BY <3>4, <3>5
  <2>2. First \in InRepo
    <3>1. First = Leftmost(InRepo)
      BY <1>3 DEF First, FitsUpload, ExpectedBelow
    <3>2. \E s \in InRepo : \A t \in InRepo : s <= t
      <4>1. InRepo \subseteq Int /\ InRepo # {} /\ \A t \in InRepo : t >= 0
        BY <1>2, <2>1 DEF SegmentNo
      <4>2. InRepo \in SUBSET Nat
        BY <4>1
      <4> QED
        BY <4>1, <4>2, LeastOfNumbers
    <3> QED
      BY <3>1, <3>2 DEF Leftmost
  <2>3. get.want = Prefix \/ (get.want >= 0 /\ Received = get.want)
    BY <2>1 DEF Found, Received, SegmentNo
  <2>4. Received \in InRepo
    BY <2>2 DEF Found, Received
  <2> QED
    BY <1>3, <2>1, <2>3, <2>4
<1>4. CASE scene.isSingle
  <2>1. InRepo = {Whole}
    BY <1>1, <1>2, <1>4 DEF Packets, SingleIsWhole
  <2>2. First = Whole
    BY <2>1 DEF First, Leftmost, Rightmost, Whole
  <2> QED
    BY <1>4, <2>1, <2>2 DEF Found, Received
<1> QED
  BY <1>3, <1>4

(* What is appended to the output comes after what was there. *)
LEMMA AppendNext ==
  ASSUME output \in Seq(Segment), NEW s \in Segment
  PROVE  /\ Append(output, s) \in Seq(Segment)
         /\ Len(output) \in Nat /\ Len(Append(output, s)) = Len(output) + 1
         /\ DOMAIN output = 1..Len(output)
         /\ DOMAIN Append(output, s) = 1..(Len(output) + 1)
         /\ \A i \in DOMAIN output : Append(output, s)[i] = output[i]
         /\ Append(output, s)[Len(output) + 1] = s
  OBVIOUS

(* Only segments of the file are written, and what the reader asks for next is what it
   has not written yet. *)
LEMMA GetStepReads ==
  ASSUME StoredHere, AreRead, Packets, scene \in Scene, ToolOK, Reads, GetStep, scene' = scene
  PROVE  Reads'
<1>0. /\ GetOK /\ reading' = reading /\ (FitsUpload' <=> FitsUpload)
      /\ scene' = scene
  BY DEF Reads, GetStep, Run, OnWholeData, OnFirstSegment, OnSegment, OnUnexpectedData, OnTimeout,
         FitsUpload, ExpectedBelow
<1>a. /\ get \in [want : Int, next : Nat, isFirst : BOOLEAN, isFinished : BOOLEAN, retries : Nat]
      /\ get.want \in Int /\ get.next \in Nat
  BY <1>0 DEF GetOK
<1>b. Found => get.next # 0 /\ ~get.isFinished
  <2>1. InRepo \subseteq Segment /\ None \notin Segment
    BY DEF InRepo, Segment, SegmentNo, None, Whole
  <2>2. Found => get.want # None
    BY <2>1 DEF Found, None, Prefix
  <2> QED
    BY <1>0, <2>2 DEF GetOK
<1>c. None \in Int /\ Prefix \in Int /\ Strange \in Int /\ 0 \in Int
      /\ None # Prefix /\ Strange # Prefix /\ ~(None >= 0) /\ ~(Prefix >= 0)
  BY DEF None, Prefix, Strange
<1>1. CASE Run
  <2>1. get' = [get EXCEPT !.want = Prefix, !.next = 1] /\ output' = output /\ get.next = 0
    BY <1>1 DEF Run
  <2>2. /\ get' \in [want : Int, next : Nat, isFirst : BOOLEAN, isFinished : BOOLEAN, retries : Nat]
        /\ get'.want = Prefix /\ get'.next = 1 /\ get'.isFinished = get.isFinished
        /\ get'.isFirst = get.isFirst
    BY <1>a, <1>c, <2>1
  <2>3. output = <<>> /\ ~get.isFinished /\ get.isFirst
    BY <1>0, <2>1 DEF GetOK
  <2>4. GetOK'
    BY <1>0, <2>1, <2>2, <2>3 DEF GetOK
  <2>5. ReadsSegments'
    BY <1>0, <1>c, <2>1, <2>2, <2>3 DEF ReadsSegments
  <2>6. ReadsWhole'
    BY <1>0, <2>1, <2>2, <2>3 DEF ReadsWhole
  <2> QED
    BY <2>4, <2>5, <2>6 DEF Reads
<1>2. CASE OnWholeData
  <2>1. PICK want \in {None, 0, Strange} :
          get' = [get EXCEPT !.want = want] /\ output' = Append(output, Received)
    BY <1>2 DEF OnWholeData
  <2>2. Found /\ (FitsUpload => scene.isSingle)
    BY <1>2 DEF OnWholeData, FitsUpload, ExpectedBelow
  <2>3. /\ get' \in [want : Int, next : Nat, isFirst : BOOLEAN, isFinished : BOOLEAN, retries : Nat]
        /\ get'.want = want /\ get'.next = get.next /\ get'.isFinished = get.isFinished
    BY <1>a, <1>c, <2>1
  <2>4. FitsUpload => Received = Whole
    BY <2>2, WhatIsReceived
  <2>5. GetOK'
    <3>1. FitsUpload => output' \in Seq(Segment)
      BY <1>0, <2>1, <2>4 DEF GetOK, Segment
    <3> QED
      BY <1>0, <1>b, <2>2, <2>3, <3>1 DEF GetOK
  <2>6. ReadsSegments'
    BY <1>0, <2>2 DEF ReadsSegments
  <2>7. ReadsWhole'
    <3>1. SUFFICES ASSUME FitsUpload, scene.isSingle
                   PROVE  (\A i \in DOMAIN output' : output'[i] = Whole) /\ ~get'.isFinished
      BY <1>0 DEF ReadsWhole
    <3>2. output \in Seq(Segment) /\ Whole \in Segment /\ Received = Whole
          /\ \A i \in DOMAIN output : output[i] = Whole
      BY <1>0, <2>4, <3>1 DEF GetOK, Segment, Reads, ReadsWhole
    <3>3. \A i \in DOMAIN output' : output'[i] = Whole
      BY <2>1, <3>2, AppendNext
    <3> QED
      BY <1>b, <2>2, <2>3, <3>3
  <2> QED
    BY <2>5, <2>6, <2>7 DEF Reads
<1>3. CASE OnFirstSegment
  <2>1. get' = [get EXCEPT !.want = 0, !.isFirst = FALSE] /\ output' = output /\ Found
        /\ get.isFirst /\ reading.below = ExpectedBelow
    BY <1>3 DEF OnFirstSegment, SeeksFirst
  <2>2. /\ get' \in [want : Int, next : Nat, isFirst : BOOLEAN, isFinished : BOOLEAN, retries : Nat]
        /\ get'.want = 0 /\ get'.next = get.next /\ get'.isFinished = get.isFinished /\ ~get'.isFirst
    BY <1>a, <1>c, <2>1
  <2>3. GetOK'
    BY <1>0, <1>b, <2>1, <2>2 DEF GetOK
  <2>4. ReadsSegments'
    <3>1. SUFFICES ASSUME FitsUpload, ~scene.isSingle
                   PROVE  /\ \A i \in DOMAIN output' : output'[i] = i - 1
                          /\ 0 = Len(output') /\ get'.next = 1
                          /\ ~get'.isFinished
      BY <1>0, <1>c, <2>2 DEF ReadsSegments, Prefix
    <3>2. get.want = Prefix
      BY <2>1, <3>1, WhatIsReceived DEF Reads, ReadsSegments
    <3>3. get.next = 1 /\ output = <<>>
      BY <3>1, <3>2 DEF Reads, ReadsSegments
    <3> QED
      BY <1>b, <2>1, <2>2, <3>3
  <2>5. ReadsWhole'
    BY <1>0, <1>b, <2>1, <2>2 DEF Reads, ReadsWhole
  <2> QED
    BY <2>3, <2>4, <2>5 DEF Reads
<1>4. CASE OnSegment
  <2>1. /\ get' = IF IsLast(Received)
                  THEN [get EXCEPT !.want = None, !.isFirst = FALSE, !.isFinished = TRUE]
                  ELSE [get EXCEPT !.want = get.next, !.next = @ + 1, !.isFirst = FALSE, !.retries = 0]
        /\ output' = Append(output, Received) /\ Found
        /\ reading.below = ExpectedBelow /\ ~SeeksFirst(Received)
    BY <1>4 DEF OnSegment
  <2>2. FitsUpload => ~scene.isSingle
    BY <2>1 DEF FitsUpload, ExpectedBelow
  <2>3. /\ get' \in [want : Int, next : Nat, isFirst : BOOLEAN, isFinished : BOOLEAN, retries : Nat]
        /\ ~get'.isFirst
        /\ IF IsLast(Received)
           THEN get'.want = None /\ get'.next = get.next /\ get'.isFinished
           ELSE get'.want = get.next /\ get'.next = get.next + 1 /\ get'.isFinished = get.isFinished
    <3>1. CASE IsLast(Received)
      BY <1>a, <1>c, <2>1, <3>1
    <3>2. CASE ~IsLast(Received)
      <4>1. get' = [get EXCEPT !.want = get.next, !.next = @ + 1, !.isFirst = FALSE, !.retries = 0]
        BY <2>1, <3>2
      <4> QED
        <5>1. get' = [get EXCEPT !.want = get.next, !.next = get.next + 1, !.isFirst = FALSE,
                                 !.retries = 0]
          BY <1>a, <4>1
        <5>2. get.next \in Int /\ get.next + 1 \in Nat
          BY <1>a
        <5> QED
          BY <1>a, <3>2, <5>1, <5>2
    <3> QED
      BY <3>1, <3>2
  <2>4. FitsUpload => /\ Received \in SegmentNo /\ Received \in DOMAIN kept
                      /\ FinalIsKnown(kept[Received])
                      /\ get.want = Prefix \/ (get.want >= 0 /\ Received = get.want)
    BY <2>1, <2>2, WhatIsReceived
  <2>5. GetOK'
    <3>1. FitsUpload => output' \in Seq(Segment)
      BY <1>0, <2>1, <2>4 DEF GetOK, Segment
    <3>2. get'.isFinished => get'.want = None /\ get'.next # 0
      BY <1>b, <2>1, <2>3
    <3>3. get'.next # 0
      BY <1>a, <1>b, <2>1, <2>3
    <3> QED
      BY <1>0, <2>3, <3>1, <3>2, <3>3 DEF GetOK
  <2>6. ReadsSegments'
    <3>1. SUFFICES ASSUME FitsUpload, ~scene.isSingle
                   PROVE  /\ \A i \in DOMAIN output' : output'[i] = i - 1
                          /\ get'.want # Prefix
                          /\ get'.want >= 0 => get'.want = Len(output') /\ get'.next = get'.want + 1
                          /\ get'.isFinished => Len(output') = scene.length
      BY <1>0, <2>3 DEF ReadsSegments
    <3>2. output \in Seq(Segment) /\ \A i \in DOMAIN output : output[i] = i - 1
      BY <1>0, <3>1 DEF GetOK, Reads, ReadsSegments
    <3>3. Received = Len(output) /\ get.next = Len(output) + 1
      <4>1. CASE get.want = Prefix
        <5>1. get.next = 1 /\ output = <<>>
          BY <3>1, <4>1 DEF Reads, ReadsSegments
        <5>2. Received = 0
          BY <2>1, <2>4, <3>1, <4>1 DEF SeeksFirst, Reads, ReadsSegments
        <5> QED
          BY <5>1, <5>2
      <4>2. CASE get.want >= 0 /\ Received = get.want
        BY <1>a, <3>1, <4>2 DEF Reads, ReadsSegments
      <4> QED
        BY <2>4, <3>1, <4>1, <4>2
    <3>4. Received \in Segment /\ Len(output) \in Nat
      BY <2>4, <3>1, <3>2 DEF Segment
    <3>5. Len(output') = Len(output) + 1 /\ \A i \in DOMAIN output' : output'[i] = i - 1
      BY <2>1, <3>2, <3>3, <3>4, AppendNext
    <3>6. IsLast(Received) => Received = scene.length - 1
      BY <2>4, <3>1, <3>3, <3>4 DEF IsLast, FinalIsKnown, NoBlock
    <3>7. scene.length \in Nat
      BY SceneOK
    <3> QED
      BY <1>a, <1>b, <1>c, <2>1, <2>3, <3>3, <3>4, <3>5, <3>6, <3>7, SMTT(30) DEF Prefix
  <2>7. ReadsWhole'
    BY <1>0, <2>2 DEF ReadsWhole
  <2> QED
    BY <2>5, <2>6, <2>7 DEF Reads
<1>5. CASE OnUnexpectedData
  <2>1. get' = [get EXCEPT !.want = None] /\ output' = output /\ Found
    BY <1>5 DEF OnUnexpectedData
  <2>2. /\ get' \in [want : Int, next : Nat, isFirst : BOOLEAN, isFinished : BOOLEAN, retries : Nat]
        /\ get'.want = None /\ get'.next = get.next /\ get'.isFinished = get.isFinished
    BY <1>a, <1>c, <2>1
  <2> QED
    BY <1>0, <1>b, <1>c, <2>1, <2>2 DEF Reads, GetOK, ReadsSegments, ReadsWhole
<1>6. CASE OnTimeout
  <2>1. PICK want \in {get.want, None} : get' = [get EXCEPT !.retries = @ + 1, !.want = want]
    BY <1>6 DEF OnTimeout
  <2>2. /\ get' \in [want : Int, next : Nat, isFirst : BOOLEAN, isFinished : BOOLEAN, retries : Nat]
        /\ get'.want \in {get.want, None} /\ get'.next = get.next /\ get'.isFirst = get.isFirst
        /\ get'.isFinished = get.isFinished
    <3>1. want \in Int
      BY <1>a, <1>c
    <3>2. get.retries \in Nat
      BY <1>a
    <3>3. get' = [get EXCEPT !.retries = get.retries + 1, !.want = want]
      BY <1>a, <2>1
    <3>4. get.retries + 1 \in Nat
      BY <3>2
    <3> QED
      BY <1>a, <3>1, <3>3, <3>4
  <2>3. output' = output
    BY <1>6 DEF OnTimeout
  <2> QED
    BY <1>0, <1>c, <2>2, <2>3 DEF Reads, GetOK, ReadsSegments, ReadsWhole
<1> QED
  BY <1>1, <1>2, <1>3, <1>4, <1>5, <1>6 DEF GetStep

(* No step of ndnputfile or of the repo touches the reader. *)
LEMMA NextReads ==
  ASSUME Upload, Packets, Reads, [GetFileNext]_allVars
  PROVE  Reads'
<1>1. ASSUME UNCHANGED getVars, scene' = scene PROVE Reads'
  <2>1. UNCHANGED <<get, output, reading>>
    BY <1>1 DEF getVars
  <2> QED
    BY <1>1, <2>1 DEF Reads, GetOK, ReadsSegments, ReadsWhole, FitsUpload, ExpectedBelow
<1>2. CASE UNCHANGED allVars
  BY <1>1, <1>2 DEF allVars, putVars, toolVars
<1>3. CASE PutFileNext /\ UNCHANGED getVars
  <2>1. scene' = scene
    BY <1>3, ToolStepMoves, RepoStepResponds DEF PutFileNext, Upload, ToolMoves
  <2> QED
    BY <1>1, <1>3, <2>1
<1>4. CASE GetStep
  <2>1. scene' = scene
    BY <1>4 DEF GetStep, Run, OnWholeData, OnFirstSegment, OnSegment, OnUnexpectedData, OnTimeout,
                putVars, toolVars
  <2> QED
    BY <1>4, <2>1, GetStepReads DEF Upload, ToolOK
<1> QED
  BY <1>2, <1>3, <1>4 DEF GetFileNext

(* At the start there is no packet, and the reader has asked for nothing. *)
LEMMA InitReads == GetFileInit => Packets /\ Reads
<1> SUFFICES ASSUME GetFileInit PROVE Packets /\ Reads
  OBVIOUS
<1>1. arrived = {} /\ stored = {} /\ kept = [s \in {} |-> NoBlock]
  BY DEF GetFileInit, PutFileInit, Init
<1>2. Packets
  BY <1>1 DEF Packets, FromTool, SingleIsWhole, KeptIsStored
<1>3. /\ get = [want |-> None, next |-> 0, isFirst |-> TRUE, isFinished |-> FALSE, retries |-> 0]
      /\ output = <<>>
  BY DEF GetFileInit
<1>4. Reads
  BY <1>3 DEF Reads, GetOK, ReadsSegments, ReadsWhole, None, Prefix
<1> QED
  BY <1>2, <1>4

-----------------------------------------------------------------------------
(* A reader only looks: with it the tool and the repo do what they do without, so what
   is proved of PutFile and of WriteHandle holds beside it. *)
THEOREM GetFileIsPutFile == GetFileSpec => PutFileSpec
<1>1. GetFileInit => PutFileInit
  BY DEF GetFileInit
<1>2. [GetFileNext]_allVars => [PutFileNext]_putVars
  BY DEF GetFileNext, GetStep, Run, OnWholeData, OnFirstSegment, OnSegment, OnUnexpectedData,
         OnTimeout, allVars
<1> QED
  BY <1>1, <1>2, PTL DEF GetFileSpec, PutFileSpec

(* What ndngetfile with fitting options writes is the file from its first block on, none
   twice and none skipped, and the whole file when it says that it is finished: whenever
   it starts, whatever the repo holds by then, whatever is lost, refused or retried. *)
THEOREM OutputIsRight == GetFileSpec => []OutputIsTheFile
<1>1. GetFileSpec => [](TypeOK /\ Window /\ Upload)
  <2>1. PutFileSpec => [](TypeOK /\ Window /\ Counts)
    BY PutFileIsWriteHandle, TypeCorrect, WindowInvariant, CountsInvariant, PTL
  <2>2. PutFileSpec => []Upload
    BY <2>1, InitUpload, NextUpload, PTL DEF PutFileSpec
  <2> QED
    BY <2>1, <2>2, GetFileIsPutFile, PTL
<1>2. [GetFileNext]_allVars => [PutFileNext]_putVars
  BY DEF GetFileNext, GetStep, Run, OnWholeData, OnFirstSegment, OnSegment, OnUnexpectedData,
         OnTimeout, allVars
<1>3. GetFileSpec => [](Packets /\ Reads)
  BY <1>1, <1>2, InitReads, NextPackets, NextReads, PTL DEF GetFileSpec
<1>4. Upload /\ Reads => OutputIsTheFile
  <2> SUFFICES ASSUME Upload, Reads, FitsUpload
               PROVE  /\ \A i \in DOMAIN output : output[i] = IF scene.isSingle THEN Whole ELSE i - 1
                      /\ get.isFinished => Len(output) = scene.length
    BY DEF OutputIsTheFile
  <2> QED
    BY DEF Reads, ReadsSegments, ReadsWhole
<1> QED
  BY <1>1, <1>3, <1>4, PTL

=============================================================================
