---------------------------- MODULE DeleteHandle ----------------------------
(***************************************************************************)
(* DeleteHandle over RepoStorage: a command deletes the packets under a    *)
(* name, those that selectors choose, or segment by segment those of a     *)
(* range, and is answered with their number.                               *)
(*                                                                         *)
(* The loop over a range is modelled one round per step; the io_service    *)
(* lets nothing else run until it ends.                                    *)
(***************************************************************************)
EXTENDS RepoStorage

CONSTANTS
  DeleteCommand,  \* what clients send: see DeleteCommandAssumption
  SegmentsOf,     \* SegmentsOf[c][i]: the packets whose names begin with the name of
                  \* command c and segment i
  Word            \* the number of SegmentNo values: 2^64

NoBlock == -1
SegmentNo == 0..(Word - 1)

ASSUME WordAssumption == Word \in Nat \ {0}
ASSUME DeleteCommandAssumption ==
  \A c \in DeleteCommand :
    /\ c.query.names \subseteq Name   \* packets that the name, or the selectors, choose
    /\ c.query.keyed \in BOOLEAN
    /\ c.selects \in BOOLEAN          \* the command has Selectors
    /\ {c.start, c.end} \subseteq SegmentNo \cup {NoBlock}
    /\ c.processId \in BOOLEAN        \* the command has a ProcessId
ASSUME SegmentsAssumption ==
  SegmentsOf \in [DeleteCommand -> [SegmentNo -> SUBSET Name]]

VARIABLES
  loop,    \* the range command that runs: [command, i, count], or NoLoop
  answer   \* the reply this step sent: [command, code, count], or NoAnswer

deletion == <<loop, answer>>

NoLoop   == [i |-> NoBlock]
NoAnswer == [code |-> 0]
Looping  == loop # NoLoop

NotCalled == UNCHANGED <<disk, memory, up>> /\ reply' = NoReply

DeleteInit == loop = NoLoop /\ answer = NoAnswer

IsRange(c) == c.start # NoBlock \/ c.end # NoBlock
First(c) == IF c.start = NoBlock THEN 0 ELSE c.start

(* positiveReply: without a ProcessId the reply is 403, after the deletion. *)
PositiveReply(c, count) ==
  answer' = IF c.processId
              THEN [command |-> c, code |-> 200, count |-> count]
              ELSE [command |-> c, code |-> 403, count |-> 0]

NegativeReply(c, code) == answer' = [command |-> c, code |-> code, count |-> 0]

-----------------------------------------------------------------------------
(* onValidated catches RepoCommandParameter::Error; the tlv::Error that the library
   throws for bytes it cannot parse is a base class of it, and reaches main. *)
MalformedDelete ==
  /\ ~Looping
  /\ Stop
  /\ answer' = NoAnswer
  /\ UNCHANGED loop

(* A signature the validator refuses (401), a parameter that is a block of another type
   (403), Selectors beside block ids (402), a range that ends before it starts (403). *)
RefuseDelete(c) ==
  /\ up /\ ~Looping
  /\ \/ \E code \in {401, 403} : NegativeReply(c, code)
     \/ c.selects /\ IsRange(c) /\ NegativeReply(c, 402)
     \/ ~c.selects /\ c.end # NoBlock /\ First(c) > c.end /\ NegativeReply(c, 403)
  /\ NotCalled
  /\ UNCHANGED loop

(* processSingleDeleteCommand, processSelectorDeleteCommand *)
DeleteOnce(c) ==
  /\ up /\ ~Looping
  /\ ~IsRange(c)
  /\ \/ /\ DeleteData(c.query)
        /\ IF reply'.count = -1 THEN NegativeReply(c, 405) ELSE PositiveReply(c, reply'.count)
     \/ DeleteError(c.query) /\ answer' = NoAnswer
  /\ UNCHANGED loop

(* processSegmentDeleteCommand; without EndBlockId it asserts: the process aborts, or,
   built without assertions, nothing is answered. *)
DeleteRange(c) ==
  /\ up /\ ~Looping
  /\ ~c.selects /\ IsRange(c)
  /\ c.end # NoBlock => First(c) <= c.end
  /\ \/ /\ c.end # NoBlock
        /\ loop' = [command |-> c, i |-> First(c), count |-> 0]
        /\ NotCalled /\ answer' = NoAnswer
     \/ /\ c.end = NoBlock
        /\ \/ NotCalled
           \/ Die(NoReply) /\ UNCHANGED <<disk, rowid, size>>
        /\ answer' = NoAnswer
        /\ UNCHANGED loop

LoopRunsMutStrict == Looping /\ loop.i < loop.command.end
LoopRunsMutPastEnd == Looping /\ loop.i <= loop.command.end + 1
LoopRuns == Looping /\ loop.i <= loop.command.end

(* A round: any result but 0 counts, -1 too; i++ in uint64_t *)
DeleteSegment ==
  /\ up
  /\ LoopRuns
  /\ LET c == loop.command
         q == [names |-> SegmentsOf[c][loop.i], keyed |-> FALSE]
     IN  \/ /\ DeleteData(q)
            /\ loop' = [loop EXCEPT !.i = (@ + 1) % Word,
                                    !.count = IF reply'.count # 0 THEN @ + 1 ELSE @]
            /\ answer' = NoAnswer
         \/ DeleteError(q) /\ loop' = NoLoop /\ answer' = NoAnswer

FinishDelete ==
  /\ up
  /\ Looping /\ ~LoopRuns
  /\ PositiveReply(loop.command, loop.count)
  /\ loop' = NoLoop
  /\ NotCalled

-----------------------------------------------------------------------------
(* What a command names *)
Touched(c) ==
  IF IsRange(c) THEN UNION {SegmentsOf[c][i] : i \in First(c)..c.end} ELSE c.query.names

(* What clients are told: after a 200 nothing that the command names is left, in the
   index or in the table, so it cannot be read again, not even after a restart. *)
ReportedIsGone ==
  [][answer' # answer /\ answer'.code = 200 /\ ~answer'.command.query.keyed =>
       Touched(answer'.command) \cap (DOMAIN index' \cup RowNames') = {}]_<<vars, deletion>>

(* A range command is answered, unless the process ended on the way, or the range ends
   with the last SegmentNo: there the loop wraps around (delete-handle.cpp:182). *)
RangeIsAnswered ==
  Looping /\ loop.command.end # Word - 1 ~> ~Looping
=============================================================================
