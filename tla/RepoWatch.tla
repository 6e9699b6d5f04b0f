------------------------------ MODULE RepoWatch ------------------------------
(***************************************************************************)
(* ndnrepowatch and the repo it commands: the tool starts, stops or checks *)
(* the watch of a name, and after a start asks for its state again and     *)
(* again.  Commands and replies travel as wire forms of CommandCodec; the  *)
(* repo keeps one response object for each watch, which every check        *)
(* encodes.                                                                *)
(***************************************************************************)
EXTENDS WatchHandle, CommandCodec

CONSTANT Wanted   \* what the tool may be run for: see WantedAssumption

Int64 == -(Word \div 2)..(Word \div 2 - 1)

(* int64_t to uint64_t *)
AsWord(k) == k % Word

(* What an option gives, or 0 *)
Option(w, t) == IF t \in DOMAIN w.options THEN w.options[t] ELSE 0

(* The command of a start, as the repo reads it *)
Request(w) ==
  [name |-> w.name, max |-> AsWord(Option(w, "MaxInterestNum")),
   timeout |-> AsWord(Option(w, "WatchTimeout"))]

ASSUME EvenWordAssumption == Word % 2 = 0
ASSUME WantedAssumption ==
  \A w \in Wanted :
    /\ w.verb \in {"start", "stop", "check"} /\ w.name \in Watched
    /\ DOMAIN w.options \subseteq {"MaxInterestNum", "WatchTimeout"}   \* -n and -w
    /\ \A t \in DOMAIN w.options : w.options[t] \in Int64
    /\ w.verb = "start" => Request(w) \in Command

VARIABLES
  wanted,    \* the command line
  tool,      \* "new", "waiting", "pausing", "ended", "failed"
  depth,     \* how often repoPrefix got "watch" appended
  interest,  \* the command Interest in the network, or NoInterest
  data,      \* wire form of the reply in the network, or NoWire
  object,    \* name -> the RepoCommandResponse in m_processes
  seen       \* not in the code: what the repo had for the name when it sent data

client == <<wanted, tool, depth, interest, data>>
all == <<vars, client, object, seen>>

NoInterest == [verb |-> "none"]
Nothing    == [verb |-> "none"]

WatchInit ==
  /\ Init
  /\ wanted \in Wanted
  /\ tool = "new"
  /\ depth = 0
  /\ interest = NoInterest
  /\ data = NoWire
  /\ object = [n \in Watched |-> New]
  /\ seen = Nothing

-----------------------------------------------------------------------------
(* generateCommandInterest: the command name and the encoded parameters *)
Express(verb, parameters) ==
  /\ depth' = depth + 1
  /\ interest' = [verb |-> verb, depth |-> depth + 1,
                  wire |-> EncodedParameter(parameters).wire]
  /\ tool' = "waiting"

Named == SetField(New, "Name", wanted.name)
WithOption(o, t) ==
  IF t \in DOMAIN wanted.options THEN SetField(o, t, AsWord(wanted.options[t])) ELSE o
WithOptions(o) == WithOption(WithOption(o, "MaxInterestNum"), "WatchTimeout")

(* run, startWatchCommand *)
StartWatchCommand ==
  /\ tool = "new"
  /\ Express(wanted.verb, IF wanted.verb = "start" THEN WithOptions(Named) ELSE Named)
  /\ UNCHANGED <<vars, wanted, data, object, seen>>

(* startCheckCommand, m_checkPeriod after the last reply: "watch" is appended again. *)
StartCheckCommand ==
  /\ tool = "pausing"
  /\ Express("check", Named)
  /\ UNCHANGED <<vars, wanted, data, object, seen>>

(* onWatchCommandResponse *)
OnWatchCommandResponse ==
  LET status == DecodeResponse(data)["StatusCode"] IN
  /\ tool = "waiting"
  /\ data # NoWire
  /\ data' = NoWire
  /\ interest' = NoInterest
  /\ tool' = IF status = 101 THEN "ended" ELSE IF status \in {100, 300} THEN "pausing" ELSE "failed"
  /\ seen' = Nothing
  /\ UNCHANGED <<vars, wanted, depth, object>>

(* onWatchCommandTimeout, onCheckCommandTimeout: the Interest or its reply was lost, or
   nobody answered; the tool throws. *)
CommandTimesOut ==
  /\ tool = "waiting"
  /\ tool' = "failed"
  /\ interest' = NoInterest
  /\ data' = NoWire
  /\ seen' = Nothing
  /\ UNCHANGED <<vars, wanted, depth, object>>

(* stopProcess, when the user gave -w *)
StopProcess ==
  /\ "WatchTimeout" \in DOMAIN wanted.options /\ tool \in {"waiting", "pausing"}
  /\ tool' = "ended"
  /\ interest' = NoInterest
  /\ data' = NoWire
  /\ seen' = Nothing
  /\ UNCHANGED <<vars, wanted, depth, object>>

-----------------------------------------------------------------------------
(* What the setters of a step leave in the response objects: setInsertNum, and a new
   object for an entry that is made or erased. *)
Objects ==
  object' = [n \in Watched |->
    IF n \notin DOMAIN processes' THEN New
    ELSE IF n \in Known /\ processes'[n].insertNum # processes[n].insertNum
      THEN SetField(object[n], "InsertNum", processes'[n].insertNum)
    ELSE object[n]]

(* The reply of this step, and what the state was then. *)
Reply(wire) ==
  /\ data' = wire
  /\ interest' = NoInterest
  /\ seen' = [verb |-> interest.verb, status |-> reply',
              insertNum |-> IF wanted.name \in DOMAIN processes'
                              THEN processes'[wanted.name].insertNum ELSE 0,
              running |-> wanted.name \in DOMAIN processes' /\ processes'[wanted.name].running]

Status(code) == SetField(New, "StatusCode", code)

(* The command as processWatchCommand reads it *)
OrZero(p, t) == IF t \in DOMAIN p THEN p[t] ELSE 0
AsCommand(p) ==
  [name |-> p["Name"], max |-> OrZero(p, "MaxInterestNum"), timeout |-> OrZero(p, "WatchTimeout")]

(* The repo has a filter for prefix/watch/<verb> only. *)
Heard == interest # NoInterest /\ interest.depth = 1

RepoStarts(c) ==
  /\ Heard /\ interest.verb = "start"
  /\ Start(AsCommand(DecodeParameter(interest.wire)), c)
  /\ object' = [object EXCEPT ![DecodeParameter(interest.wire)["Name"]] = Status(300)]
  /\ Reply(EncodedResponse(Status(100)).wire)
  /\ UNCHANGED <<wanted, tool, depth>>

RepoStops ==
  /\ Heard /\ interest.verb = "stop"
  /\ Stop(DecodeParameter(interest.wire)["Name"])
  /\ Reply(EncodedResponse(Status(101)).wire)
  /\ Objects
  /\ UNCHANGED <<wanted, tool, depth>>

(* onCheckValidated: the object of a watch that does not run gets 101, and what is sent
   is the object's wire form. *)
Checked(n) ==
  EncodedResponse(IF processes[n].running THEN object[n]
                  ELSE SetField(object[n], "StatusCode", 101))

KeepWire(n) ==
  object' = IF n \in Known THEN [object EXCEPT ![n] = Checked(n)] ELSE object

RepoChecks ==
  LET n == DecodeParameter(interest.wire)["Name"] IN
  /\ Heard /\ interest.verb = "check"
  /\ Check(n)
  /\ KeepWire(n)
  /\ Reply(IF n \in Known THEN Checked(n).wire ELSE EncodedResponse(Status(404)).wire)
  /\ UNCHANGED <<wanted, tool, depth>>

RepoRefuses ==
  /\ Heard
  /\ RejectCommand
  /\ Reply(EncodedResponse(Status(reply')).wire)
  /\ UNCHANGED <<wanted, tool, depth, object>>

(* What the repo does meanwhile, other users' commands included. *)
RepoGoesOn(step) == step /\ Objects /\ UNCHANGED <<client, seen>>

OtherStarts(command, c) ==
  /\ Start(command, c)
  /\ object' = [object EXCEPT ![command.name] = Status(300)]
  /\ UNCHANGED <<client, seen>>

OtherChecks(n) == Check(n) /\ KeepWire(n) /\ UNCHANGED <<client, seen>>

WatchNext ==
  \/ StartWatchCommand \/ StartCheckCommand \/ OnWatchCommandResponse
  \/ CommandTimesOut \/ StopProcess
  \/ RepoStops \/ RepoChecks \/ RepoRefuses
  \/ \E c \in Chain :
       \/ RepoStarts(c) \/ RepoGoesOn(Progress(c))
       \/ \E command \in Command : OtherStarts(command, c)
  \/ \E n \in Watched :
       RepoGoesOn(Stop(n)) \/ RepoGoesOn(DeleteProcess(n)) \/ OtherChecks(n)
  \/ RepoGoesOn(WatchTimePasses) \/ RepoGoesOn(MalformedCommand)

WatchSpec == WatchInit /\ [][WatchNext]_all

(* The fairness of WatchHandle; nothing is assumed of the tool and of commands. *)
FairWatch ==
  /\ WatchSpec
  /\ \A c \in Chain : WF_all(RepoGoesOn(Progress(c)))
  /\ \A n \in Watched : WF_all(RepoGoesOn(DeleteProcess(n)))
  /\ WF_all(RepoGoesOn(WatchTimePasses))

-----------------------------------------------------------------------------
(* The reply that the tool reads says what the repo's m_processes held when it was
   sent: the status and, for a check, the number of packets inserted. *)
ReplyIsTheState ==
  data # NoWire =>
    LET r == DecodeResponse(data) IN
    /\ r["StatusCode"] = seen.status
    /\ "InsertNum" \in DOMAIN r => r["InsertNum"] = seen.insertNum
    /\ seen.verb \in {"stop", "check"} /\ r["StatusCode"] = 101 => ~seen.running

(* The options of the command line are the limits the repo watches under, once the tool
   has read that the watch starts and while nobody else has started or stopped it. *)
OptionsReachTheRepo ==
  tool = "pausing" /\ depth = 1 /\ wanted.verb = "start" /\ history.starts = 1 =>
    /\ history.of[wanted.name].max = Option(wanted, "MaxInterestNum")
    /\ history.of[wanted.name].timed <=> Option(wanted, "WatchTimeout") # 0
=============================================================================
