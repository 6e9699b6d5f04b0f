-------------------------- MODULE WriteHandleProofs --------------------------
(***************************************************************************)
(* Proofs about WriteHandle, for any commands, window, retry limit, width  *)
(* of SegmentNo and environment.                                           *)
(*                                                                         *)
(* Without further assumptions: its type invariant, that erased processes  *)
(* stay erased, that 200 is final, that a finished process is going to be  *)
(* deleted, the credit window, and that InsertNum counts what is stored.   *)
(*                                                                         *)
(* Under RoomInNumbers, that no segment lies within a window of the last   *)
(* of the 2^64 numbers: segments are asked for in order, each of them      *)
(* once; the assertions on retryCounts hold; 200 means that the range is   *)
(* stored; and, where no FinalBlockId lies before a command's segments, no *)
(* process waits for a callback that will not come.                        *)
(***************************************************************************)
EXTENDS WriteHandle, FiniteSetTheorems, TLAPS

(* What remains of the state for a process that is set or erased. *)
LEMMA SetProcessOK ==
  ASSUME TypeOK, NEW p \in used', used' \subseteq Proc, used \subseteq used',
         NEW info, InfoOK(info), SetProcess(p, info)
  PROVE  /\ Live' = Live \cup {p}
         /\ Live' \subseteq used'
         /\ \A q \in Live' : InfoOK(processes'[q])
<1>1. Live' = Live \cup {p}
  BY DEF SetProcess, Live
<1>2. ASSUME NEW q \in Live' PROVE InfoOK(processes'[q])
  <2>1. processes'[q] = IF q = p THEN info ELSE processes[q]
    BY <1>1 DEF SetProcess
  <2>2. q = p \/ InfoOK(processes[q])
    BY <1>1 DEF TypeOK
  <2> QED
    BY <2>1, <2>2
<1> QED
  BY <1>1, <1>2 DEF TypeOK

(* The other processes stay as they are. *)
LEMMA EraseProcessOK ==
  ASSUME TypeOK, NEW p, EraseProcess(p)
  PROVE  /\ Live' = Live \ {p}
         /\ \A q \in Live' : processes'[q] = processes[q]
         /\ \A q \in Live' : InfoOK(processes'[q])
<1>1. Live' = Live \ {p} /\ \A q \in Live' : processes'[q] = processes[q]
  BY DEF EraseProcess, Live
<1> QED
  BY <1>1 DEF TypeOK

-----------------------------------------------------------------------------
(* The records that the handlers put into m_processes. *)
LEMMA NewInfoOK ==
  ASSUME NEW c \in Command
  PROVE  /\ InfoOK(NewInfo(c)) /\ NewInfo(c).start = c.start /\ NewInfo(c).status = 300
         /\ NewInfo(c).insertNum = 0
<1>1. DOMAIN [s \in {} |-> 0] = {}
  OBVIOUS
<1>2. {c.start, c.end} \subseteq SegmentNo \cup {NoBlock}
  BY CommandAssumption
<1>3. 0 \in SegmentNo
  BY WordAssumption DEF SegmentNo
<1>4. <<>> \in Seq(SegmentNo)
  OBVIOUS
<1> QED
  BY <1>1, <1>2, <1>3, <1>4 DEF InfoOK, NewInfo

(* SegmentNo is a finite set of naturals that % Word leads into. *)
LEMMA SegmentNumbers ==
  /\ SegmentNo \subseteq Nat /\ 0 \in SegmentNo /\ IsFiniteSet(SegmentNo)
  /\ \A k \in Int : (k % Word) \in SegmentNo
  /\ NoBlock \notin SegmentNo /\ Whole \notin SegmentNo /\ NoSegment \notin SegmentNo
<1>1. Word \in Nat /\ Word > 0
  BY WordAssumption
<1>2. IsFiniteSet(0..(Word - 1))
  BY <1>1, FS_Interval
<1> QED
  BY <1>1, <1>2 DEF SegmentNo, NoBlock, Whole, NoSegment

(* What segInit leaves in m_processes. *)
SegmentInfo(c, credit, window, next) ==
  [NewInfo(c) EXCEPT
     !.start = StartOf(c),
     !.credit = credit - Cardinality(window),
     !.next = next,
     !.queue = <<next>>,
     !.retries = [s \in window |-> 0],
     !.noEnd = IF c.end = NoBlock THEN "running" ELSE "unset"]

(* Its record is well formed, whatever the window. *)
LEMMA SegmentInfoOK ==
  ASSUME NEW c \in Command, NEW credit \in Int, NEW window \in SUBSET SegmentNo,
         NEW next \in SegmentNo
  PROVE  /\ InfoOK(SegmentInfo(c, credit, window, next))
         /\ SegmentInfo(c, credit, window, next).start # NoBlock
         /\ SegmentInfo(c, credit, window, next).status = 300
<1>1. InfoOK(NewInfo(c)) /\ NewInfo(c).status = 300
  BY NewInfoOK
<1>2. StartOf(c) \in SegmentNo /\ StartOf(c) # NoBlock
  BY CommandAssumption, SegmentNumbers DEF StartOf
<1>3. Cardinality(window) \in Nat
  BY SegmentNumbers, FS_Subset, FS_CardinalityType
<1>4. <<next>> \in Seq(SegmentNo)
  OBVIOUS
<1>5. [s \in window |-> 0] \in [window -> Nat]
  OBVIOUS
<1> QED
  BY <1>1, <1>2, <1>3, <1>4, <1>5 DEF InfoOK, SegmentInfo

(* A segment that is counted leaves name, start and status, and loses no end. *)
LEMMA CountedOK ==
  ASSUME TypeOK, NEW p \in Live, NEW f \in FinalBlock, f # NoSegment
  PROVE  /\ InfoOK(Counted(p, f))
         /\ Counted(p, f).start = processes[p].start
         /\ Counted(p, f).status = processes[p].status
         /\ Counted(p, f).name = processes[p].name
         /\ Counted(p, f).insertNum = processes[p].insertNum + 1
         /\ processes[p].end # NoBlock => Counted(p, f).end # NoBlock
<1>1. InfoOK(processes[p])
  BY DEF TypeOK
<1>2. RefreshedEnd(processes[p].end, f) \in SegmentNo \cup {NoBlock}
  BY <1>1 DEF RefreshedEnd, FinalBlock, InfoOK
<1>3. processes[p].end # NoBlock => RefreshedEnd(processes[p].end, f) # NoBlock
  BY DEF RefreshedEnd
<1> QED
  BY <1>1, <1>2, <1>3 DEF Counted, InfoOK

(* What Retry leaves. *)
Retried(info, s) == [info EXCEPT !.retries[s] = @ + 1]

(* Its record is well formed. *)
LEMMA RetriedOK ==
  ASSUME NEW info, InfoOK(info), NEW s
  PROVE  InfoOK(Retried(info, s))
<1> DEFINE counts == [info.retries EXCEPT ![s] = @ + 1]
<1>1. info.retries \in [DOMAIN info.retries -> Nat]
  BY DEF InfoOK
<1>2. DOMAIN counts = DOMAIN info.retries
  OBVIOUS
<1>3. counts \in [DOMAIN counts -> Nat]
  <2>1. ASSUME NEW k \in DOMAIN info.retries PROVE counts[k] \in Nat
    <3>1. info.retries[k] \in Nat
      BY <1>1
    <3>2. CASE k = s
      BY <3>1, <3>2
    <3>3. CASE k # s
      BY <3>1, <3>3
    <3> QED
      BY <3>2, <3>3
  <2> QED
    BY <1>2, <2>1
<1>4. Retried(info, s) = [info EXCEPT !.retries = counts]
  BY DEF Retried
<1> HIDE DEF counts
<1> QED
  BY <1>2, <1>3, <1>4 DEF InfoOK

(* Sending the head of the queue leaves everything but the window. *)
LEMMA AfterSendingOK ==
  ASSUME NEW info, InfoOK(info), NEW s, info.queue # <<>>
  PROVE  /\ InfoOK(AfterSending(info, s))
         /\ Head(info.queue) \in SegmentNo
         /\ AfterSending(info, s).start = info.start
         /\ AfterSending(info, s).status = info.status
         /\ AfterSending(info, s).end = info.end
         /\ AfterSending(info, s).name = info.name
         /\ AfterSending(info, s).insertNum = info.insertNum
<1> DEFINE sending == Head(info.queue)
           kept == DOMAIN info.retries \ {s}
           nxt == (info.next + 1) % Word
           more == info.end = NoBlock \/ nxt <= info.end
           counts == [t \in kept \cup {sending} |->
                        IF t \notin kept THEN 0
                        ELSE IF t = sending THEN info.retries[t] + 1 ELSE info.retries[t]]
           next2 == IF more THEN nxt ELSE info.next
           queue2 == IF more THEN Append(Tail(info.queue), nxt) ELSE Tail(info.queue)
<1>1. sending \in SegmentNo /\ Tail(info.queue) \in Seq(SegmentNo)
  BY DEF InfoOK
<1>2. nxt \in SegmentNo
  <2>1. info.next \in SegmentNo
    BY DEF InfoOK
  <2>2. info.next + 1 \in Int
    BY <2>1, WordAssumption DEF SegmentNo
  <2> QED
    BY <2>2, SegmentNumbers
<1>3. DOMAIN counts \subseteq SegmentNo /\ counts \in [DOMAIN counts -> Nat]
  BY <1>1 DEF InfoOK
<1>4. next2 \in SegmentNo /\ queue2 \in Seq(SegmentNo)
  <2> HIDE DEF nxt
  <2> QED
    BY <1>1, <1>2 DEF InfoOK
<1>5. AfterSending(info, s) = [info EXCEPT !.credit = info.credit - 1, !.retries = counts,
                                           !.next = next2, !.queue = queue2]
  BY DEF AfterSending
<1> HIDE DEF counts, next2, queue2, sending
<1> QED
  BY <1>1, <1>3, <1>4, <1>5 DEF InfoOK, sending
-----------------------------------------------------------------------------
(* The initial state has the right shape. *)
LEMMA InitTypeOK == Init => TypeOK
<1> SUFFICES ASSUME Init PROVE TypeOK
  OBVIOUS
<1>1. Live = {}
  BY DEF Init, Live
<1>2. up \in BOOLEAN
  BY Zenon DEF Init
<1> QED
  BY <1>1, <1>2 DEF Init, TypeOK

(* Every step keeps the shape. *)
LEMMA NextTypeOK == TypeOK /\ [Next]_vars => TypeOK'
<1> SUFFICES ASSUME TypeOK, [Next]_vars PROVE TypeOK'
  OBVIOUS
<1>0. up' \in BOOLEAN
  <2>1. CASE UNCHANGED up
    BY <2>1, Zenon DEF TypeOK
  <2>2. CASE up' = FALSE
    BY <2>2, Zenon
  <2>3. ASSUME NEW p \in Proc, NEW s \in Segment, NEW f \in FinalBlock, DataThrows(p, s, f)
        PROVE up' = FALSE
    BY <2>3 DEF DataThrows, Exit
  <2>4. ASSUME NEW p \in Proc, NEW s \in Segment, NEW f \in FinalBlock,
               Deliver(p, s, f) \/ Refused(p, s, f) \/ LateData(p, s, f) \/ DataValidated(p, f)
                 \/ SegmentValidated(p, s, f)
        PROVE UNCHANGED up
    BY <2>4 DEF Deliver, Refused, LateData, DataValidated, SegmentValidated
  <2>5. ASSUME NEW p \in Proc, NEW s \in Segment,
               GiveUp(p, s) \/ Retry(p, s) \/ NoEndTimePasses(p) \/ DeleteProcess(p) \/ Check(p)
        PROVE UNCHANGED up
    BY <2>5 DEF GiveUp, Retry, NoEndTimePasses, DeleteProcess, Check
  <2>6. ASSUME NEW p \in Proc, NEW c \in Command,
               RejectCommand(c) \/ InsertSingle(p, c) \/ InsertSegmented(p, c)
        PROVE UNCHANGED up
    BY <2>6 DEF RejectCommand, InsertSingle, InsertSegmented
  <2>7. ASSUME NEW c \in Command, RejectCommand(c) PROVE UNCHANGED up
    BY <2>7 DEF RejectCommand
  <2>10. MalformedCommand => up' = FALSE
    BY DEF MalformedCommand, Exit
  <2>8. UNCHANGED vars => UNCHANGED up
    BY DEF vars
  <2>9. Whole \in Segment
    BY DEF Segment
  <2> QED
    BY <2>1, <2>2, <2>3, <2>4, <2>5, <2>6, <2>7, <2>8, <2>9, <2>10 DEF Next
<1>1. ASSUME NEW c \in Command, RejectCommand(c) PROVE TypeOK'
  BY <1>0, <1>1 DEF RejectCommand, TypeOK, Live
<1>2. ASSUME NEW p \in Proc, NEW c \in Command, InsertSingle(p, c) PROVE TypeOK'
  <2>1. InfoOK(NewInfo(c)) /\ p \in used'
    BY <1>2, NewInfoOK DEF InsertSingle
  <2>2. SetProcess(p, NewInfo(c)) /\ used' \subseteq Proc /\ used \subseteq used'
    BY <1>2 DEF InsertSingle, TypeOK
  <2>3. Live' \subseteq used' /\ \A q \in Live' : InfoOK(processes'[q])
    BY <2>1, <2>2, SetProcessOK
  <2> QED
    BY <1>0, <1>2, <2>2, <2>3 DEF InsertSingle, TypeOK, Segment
<1>3. ASSUME NEW p \in Proc, NEW c \in Command, InsertSegmented(p, c) PROVE TypeOK'
  <2> DEFINE credit == InitialCredit(c)
             stop   == (StartOf(c) + credit) % Word
             window == {s \in SegmentNo : StartOf(c) <= s /\ s < stop}
             next   == IF window = {} THEN StartOf(c) ELSE stop
             info   == SegmentInfo(c, credit, window, next)
  <2>1. StartOf(c) \in SegmentNo /\ (c.end # NoBlock => c.end \in SegmentNo)
    BY CommandAssumption, SegmentNumbers DEF StartOf
  <2>2. credit \in Int /\ stop \in SegmentNo
    <3>1. c.end # NoBlock => NSegments(StartOf(c), c.end) \in SegmentNo
      <4>1. c.end # NoBlock => c.end - StartOf(c) + 1 \in Int
        BY <2>1, WordAssumption DEF SegmentNo
      <4> QED
        BY <4>1, SegmentNumbers DEF NSegments
    <3>2. credit \in Int
      BY <3>1, WordAssumption DEF InitialCredit, SegmentNo
    <3>3. StartOf(c) + credit \in Int
      BY <2>1, <3>2, WordAssumption DEF SegmentNo
    <3> QED
      BY <3>2, <3>3, SegmentNumbers
  <2>3. SetProcess(p, info) /\ used' = used \cup {p}
        /\ flight' = flight \cup {<<p, s>> : s \in window}
        /\ reply' = 100 /\ UNCHANGED <<arrived, doomed>>
    BY <1>3 DEF InsertSegmented, SegmentInfo
  <2>4. InfoOK(info)
    <3>1. window \in SUBSET SegmentNo /\ next \in SegmentNo
      BY <2>1, <2>2
    <3> HIDE DEF window, next, credit
    <3> QED
      BY <2>2, <3>1, SegmentInfoOK
  <2>5. p \in used' /\ used' \subseteq Proc /\ used \subseteq used'
    BY <2>3 DEF TypeOK
  <2>6. Live' \subseteq used' /\ \A q \in Live' : InfoOK(processes'[q])
    <3> HIDE DEF info
    <3> QED
      BY <2>3, <2>4, <2>5, SetProcessOK
  <2> QED
    BY <1>0, <2>3, <2>5, <2>6 DEF TypeOK, Segment
<1>4. ASSUME NEW p \in Proc, NEW s \in Segment, NEW f \in FinalBlock,
             Deliver(p, s, f) \/ Refused(p, s, f) \/ LateData(p, s, f)
      PROVE TypeOK'
  BY <1>0, <1>4 DEF Deliver, Refused, LateData, TypeOK, Live
<1>5. ASSUME Exit PROVE TypeOK'
  <2>1. Live' = {}
    BY <1>5 DEF Exit, Live
  <2> QED
    BY <1>0, <1>5, <2>1 DEF Exit, TypeOK
<1>6. ASSUME NEW p \in Proc, NEW f \in FinalBlock, DataValidated(p, f) PROVE TypeOK'
  <2> DEFINE info == [processes[p] EXCEPT !.insertNum = 1]
  <2>1. p \in Live /\ SetProcess(p, info) /\ doomed' = doomed \cup {p} /\ reply' = 0
        /\ arrived' = arrived \ {<<p, Whole, f>>} /\ UNCHANGED <<used, flight>>
    BY <1>6 DEF DataValidated
  <2>2. InfoOK(info)
    BY <2>1 DEF TypeOK, InfoOK
  <2>3. p \in used' /\ used' \subseteq Proc /\ used \subseteq used'
    BY <2>1 DEF TypeOK
  <2>4. Live' \subseteq used' /\ \A q \in Live' : InfoOK(processes'[q])
    <3> HIDE DEF info
    <3> QED
      BY <2>1, <2>2, <2>3, SetProcessOK
  <2> QED
    BY <1>0, <2>1, <2>3, <2>4 DEF TypeOK
<1>7. ASSUME NEW p \in Proc, NEW s \in Segment, NEW f \in FinalBlock, SegmentValidated(p, s, f)
      PROVE TypeOK'
  <2> DEFINE info == Counted(p, f)
  <2>1. p \in Live /\ f # NoSegment /\ reply' = 0 /\ used' = used
        /\ arrived' = arrived \ {<<p, s, f>>}
    BY <1>7 DEF SegmentValidated
  <2>2. InfoOK(info)
    BY <2>1, CountedOK
  <2>3. PICK new : SetProcess(p, new) /\ InfoOK(new)
    <3> HIDE DEF info
    <3>1. InfoOK([info EXCEPT !.status = 405]) /\ InfoOK([info EXCEPT !.status = 200])
          /\ (info.queue # <<>> => InfoOK([info EXCEPT !.queue = Tail(info.queue)]))
      BY <2>2 DEF InfoOK
    <3>2. ~NothingToSend(info) => InfoOK(AfterSending(info, s))
      BY <2>2, AfterSendingOK DEF NothingToSend
    <3> QED
      BY <1>7, <2>2, <3>1, <3>2 DEF SegmentValidated, info, NothingToSend
  <2>4. doomed' \subseteq doomed \cup {p}
    BY <1>7 DEF SegmentValidated
  <2>5. flight' \subseteq Proc \X Segment
    <3>1. flight' = flight \/ (~NothingToSend(info) /\ flight' = flight \cup {<<p, Head(info.queue)>>})
      BY <1>7 DEF SegmentValidated
    <3>2. ~NothingToSend(info) => Head(info.queue) \in SegmentNo
      BY <2>2, AfterSendingOK DEF NothingToSend
    <3> QED
      BY <3>1, <3>2 DEF TypeOK, Segment
  <2>6. p \in used' /\ used' \subseteq Proc /\ used \subseteq used'
    BY <2>1 DEF TypeOK
  <2>7. Live' \subseteq used' /\ \A q \in Live' : InfoOK(processes'[q])
    BY <2>3, <2>6, SetProcessOK
  <2> QED
    BY <1>0, <2>1, <2>4, <2>5, <2>6, <2>7 DEF TypeOK
<1>8. ASSUME NEW p \in Proc, NEW s \in Segment, GiveUp(p, s) PROVE TypeOK'
  <2>1. Live' = Live \ {p} /\ \A q \in Live' : InfoOK(processes'[q])
    BY <1>8, EraseProcessOK DEF GiveUp
  <2> QED
    BY <1>0, <1>8, <2>1 DEF GiveUp, MayTimeout, TypeOK
<1>9. ASSUME NEW p \in Proc, NEW s \in Segment, Retry(p, s) PROVE TypeOK'
  <2> DEFINE info == Retried(processes[p], s)
  <2>1. p \in Live /\ SetProcess(p, info) /\ reply' = 0
        /\ UNCHANGED <<used, flight, arrived, doomed>>
    BY <1>9 DEF Retry, MayTimeout, Retried
  <2>2. InfoOK(info)
    BY <2>1, RetriedOK DEF TypeOK
  <2>3. p \in used' /\ used' \subseteq Proc /\ used \subseteq used'
    BY <2>1 DEF TypeOK
  <2>4. Live' \subseteq used' /\ \A q \in Live' : InfoOK(processes'[q])
    <3> HIDE DEF info
    <3> QED
      BY <2>1, <2>2, <2>3, SetProcessOK
  <2> QED
    BY <1>0, <2>1, <2>3, <2>4 DEF TypeOK
<1>10. ASSUME NEW p \in Proc, NoEndTimePasses(p) PROVE TypeOK'
  <2> DEFINE info == [processes[p] EXCEPT !.noEnd = "passed"]
  <2>1. p \in Live /\ SetProcess(p, info) /\ reply' = 0
        /\ UNCHANGED <<used, flight, arrived, doomed>>
    BY <1>10 DEF NoEndTimePasses
  <2>2. InfoOK(info)
    BY <2>1 DEF TypeOK, InfoOK
  <2>3. p \in used' /\ used' \subseteq Proc /\ used \subseteq used'
    BY <2>1 DEF TypeOK
  <2>4. Live' \subseteq used' /\ \A q \in Live' : InfoOK(processes'[q])
    <3> HIDE DEF info
    <3> QED
      BY <2>1, <2>2, <2>3, SetProcessOK
  <2> QED
    BY <1>0, <2>1, <2>3, <2>4 DEF TypeOK
<1>11. ASSUME NEW p \in Proc, DeleteProcess(p) PROVE TypeOK'
  <2>1. Live' = Live \ {p} /\ \A q \in Live' : InfoOK(processes'[q])
    BY <1>11, EraseProcessOK DEF DeleteProcess
  <2> QED
    BY <1>0, <1>11, <2>1 DEF DeleteProcess, TypeOK
<1>12. ASSUME NEW p \in Proc, Check(p) PROVE TypeOK'
  <2> DEFINE info == [processes[p] EXCEPT !.status = 405]
  <2>1. UNCHANGED <<used, flight, arrived, doomed>>
    BY <1>12 DEF Check
  <2>2. CASE UNCHANGED processes
    <3>1. Live' = Live /\ \A q \in Live' : processes'[q] = processes[q]
      BY <2>2 DEF Live
    <3>2. reply' \in {200, 300, 404, 405}
      BY <1>12 DEF Check, TypeOK, InfoOK
    <3> QED
      BY <1>0, <2>1, <3>1, <3>2 DEF TypeOK
  <2>3. CASE p \in Live /\ SetProcess(p, info) /\ reply' = 405
    <3>1. InfoOK(info)
      BY <2>3 DEF TypeOK, InfoOK
    <3>2. p \in used' /\ used' \subseteq Proc /\ used \subseteq used'
      BY <2>1, <2>3 DEF TypeOK
    <3>3. Live' \subseteq used' /\ \A q \in Live' : InfoOK(processes'[q])
      <4> HIDE DEF info
      <4> QED
        BY <2>3, <3>1, <3>2, SetProcessOK
    <3> QED
      BY <1>0, <2>1, <2>3, <3>2, <3>3 DEF TypeOK
  <2> QED
    BY <1>12, <2>2, <2>3 DEF Check
<1>13. CASE UNCHANGED vars
  BY <1>0, <1>13 DEF vars, TypeOK, Live
<1> QED
  BY <1>1, <1>2, <1>3, <1>4, <1>5, <1>6, <1>7, <1>8, <1>9, <1>10, <1>11, <1>12, <1>13
     DEF Next, DataThrows, MalformedCommand

(* The type invariant, for every value of the constants. *)
THEOREM TypeCorrect == Spec => []TypeOK
  BY InitTypeOK, NextTypeOK, PTL DEF Spec

(* The handlers look a process up by id before they use it: no callback brings an erased
   process back. *)
THEOREM ErasedStaysErased == Spec => NoResurrection
<1>1. TypeOK /\ [Next]_vars => [\A p \in used \ Live : p \notin DOMAIN processes']_vars
  <2> SUFFICES ASSUME TypeOK, Next, NEW q \in used \ Live PROVE q \notin DOMAIN processes'
    BY DEF vars
  <2>1. ASSUME NEW p, NEW info, SetProcess(p, info), p # q PROVE q \notin DOMAIN processes'
    BY <2>1 DEF SetProcess, Live
  <2>2. ASSUME NEW p, EraseProcess(p) PROVE q \notin DOMAIN processes'
    BY <2>2 DEF EraseProcess, Live
  <2>3. ASSUME UNCHANGED processes \/ processes' = [p \in {} |-> 0] PROVE q \notin DOMAIN processes'
    BY <2>3 DEF Live
  <2>4. ASSUME NEW p \in Proc, NEW c \in Command, InsertSingle(p, c) \/ InsertSegmented(p, c)
        PROVE q \notin DOMAIN processes'
    BY <2>1, <2>4 DEF InsertSingle, InsertSegmented
  <2>5. ASSUME NEW p \in Proc, NEW s \in Segment, NEW f \in FinalBlock,
               DataValidated(p, f) \/ SegmentValidated(p, s, f)
        PROVE q \notin DOMAIN processes'
    BY <2>1, <2>5 DEF DataValidated, SegmentValidated
  <2>6. ASSUME NEW p \in Proc, NEW s \in Segment, Retry(p, s) \/ NoEndTimePasses(p)
        PROVE q \notin DOMAIN processes'
    BY <2>1, <2>6 DEF Retry, NoEndTimePasses
  <2>7. ASSUME NEW p \in Proc, Check(p) PROVE q \notin DOMAIN processes'
    BY <2>1, <2>3, <2>7 DEF Check
  <2>8. ASSUME NEW p \in Proc, NEW s \in Segment, NEW f \in FinalBlock,
               Deliver(p, s, f) \/ Refused(p, s, f) \/ LateData(p, s, f) \/ DataThrows(p, s, f)
        PROVE q \notin DOMAIN processes'
    BY <2>3, <2>8 DEF Deliver, Refused, LateData, DataThrows, Exit
  <2>9. ASSUME NEW p \in Proc, NEW s \in Segment, GiveUp(p, s) \/ DeleteProcess(p)
        PROVE q \notin DOMAIN processes'
    BY <2>2, <2>9 DEF GiveUp, DeleteProcess
  <2>10. ASSUME NEW c \in Command, RejectCommand(c) PROVE q \notin DOMAIN processes'
    BY <2>3, <2>10 DEF RejectCommand
  <2>12. MalformedCommand => q \notin DOMAIN processes'
    BY <2>3 DEF MalformedCommand, Exit
  <2>11. Whole \in Segment
    BY DEF Segment
  <2> QED
    BY <2>4, <2>5, <2>6, <2>7, <2>8, <2>9, <2>10, <2>11, <2>12 DEF Next
<1> QED
  BY <1>1, TypeCorrect, PTL DEF Spec, NoResurrection
-----------------------------------------------------------------------------
(* The Data of p at the validator. *)
Verdicts(p) == {sf \in Segment \X FinalBlock : <<p, sf[1], sf[2]>> \in arrived}

(* Callbacks belong to ids that were handed out; those for a segment to a process that
   fetches segments. *)
OwnCallbacks ==
  \A p \in Proc : \A s \in Outstanding(p) :
    p \in used /\ (p \in Live /\ s # Whole => IsSegmentProcess(p))

(* Only a process with an EndBlockId can have said 200, so noEndTime is over for it. *)
SuccessHasEnd == \A p \in Live : processes[p].status = 200 => processes[p].end # NoBlock

(* CreditBound with a Data at the validator counted once for each FinalBlockId: a sum
   that every step of the window keeps, whether or not a segment is out twice. *)
CreditKept ==
  \A p \in Live : IsSegmentProcess(p) =>
    /\ processes[p].credit >= 0
    /\ processes[p].credit + Cardinality(InFlight(p)) + Cardinality(Verdicts(p)) <= Credit

Window == OwnCallbacks /\ SuccessHasEnd /\ FinishedIsDoomed /\ CreditKept

(* A process has finitely many Interests and Data out. *)
LEMMA FiniteCallbacks ==
  /\ \A p : IsFiniteSet(InFlight(p)) /\ Cardinality(InFlight(p)) \in Nat
  /\ \A p : IsFiniteSet(Verdicts(p)) /\ Cardinality(Verdicts(p)) \in Nat
<1>1. IsFiniteSet(Segment)
  BY SegmentNumbers, FS_AddElement DEF Segment
<1>2. IsFiniteSet(SegmentNo \cup {NoBlock})
  BY SegmentNumbers, FS_AddElement
<1>3. IsFiniteSet(FinalBlock)
  <2>1. FinalBlock = (SegmentNo \cup {NoBlock}) \cup {NoSegment}
    BY DEF FinalBlock
  <2> QED
    BY <1>2, <2>1, FS_AddElement
<1>4. IsFiniteSet(Segment \X FinalBlock)
  BY <1>1, <1>3, FS_Product
<1>5. ASSUME NEW p PROVE IsFiniteSet(InFlight(p)) /\ IsFiniteSet(Verdicts(p))
  <2>1. InFlight(p) \in SUBSET Segment /\ Verdicts(p) \in SUBSET (Segment \X FinalBlock)
    BY DEF InFlight, Verdicts
  <2> QED
    BY <1>1, <1>4, <2>1, FS_Subset
<1> QED
  BY <1>5, FS_CardinalityType

(* CreditKept is stronger than the bound on segments. *)
LEMMA CreditKeptBounds ==
  ASSUME TypeOK, CreditKept
  PROVE  CreditBound
<1> SUFFICES ASSUME NEW p \in Live, IsSegmentProcess(p)
             PROVE  /\ processes[p].credit >= 0
                    /\ processes[p].credit + Cardinality(Outstanding(p)) <= Credit
  BY DEF CreditBound
<1> DEFINE first == [v \in Verdicts(p) |-> v[1]]
<1>1. first \in Surjection(Verdicts(p), AtValidator(p))
  <2>1. ASSUME NEW v \in Verdicts(p) PROVE first[v] \in AtValidator(p)
    BY <2>1 DEF Verdicts, AtValidator
  <2>2. ASSUME NEW s \in AtValidator(p) PROVE \E v \in Verdicts(p) : first[v] = s
    <3>1. PICK f \in FinalBlock : <<p, s, f>> \in arrived
      BY <2>2 DEF AtValidator
    <3>2. <<s, f>> \in Verdicts(p)
      BY <2>2, <3>1 DEF Verdicts, AtValidator
    <3> QED
      BY <3>2
  <2> QED
    BY <2>1, <2>2 DEF Surjection
<1>2. IsFiniteSet(AtValidator(p)) /\ Cardinality(AtValidator(p)) <= Cardinality(Verdicts(p))
  BY <1>1, FiniteCallbacks, FS_Surjection
<1>3. IsFiniteSet(InFlight(p)) /\ Cardinality(InFlight(p)) \in Nat
      /\ Cardinality(Verdicts(p)) \in Nat /\ Cardinality(AtValidator(p)) \in Nat
  BY <1>2, FiniteCallbacks, FS_CardinalityType
<1>4. /\ Cardinality(Outstanding(p)) = Cardinality(InFlight(p)) + Cardinality(AtValidator(p))
                                        - Cardinality(InFlight(p) \cap AtValidator(p))
      /\ IsFiniteSet(Outstanding(p))
  BY <1>2, <1>3, FS_Union DEF Outstanding
<1>5. Cardinality(InFlight(p) \cap AtValidator(p)) \in Nat /\ Cardinality(Outstanding(p)) \in Nat
  BY <1>2, <1>3, <1>4, FS_CardinalityType, FS_Subset
<1>6. processes[p].credit \in Int /\ Credit \in Nat
  BY WordAssumption DEF TypeOK, InfoOK
<1> QED
  BY <1>2, <1>3, <1>4, <1>5, <1>6 DEF CreditKept

(* Steps that send nothing and credit nothing. *)
Quiet ==
  /\ flight' \subseteq flight /\ arrived' \subseteq arrived /\ used' = used
  /\ Live' \subseteq Live
  /\ \A q \in Live' :
       /\ processes'[q].start = processes[q].start
       /\ processes'[q].end = processes[q].end
       /\ processes'[q].credit = processes[q].credit
       /\ processes'[q].status = 200 <=> processes[q].status = 200
       /\ q \in doomed => q \in doomed'
       /\ processes'[q].insertNum = processes[q].insertNum \/ q \in doomed'

(* They keep the invariant. *)
LEMMA QuietKeepsWindow ==
  ASSUME TypeOK, Window, Quiet
  PROVE  Window'
<1>1. OwnCallbacks'
  BY DEF Window, Quiet, OwnCallbacks, Outstanding, InFlight, AtValidator, IsSegmentProcess
<1>2. SuccessHasEnd'
  BY DEF Window, Quiet, SuccessHasEnd
<1>3. FinishedIsDoomed'
  BY DEF Window, Quiet, FinishedIsDoomed, IsSegmentProcess
<1>4. CreditKept'
  <2> SUFFICES ASSUME NEW p \in Live', IsSegmentProcess(p)'
               PROVE  /\ processes'[p].credit >= 0
                      /\ processes'[p].credit + Cardinality(InFlight(p)') + Cardinality(Verdicts(p)') <= Credit
    BY DEF CreditKept
  <2>1. p \in Live /\ IsSegmentProcess(p) /\ processes'[p].credit = processes[p].credit
    BY DEF Quiet, IsSegmentProcess
  <2>2. InFlight(p)' \in SUBSET InFlight(p) /\ Verdicts(p)' \in SUBSET Verdicts(p)
    BY DEF Quiet, InFlight, Verdicts
  <2>3. /\ Cardinality(InFlight(p)') <= Cardinality(InFlight(p)) /\ Cardinality(InFlight(p)') \in Nat
        /\ Cardinality(Verdicts(p)') <= Cardinality(Verdicts(p)) /\ Cardinality(Verdicts(p)') \in Nat
    BY <2>2, FiniteCallbacks, FS_Subset, FS_CardinalityType
  <2>4. Cardinality(InFlight(p)) \in Nat /\ Cardinality(Verdicts(p)) \in Nat
    BY FiniteCallbacks
  <2>5. processes[p].credit \in Int /\ Credit \in Nat
    BY <2>1, WordAssumption DEF TypeOK, InfoOK
  <2> QED
    BY <2>1, <2>3, <2>4, <2>5 DEF Window, CreditKept
<1> QED
  BY <1>1, <1>2, <1>3, <1>4 DEF Window

(* The end of the process leaves no process. *)
LEMMA ExitIsQuiet == Exit => Quiet
<1> SUFFICES ASSUME Exit PROVE Quiet
  OBVIOUS
<1>1. Live' = {}
  BY DEF Exit, Live
<1> QED
  BY <1>1 DEF Exit, Quiet

(* The handlers that send nothing and credit nothing. *)
LEMMA QuietSteps ==
  ASSUME TypeOK, Window, NEW p \in Proc, NEW s \in Segment, NEW f \in FinalBlock
  PROVE  /\ Refused(p, s, f) \/ LateData(p, s, f) => Quiet
         /\ DataThrows(p, s, f) => Quiet
         /\ DataValidated(p, f) => Quiet
         /\ GiveUp(p, s) \/ DeleteProcess(p) => Quiet
         /\ Retry(p, s) \/ NoEndTimePasses(p) => Quiet
         /\ Check(p) => Quiet
         /\ UNCHANGED vars => Quiet
<1>1. Refused(p, s, f) \/ LateData(p, s, f) => Quiet
  BY DEF Refused, LateData, Quiet, Live
<1>2. DataThrows(p, s, f) => Quiet
  BY ExitIsQuiet DEF DataThrows
<1>3. ASSUME NEW q \in Live PROVE InfoOK(processes[q])
  BY <1>3 DEF TypeOK
<1>4. DataValidated(p, f) => Quiet
  <2> SUFFICES ASSUME DataValidated(p, f) PROVE Quiet
    OBVIOUS
  <2> DEFINE info == [processes[p] EXCEPT !.insertNum = 1]
  <2>1. p \in Live /\ SetProcess(p, info) /\ doomed' = doomed \cup {p}
        /\ arrived' \subseteq arrived /\ UNCHANGED <<used, flight>>
    BY DEF DataValidated
  <2>2. /\ info.start = processes[p].start /\ info.end = processes[p].end
        /\ info.credit = processes[p].credit /\ info.status = processes[p].status
    BY <1>3, <2>1 DEF InfoOK
  <2>3. Live' = Live /\ \A q \in Live' : processes'[q] = IF q = p THEN info ELSE processes[q]
    BY <2>1 DEF SetProcess, Live
  <2> HIDE DEF info
  <2> QED
    BY <2>1, <2>2, <2>3 DEF Quiet
<1>5. GiveUp(p, s) \/ DeleteProcess(p) => Quiet
  <2> SUFFICES ASSUME GiveUp(p, s) \/ DeleteProcess(p) PROVE Quiet
    OBVIOUS
  <2>1. Live' = Live \ {p} /\ \A q \in Live' : processes'[q] = processes[q]
    BY EraseProcessOK DEF GiveUp, DeleteProcess
  <2> QED
    BY <2>1 DEF GiveUp, DeleteProcess, Quiet
<1>6. Retry(p, s) \/ NoEndTimePasses(p) => Quiet
  <2> SUFFICES ASSUME Retry(p, s) \/ NoEndTimePasses(p) PROVE Quiet
    OBVIOUS
  <2>1. PICK info : /\ SetProcess(p, info)
                    /\ info = Retried(processes[p], s) \/ info = [processes[p] EXCEPT !.noEnd = "passed"]
    BY DEF Retry, Retried, NoEndTimePasses
  <2>2. p \in Live /\ UNCHANGED <<used, flight, arrived, doomed>>
    BY DEF Retry, NoEndTimePasses
  <2>3. /\ info.start = processes[p].start /\ info.end = processes[p].end
        /\ info.credit = processes[p].credit /\ info.status = processes[p].status
        /\ info.insertNum = processes[p].insertNum
    BY <1>3, <2>1, <2>2 DEF InfoOK, Retried
  <2>4. Live' = Live /\ \A q \in Live' : processes'[q] = IF q = p THEN info ELSE processes[q]
    BY <2>1, <2>2 DEF SetProcess, Live
  <2> QED
    BY <2>2, <2>3, <2>4 DEF Quiet
<1>7. Check(p) => Quiet
  <2> SUFFICES ASSUME Check(p) PROVE Quiet
    OBVIOUS
  <2> DEFINE info == [processes[p] EXCEPT !.status = 405]
  <2>1. UNCHANGED <<used, flight, arrived, doomed>>
    BY DEF Check
  <2>2. CASE UNCHANGED processes
    BY <2>1, <2>2 DEF Quiet, Live
  <2>3. CASE p \in Live /\ processes[p].end = NoBlock /\ SetProcess(p, info)
    <3>1. /\ info.start = processes[p].start /\ info.end = processes[p].end
          /\ info.credit = processes[p].credit /\ info.status = 405
          /\ info.insertNum = processes[p].insertNum
      BY <1>3, <2>3 DEF InfoOK
    <3>2. processes[p].status # 200
      BY <2>3 DEF Window, SuccessHasEnd
    <3>3. Live' = Live /\ \A q \in Live' : processes'[q] = IF q = p THEN info ELSE processes[q]
      BY <2>3 DEF SetProcess, Live
    <3> HIDE DEF info
    <3> QED
      BY <2>1, <3>1, <3>2, <3>3 DEF Quiet
  <2> QED
    BY <2>2, <2>3 DEF Check
<1>8. UNCHANGED vars => Quiet
  BY DEF vars, Quiet, Live
<1> QED
  BY <1>1, <1>2, <1>4, <1>5, <1>6, <1>7, <1>8

(* A single insert has one Interest out and no credit. *)
LEMMA InsertSingleKeepsWindow ==
  ASSUME TypeOK, Window, NEW p \in Proc, NEW c \in Command, InsertSingle(p, c)
  PROVE  Window'
<1>1. p \notin used /\ p \notin Live
  BY DEF InsertSingle, TypeOK
<1>2. /\ Live' = Live \cup {p} /\ used' = used \cup {p}
      /\ flight' = flight \cup {<<p, Whole>>} /\ arrived' = arrived /\ doomed' = doomed
      /\ \A q \in Live' : processes'[q] = IF q = p THEN NewInfo(c) ELSE processes[q]
  BY DEF InsertSingle, SetProcess, Live
<1>3. NewInfo(c).start = NoBlock /\ NewInfo(c).status = 300 /\ NewInfo(c).insertNum = 0
  BY NewInfoOK DEF InsertSingle, IsSegmented
<1>4. OwnCallbacks'
  BY <1>1, <1>2 DEF Window, OwnCallbacks, Outstanding, InFlight, AtValidator, IsSegmentProcess
<1>5. SuccessHasEnd' /\ FinishedIsDoomed'
  BY <1>2, <1>3 DEF Window, SuccessHasEnd, FinishedIsDoomed, IsSegmentProcess
<1>6. CreditKept'
  BY <1>2, <1>3 DEF Window, CreditKept, IsSegmentProcess, InFlight, Verdicts
<1> QED
  BY <1>4, <1>5, <1>6 DEF Window

(* x % Word is not larger than x. *)
LEMMA ModuloBelow == ASSUME NEW k \in Nat PROVE (k % Word) <= k
  BY WordAssumption

(* segInit spends at most the credit it starts with. *)
LEMMA InsertSegmentedKeepsWindow ==
  ASSUME TypeOK, Window, NEW p \in Proc, NEW c \in Command, InsertSegmented(p, c)
  PROVE  Window'
<1> DEFINE credit == InitialCredit(c)
           stop   == (StartOf(c) + credit) % Word
           window == {s \in SegmentNo : StartOf(c) <= s /\ s < stop}
           next   == IF window = {} THEN StartOf(c) ELSE stop
           info   == SegmentInfo(c, credit, window, next)
<1>1. p \notin used /\ p \notin Live
  BY DEF InsertSegmented, TypeOK
<1>2. /\ SetProcess(p, info) /\ used' = used \cup {p} /\ arrived' = arrived /\ doomed' = doomed
      /\ flight' = flight \cup {<<p, s>> : s \in window}
  BY DEF InsertSegmented, SegmentInfo
<1>3. Live' = Live \cup {p} /\ \A q \in Live' : processes'[q] = IF q = p THEN info ELSE processes[q]
  <2> HIDE DEF info
  <2> QED
    BY <1>2 DEF SetProcess, Live
<1>4. StartOf(c) \in SegmentNo /\ (c.end # NoBlock => c.end \in SegmentNo)
  BY CommandAssumption, SegmentNumbers DEF StartOf
<1>5. credit \in 0..Credit
  <2>1. c.end # NoBlock => NSegments(StartOf(c), c.end) \in SegmentNo
    <3>1. c.end # NoBlock => c.end - StartOf(c) + 1 \in Int
      BY <1>4, WordAssumption DEF SegmentNo
    <3> QED
      BY <3>1, SegmentNumbers DEF NSegments
  <2> QED
    BY <2>1, WordAssumption DEF InitialCredit, SegmentNo
<1>6. stop \in SegmentNo /\ stop <= StartOf(c) + credit
  <2>1. StartOf(c) + credit \in Nat
    BY <1>4, <1>5, WordAssumption DEF SegmentNo
  <2> QED
    BY <2>1, ModuloBelow, SegmentNumbers
<1>7. Cardinality(window) \in 0..credit
  <2>1. window \in SUBSET (StartOf(c)..(StartOf(c) + credit - 1))
    BY <1>4, <1>5, <1>6, WordAssumption DEF SegmentNo
  <2>2. /\ IsFiniteSet(StartOf(c)..(StartOf(c) + credit - 1))
        /\ Cardinality(StartOf(c)..(StartOf(c) + credit - 1)) = credit
    <3>1. StartOf(c) \in Int /\ StartOf(c) + credit - 1 \in Int /\ credit \in Nat
      BY <1>4, <1>5, WordAssumption DEF SegmentNo
    <3>2. Cardinality(StartOf(c)..(StartOf(c) + credit - 1))
            = IF StartOf(c) > StartOf(c) + credit - 1 THEN 0
              ELSE (StartOf(c) + credit - 1) - StartOf(c) + 1
      BY <3>1, FS_Interval
    <3>3. IsFiniteSet(StartOf(c)..(StartOf(c) + credit - 1))
      BY <3>1, FS_Interval
    <3> HIDE DEF credit
    <3> QED
      BY <3>1, <3>2, <3>3
  <2> HIDE DEF window, credit
  <2>3. Cardinality(window) <= credit /\ Cardinality(window) \in Nat
    BY <2>1, <2>2, FS_Subset, FS_CardinalityType
  <2> QED
    BY <1>5, <2>3
<1>8. /\ info.start # NoBlock /\ info.status = 300 /\ info.insertNum = 0
      /\ info.credit = credit - Cardinality(window)
  <2>1. window \in SUBSET SegmentNo /\ next \in SegmentNo /\ credit \in Int
    BY <1>4, <1>5, <1>6
  <2>2. InfoOK(NewInfo(c)) /\ NewInfo(c).insertNum = 0
    BY NewInfoOK
  <2> HIDE DEF window, next, credit
  <2>3. info.start # NoBlock /\ info.status = 300
    BY <2>1, SegmentInfoOK
  <2>4. info.insertNum = 0 /\ info.credit = credit - Cardinality(window)
    BY <2>2 DEF SegmentInfo, InfoOK
  <2> QED
    BY <2>3, <2>4
<1>9. OwnCallbacks'
  <2> HIDE DEF window, info
  <2>1. window \subseteq SegmentNo
    BY DEF window
  <2> QED
    BY <1>1, <1>2, <1>3, <1>8, <2>1
    DEF Window, OwnCallbacks, Outstanding, InFlight, AtValidator, IsSegmentProcess
<1>10. SuccessHasEnd' /\ FinishedIsDoomed'
  <2> HIDE DEF info
  <2> QED
    BY <1>2, <1>3, <1>8 DEF Window, SuccessHasEnd, FinishedIsDoomed, IsSegmentProcess
<1>11. CreditKept'
  <2> SUFFICES ASSUME NEW q \in Live', IsSegmentProcess(q)'
               PROVE  /\ processes'[q].credit >= 0
                      /\ processes'[q].credit + Cardinality(InFlight(q)') + Cardinality(Verdicts(q)') <= Credit
    BY DEF CreditKept
  <2>1. CASE q = p
    <3>1. Verdicts(p)' = {}
      BY <1>1, <1>2 DEF Window, OwnCallbacks, Outstanding, AtValidator, Verdicts
    <3>2. InFlight(p)' = window
      <4> HIDE DEF window
      <4>1. window \subseteq Segment
        BY DEF window, Segment
      <4> QED
        BY <1>1, <1>2, <4>1 DEF Window, OwnCallbacks, Outstanding, InFlight
    <3>3. processes'[q].credit = credit - Cardinality(window)
      <4> HIDE DEF info
      <4> QED
        BY <1>3, <1>8, <2>1
    <3> HIDE DEF window, credit
    <3> QED
      BY <1>5, <1>7, <2>1, <3>1, <3>2, <3>3, FS_EmptySet, WordAssumption
  <2>2. CASE q # p
    <3>1. q \in Live /\ processes'[q] = processes[q]
      BY <1>3, <2>2
    <3>2. InFlight(q)' = InFlight(q) /\ Verdicts(q)' = Verdicts(q)
      BY <1>2, <2>2 DEF InFlight, Verdicts
    <3> QED
      BY <3>1, <3>2 DEF Window, CreditKept, IsSegmentProcess
  <2> QED
    BY <2>1, <2>2
<1> QED
  BY <1>9, <1>10, <1>11 DEF Window

(* A Data that goes to the validator was an Interest before. *)
LEMMA DeliverKeepsWindow ==
  ASSUME TypeOK, Window, NEW p \in Proc, NEW s \in Segment, NEW f \in FinalBlock, Deliver(p, s, f)
  PROVE  Window'
<1>1. /\ <<p, s>> \in flight /\ flight' = flight \ {<<p, s>>}
      /\ arrived' = arrived \cup {<<p, s, f>>}
      /\ UNCHANGED <<processes, used, doomed>>
  BY DEF Deliver
<1>2. Live' = Live
  BY <1>1 DEF Live
<1>3. OwnCallbacks'
  BY <1>1, <1>2 DEF Window, OwnCallbacks, Outstanding, InFlight, AtValidator, IsSegmentProcess
<1>4. SuccessHasEnd' /\ FinishedIsDoomed'
  BY <1>1, <1>2 DEF Window, SuccessHasEnd, FinishedIsDoomed, IsSegmentProcess
<1>5. CreditKept'
  <2> SUFFICES ASSUME NEW q \in Live', IsSegmentProcess(q)'
               PROVE  /\ processes'[q].credit >= 0
                      /\ processes'[q].credit + Cardinality(InFlight(q)') + Cardinality(Verdicts(q)') <= Credit
    BY DEF CreditKept
  <2>1. q \in Live /\ IsSegmentProcess(q) /\ processes'[q] = processes[q]
    BY <1>1, <1>2 DEF IsSegmentProcess
  <2>2. CASE q = p
    <3>1. InFlight(p)' = InFlight(p) \ {s} /\ s \in InFlight(p)
      BY <1>1 DEF InFlight
    <3>2. Verdicts(p)' = Verdicts(p) \cup {<<s, f>>}
      BY <1>1 DEF Verdicts
    <3>3. Cardinality(InFlight(p)') = Cardinality(InFlight(p)) - 1
      BY <3>1, FiniteCallbacks, FS_RemoveElement
    <3>4. Cardinality(Verdicts(p)') \in {Cardinality(Verdicts(p)), Cardinality(Verdicts(p)) + 1}
      <4>1. IsFiniteSet(Verdicts(p))
        BY FiniteCallbacks
      <4> QED
        BY <3>2, <4>1, FS_AddElement
    <3>5. Cardinality(InFlight(p)) \in Nat /\ Cardinality(Verdicts(p)) \in Nat
      BY FiniteCallbacks
    <3>6. processes[p].credit \in Int /\ Credit \in Nat
      BY <2>1, <2>2, WordAssumption DEF TypeOK, InfoOK
    <3> QED
      BY <2>1, <2>2, <3>3, <3>4, <3>5, <3>6 DEF Window, CreditKept
  <2>3. CASE q # p
    <3>1. InFlight(q)' = InFlight(q) /\ Verdicts(q)' = Verdicts(q)
      BY <1>1, <2>3 DEF InFlight, Verdicts
    <3> QED
      BY <2>1, <3>1 DEF Window, CreditKept
  <2> QED
    BY <2>2, <2>3
<1> QED
  BY <1>3, <1>4, <1>5 DEF Window

(* What a validated segment does to its process: a credit comes back, and pays for the
   Interest that is sent, if one is. *)
LEMMA SegmentValidatedEffect ==
  ASSUME TypeOK, Window, NEW p \in Proc, NEW s \in Segment, NEW f \in FinalBlock,
         SegmentValidated(p, s, f)
  PROVE  \E new :
           /\ SetProcess(p, new)
           /\ new.start = processes[p].start
           /\ new.name = processes[p].name /\ new.insertNum = processes[p].insertNum + 1
           /\ new.status = 200 => new.end # NoBlock /\ p \in doomed'
           /\ processes[p].status = 200 => new.status = 200
           /\ \/ flight' = flight /\ new.credit = processes[p].credit + 1
              \/ \E h \in SegmentNo :
                   flight' = flight \cup {<<p, h>>} /\ new.credit = processes[p].credit
<1> DEFINE info == Counted(p, f)
<1>1. p \in Live /\ f # NoSegment
  BY DEF SegmentValidated
<1>2. InfoOK(processes[p]) /\ processes[p].credit \in Int
  BY <1>1 DEF TypeOK, InfoOK
<1>3. /\ InfoOK(info) /\ info.start = processes[p].start /\ info.status = processes[p].status
      /\ info.name = processes[p].name /\ info.insertNum = processes[p].insertNum + 1
      /\ processes[p].end # NoBlock => info.end # NoBlock
  BY <1>1, CountedOK
<1>4. info.credit = processes[p].credit + 1
  BY <1>2 DEF Counted, InfoOK
<1>5. info.status = 200 => info.end # NoBlock /\ p \in doomed
  <2>1. processes[p].status = 200 => processes[p].end # NoBlock /\ p \in doomed
    BY <1>1 DEF Window, SuccessHasEnd, FinishedIsDoomed
  <2> HIDE DEF info
  <2> QED
    BY <1>3, <2>1
<1> HIDE DEF info
<1>6. CASE PastNoEnd(info) /\ SetProcess(p, [info EXCEPT !.status = 405]) /\ UNCHANGED flight
  <2> DEFINE new == [info EXCEPT !.status = 405]
  <2>1. info.status # 200
    BY <1>5, <1>6 DEF PastNoEnd
  <2>2. new.start = info.start /\ new.status = 405 /\ new.credit = info.credit
        /\ new.name = info.name /\ new.insertNum = info.insertNum
    BY <1>3 DEF InfoOK
  <2>3. SetProcess(p, new)
    BY <1>6
  <2> HIDE DEF new
  <2> QED
    BY <1>3, <1>4, <1>6, <2>1, <2>2, <2>3
<1>7. CASE /\ AllInserted(info) /\ SetProcess(p, [info EXCEPT !.status = 200]) /\ UNCHANGED flight
           /\ doomed' = doomed \cup {p}
  <2> DEFINE new == [info EXCEPT !.status = 200]
  <2>1. /\ new.start = info.start /\ new.status = 200 /\ new.end = info.end
        /\ new.credit = info.credit /\ new.name = info.name /\ new.insertNum = info.insertNum
    BY <1>3 DEF InfoOK
  <2>2. info.end # NoBlock
    BY <1>7 DEF AllInserted
  <2>3. SetProcess(p, new) /\ p \in doomed'
    BY <1>7
  <2> HIDE DEF new
  <2> QED
    BY <1>3, <1>4, <1>7, <2>1, <2>2, <2>3
<1>8. CASE SetProcess(p, info) /\ UNCHANGED <<flight, doomed>>
  BY <1>3, <1>4, <1>5, <1>8
<1>9. CASE SetProcess(p, [info EXCEPT !.queue = Tail(@)]) /\ UNCHANGED <<flight, doomed>>
  <2> DEFINE new == [info EXCEPT !.queue = Tail(@)]
  <2>1. /\ new.start = info.start /\ new.status = info.status /\ new.end = info.end
        /\ new.credit = info.credit /\ new.name = info.name /\ new.insertNum = info.insertNum
    BY <1>3 DEF InfoOK
  <2>2. SetProcess(p, new)
    BY <1>9
  <2> HIDE DEF new
  <2> QED
    BY <1>3, <1>4, <1>5, <1>9, <2>1, <2>2
<1>10. CASE /\ ~NothingToSend(info) /\ SetProcess(p, AfterSending(info, s))
            /\ flight' = flight \cup {<<p, Head(info.queue)>>} /\ UNCHANGED doomed
  <2>1. info.queue # <<>>
    BY <1>10 DEF NothingToSend
  <2>2. /\ Head(info.queue) \in SegmentNo
        /\ AfterSending(info, s).start = info.start
        /\ AfterSending(info, s).status = info.status
        /\ AfterSending(info, s).end = info.end
        /\ AfterSending(info, s).name = info.name
        /\ AfterSending(info, s).insertNum = info.insertNum
    BY <1>3, <2>1, AfterSendingOK
  <2>3. AfterSending(info, s).credit = info.credit - 1
    BY <1>3 DEF AfterSending, InfoOK
  <2>4. AfterSending(info, s).credit = processes[p].credit
    BY <1>2, <1>4, <2>3
  <2> QED
    BY <1>3, <1>5, <1>10, <2>2, <2>4
<1> QED
  BY <1>6, <1>7, <1>8, <1>9, <1>10 DEF SegmentValidated, info

(* A validated segment keeps the sum of credits and callbacks. *)
LEMMA SegmentValidatedKeepsWindow ==
  ASSUME TypeOK, Window, NEW p \in Proc, NEW s \in Segment, NEW f \in FinalBlock,
         SegmentValidated(p, s, f)
  PROVE  Window'
<1>1. /\ p \in Live /\ s # Whole /\ <<p, s, f>> \in arrived /\ arrived' = arrived \ {<<p, s, f>>}
      /\ used' = used /\ doomed \subseteq doomed'
  BY DEF SegmentValidated
<1>2. IsSegmentProcess(p) /\ p \in used
  BY <1>1 DEF Window, OwnCallbacks, Outstanding, AtValidator
<1>3. PICK new :
        /\ SetProcess(p, new)
        /\ new.start = processes[p].start
        /\ new.status = 200 => new.end # NoBlock /\ p \in doomed'
        /\ \/ flight' = flight /\ new.credit = processes[p].credit + 1
           \/ \E h \in SegmentNo :
                flight' = flight \cup {<<p, h>>} /\ new.credit = processes[p].credit
  BY SegmentValidatedEffect
<1>4. Live' = Live /\ \A q \in Live' : processes'[q] = IF q = p THEN new ELSE processes[q]
  BY <1>1, <1>3 DEF SetProcess, Live
<1>5. new.start # NoBlock
  BY <1>2, <1>3 DEF IsSegmentProcess
<1>6. OwnCallbacks'
  <2> SUFFICES ASSUME NEW q \in Proc, NEW t \in Outstanding(q)'
               PROVE  q \in used' /\ (q \in Live' /\ t # Whole => IsSegmentProcess(q)')
    BY DEF OwnCallbacks
  <2>1. CASE q = p
    BY <1>1, <1>2, <1>4, <1>5, <2>1 DEF IsSegmentProcess
  <2>2. CASE q # p
    <3>1. t \in Outstanding(q)
      BY <1>1, <1>3, <2>2 DEF Outstanding, InFlight, AtValidator
    <3> QED
      BY <1>1, <1>4, <2>2, <3>1 DEF Window, OwnCallbacks, IsSegmentProcess
  <2> QED
    BY <2>1, <2>2
<1>7. SuccessHasEnd'
  BY <1>3, <1>4 DEF Window, SuccessHasEnd
<1>8. FinishedIsDoomed'
  BY <1>1, <1>3, <1>4, <1>5 DEF Window, FinishedIsDoomed, IsSegmentProcess
<1>9. CreditKept'
  <2> SUFFICES ASSUME NEW q \in Live', IsSegmentProcess(q)'
               PROVE  /\ processes'[q].credit >= 0
                      /\ processes'[q].credit + Cardinality(InFlight(q)') + Cardinality(Verdicts(q)') <= Credit
    BY DEF CreditKept
  <2>1. CASE q = p
    <3>1. Verdicts(p)' = Verdicts(p) \ {<<s, f>>} /\ <<s, f>> \in Verdicts(p)
      BY <1>1 DEF Verdicts
    <3>2. Cardinality(Verdicts(p)') = Cardinality(Verdicts(p)) - 1
      BY <3>1, FiniteCallbacks, FS_RemoveElement
    <3>3. Cardinality(InFlight(p)) \in Nat /\ Cardinality(Verdicts(p)) \in Nat
      BY FiniteCallbacks
    <3>4. processes[p].credit \in Int /\ Credit \in Nat
      BY <1>1, WordAssumption DEF TypeOK, InfoOK
    <3>5. /\ processes[p].credit >= 0
          /\ processes[p].credit + Cardinality(InFlight(p)) + Cardinality(Verdicts(p)) <= Credit
      BY <1>1, <1>2 DEF Window, CreditKept
    <3>6. processes'[q] = new
      BY <1>4, <2>1
    <3>7. CASE flight' = flight /\ new.credit = processes[p].credit + 1
      <4>1. InFlight(p)' = InFlight(p)
        BY <3>7 DEF InFlight
      <4> QED
        BY <2>1, <3>2, <3>3, <3>4, <3>5, <3>6, <3>7, <4>1
    <3>8. ASSUME NEW h \in SegmentNo, flight' = flight \cup {<<p, h>>},
                 new.credit = processes[p].credit
          PROVE  /\ new.credit >= 0
                 /\ new.credit + Cardinality(InFlight(p)') + Cardinality(Verdicts(p)') <= Credit
      <4>1. InFlight(p)' = InFlight(p) \cup {h}
        BY <3>8 DEF InFlight, Segment
      <4>2. IsFiniteSet(InFlight(p))
        BY FiniteCallbacks
      <4>3. Cardinality(InFlight(p)') \in {Cardinality(InFlight(p)), Cardinality(InFlight(p)) + 1}
        BY <4>1, <4>2, FS_AddElement
      <4> QED
        BY <3>2, <3>3, <3>4, <3>5, <3>8, <4>3
    <3> QED
      BY <1>3, <2>1, <3>6, <3>7, <3>8
  <2>2. CASE q # p
    <3>1. q \in Live /\ processes'[q] = processes[q]
      BY <1>4, <2>2
    <3>2. InFlight(q)' = InFlight(q) /\ Verdicts(q)' = Verdicts(q)
      BY <1>1, <1>3, <2>2 DEF InFlight, Verdicts
    <3> QED
      BY <3>1, <3>2 DEF Window, CreditKept, IsSegmentProcess
  <2> QED
    BY <2>1, <2>2
<1> QED
  BY <1>6, <1>7, <1>8, <1>9 DEF Window

-----------------------------------------------------------------------------
(* Nothing is out at the start. *)
LEMMA InitWindow == Init => Window
<1> SUFFICES ASSUME Init PROVE Window
  OBVIOUS
<1>1. Live = {} /\ \A p : Outstanding(p) = {}
  BY DEF Init, Live, Outstanding, InFlight, AtValidator
<1> QED
  BY <1>1 DEF Window, OwnCallbacks, SuccessHasEnd, FinishedIsDoomed, CreditKept

(* Every step keeps the invariant. *)
LEMMA NextWindow == TypeOK /\ Window /\ [Next]_vars => Window'
<1> SUFFICES ASSUME TypeOK, Window, [Next]_vars PROVE Window'
  OBVIOUS
<1>1. NoBlock \in FinalBlock /\ Whole \in Segment
  BY DEF FinalBlock, Segment
<1>2. ASSUME NEW c \in Command, RejectCommand(c) PROVE Window'
  <2>1. Quiet
    BY <1>2 DEF RejectCommand, Quiet, Live
  <2> QED
    BY <2>1, QuietKeepsWindow
<1>3. ASSUME UNCHANGED vars PROVE Window'
  <2>1. Quiet
    BY <1>3 DEF vars, Quiet, Live
  <2> QED
    BY <2>1, QuietKeepsWindow
<1>4. ASSUME NEW p \in Proc, NEW c \in Command, InsertSingle(p, c) \/ InsertSegmented(p, c)
      PROVE Window'
  BY <1>4, InsertSingleKeepsWindow, InsertSegmentedKeepsWindow
<1>5. ASSUME NEW p \in Proc, NEW s \in Segment, NEW f \in FinalBlock,
             Deliver(p, s, f) \/ SegmentValidated(p, s, f)
      PROVE Window'
  BY <1>5, DeliverKeepsWindow, SegmentValidatedKeepsWindow
<1>6. ASSUME NEW p \in Proc, NEW s \in Segment, NEW f \in FinalBlock,
             \/ Refused(p, s, f) \/ LateData(p, s, f) \/ DataThrows(p, s, f) \/ DataValidated(p, f)
             \/ GiveUp(p, s) \/ Retry(p, s) \/ NoEndTimePasses(p) \/ DeleteProcess(p) \/ Check(p)
      PROVE Window'
  BY <1>6, QuietSteps, QuietKeepsWindow
<1>7. MalformedCommand => Window'
  BY ExitIsQuiet, QuietKeepsWindow DEF MalformedCommand
<1> QED
  BY <1>1, <1>2, <1>3, <1>4, <1>5, <1>6, <1>7 DEF Next

(* The inductive invariant of the window. *)
LEMMA WindowInvariant == Spec => [](TypeOK /\ Window)
  BY InitTypeOK, NextTypeOK, InitWindow, NextWindow, PTL DEF Spec

(* A finished process has its deletion scheduled. *)
THEOREM FinishedIsDeleted == Spec => []FinishedIsDoomed
<1>1. Window => FinishedIsDoomed
  BY DEF Window
<1> QED
  BY <1>1, WindowInvariant, PTL

(* The window is never exceeded, whatever the producer, the network and the validator
   do, even where segment numbers wrap around. *)
THEOREM WindowNeverExceeded == Spec => []CreditBound
<1>1. TypeOK /\ Window => CreditBound
  BY CreditKeptBounds DEF Window
<1> QED
  BY <1>1, WindowInvariant, PTL

(* A status of 200 is never followed by another one. *)
THEOREM SuccessStays == Spec => SuccessIsFinal
<1> DEFINE Stays == \A p \in Live : processes[p].status = 200 /\ p \in DOMAIN processes' =>
                      processes'[p].status = 200
<1>1. TypeOK /\ Window /\ [Next]_vars => Stays
  <2> SUFFICES ASSUME TypeOK, Window, [Next]_vars, NEW q \in Live, processes[q].status = 200,
                      q \in DOMAIN processes'
               PROVE  processes'[q].status = 200
    OBVIOUS
  <2>1. NoBlock \in FinalBlock /\ Whole \in Segment /\ q \in used
    BY DEF FinalBlock, Segment, TypeOK
  <2>2. Quiet => processes'[q].status = 200
    BY DEF Quiet, Live
  <2>3. ASSUME NEW p \in Proc, NEW c \in Command, InsertSingle(p, c) \/ InsertSegmented(p, c)
        PROVE  processes'[q].status = 200
    <3>1. p # q /\ \E info : SetProcess(p, info)
      BY <2>1, <2>3 DEF InsertSingle, InsertSegmented
    <3> QED
      BY <3>1 DEF SetProcess, Live
  <2>4. ASSUME NEW p \in Proc, NEW s \in Segment, NEW f \in FinalBlock, Deliver(p, s, f)
        PROVE  processes'[q].status = 200
    BY <2>4 DEF Deliver
  <2>5. ASSUME NEW p \in Proc, NEW s \in Segment, NEW f \in FinalBlock, SegmentValidated(p, s, f)
        PROVE  processes'[q].status = 200
    <3>1. PICK new : SetProcess(p, new) /\ (processes[p].status = 200 => new.status = 200)
      BY <2>5, SegmentValidatedEffect
    <3> QED
      BY <3>1 DEF SetProcess, Live
  <2>6. ASSUME NEW p \in Proc, NEW s \in Segment, NEW f \in FinalBlock,
               \/ Refused(p, s, f) \/ LateData(p, s, f) \/ DataThrows(p, s, f)
               \/ DataValidated(p, f) \/ GiveUp(p, s) \/ Retry(p, s) \/ NoEndTimePasses(p)
               \/ DeleteProcess(p) \/ Check(p)
        PROVE  processes'[q].status = 200
    BY <2>2, <2>6, QuietSteps
  <2>7. ASSUME UNCHANGED processes PROVE processes'[q].status = 200
    BY <2>7
  <2>8. (\E c \in Command : RejectCommand(c)) \/ UNCHANGED vars => UNCHANGED processes
    BY DEF RejectCommand, vars
  <2>9. MalformedCommand => DOMAIN processes' = {}
    BY DEF MalformedCommand, Exit
  <2>10. ~MalformedCommand
    BY <2>9
  <2> QED
    BY <2>1, <2>3, <2>4, <2>5, <2>6, <2>7, <2>8, <2>10 DEF Next
<1>2. TypeOK /\ Window /\ [Next]_vars => [Stays]_vars
  BY <1>1
<1> QED
  BY <1>2, WindowInvariant, PTL DEF Spec, SuccessIsFinal

-----------------------------------------------------------------------------
(* What InsertNum counts. *)
SingleOnce ==
  \A p \in Live : ~IsSegmentProcess(p) =>
    /\ processes[p].insertNum \in {0, 1}
    /\ Outstanding(p) \subseteq {Whole}

WholeIsSingle == \A p \in Live : Whole \in Outstanding(p) => ~IsSegmentProcess(p)

(* Packets are stored by processes that had an id. *)
StoredByUsed == \A n, s : \A p \in Proc : <<n, s, p>> \in stored => p \in used

Counts == SingleOnce /\ WholeIsSingle /\ StoredByUsed /\ InsertNumIsStored

(* Steps that store nothing and start no process. *)
NothingStored ==
  /\ used' = used /\ stored' = stored /\ Live' \subseteq Live
  /\ \A q \in Live' :
       /\ processes'[q].start = processes[q].start
       /\ processes'[q].name = processes[q].name
       /\ processes'[q].insertNum = processes[q].insertNum
       /\ Outstanding(q)' \subseteq Outstanding(q)

(* They keep what InsertNum counts. *)
LEMMA NothingStoredKeepsCounts ==
  ASSUME Counts, NothingStored
  PROVE  Counts'
<1>1. SingleOnce' /\ WholeIsSingle'
  BY DEF Counts, NothingStored, SingleOnce, WholeIsSingle, IsSegmentProcess
<1>2. StoredByUsed'
  BY DEF Counts, NothingStored, StoredByUsed
<1>3. InsertNumIsStored'
  <2> SUFFICES ASSUME NEW p \in Live'
               PROVE  processes'[p].insertNum = Cardinality(StoredBy(p)')
    BY DEF InsertNumIsStored
  <2>1. StoredBy(p)' = StoredBy(p)
    BY DEF NothingStored, StoredBy
  <2> QED
    BY <2>1 DEF Counts, NothingStored, InsertNumIsStored
<1> QED
  BY <1>1, <1>2, <1>3 DEF Counts

(* A process stores finitely many segments. *)
LEMMA FiniteStored ==
  \A p : IsFiniteSet(StoredBy(p)) /\ Cardinality(StoredBy(p)) \in Nat
<1>1. IsFiniteSet(Segment)
  BY SegmentNumbers, FS_AddElement DEF Segment
<1>2. \A p : StoredBy(p) \in SUBSET Segment
  BY DEF StoredBy
<1> QED
  BY <1>1, <1>2, FS_Subset, FS_CardinalityType

(* The end of the process stores nothing. *)
LEMMA ExitStoresNothing == Exit => NothingStored
<1> SUFFICES ASSUME Exit PROVE NothingStored
  OBVIOUS
<1>1. Live' = {}
  BY DEF Exit, Live
<1> QED
  BY <1>1 DEF Exit, NothingStored

(* The handlers that store nothing. *)
LEMMA NothingStoredSteps ==
  ASSUME TypeOK, NEW p \in Proc, NEW s \in Segment, NEW f \in FinalBlock
  PROVE  /\ Deliver(p, s, f) => NothingStored
         /\ Refused(p, s, f) \/ LateData(p, s, f) => NothingStored
         /\ DataThrows(p, s, f) => NothingStored
         /\ GiveUp(p, s) \/ DeleteProcess(p) => NothingStored
         /\ Retry(p, s) \/ NoEndTimePasses(p) => NothingStored
         /\ Check(p) => NothingStored
         /\ UNCHANGED vars => NothingStored
<1>1. Deliver(p, s, f) => NothingStored
  BY DEF Deliver, NothingStored, Live, Outstanding, InFlight, AtValidator
<1>2. Refused(p, s, f) \/ LateData(p, s, f) => NothingStored
  BY DEF Refused, LateData, NothingStored, Live, Outstanding, InFlight, AtValidator
<1>3. DataThrows(p, s, f) => NothingStored
  BY ExitStoresNothing DEF DataThrows
<1>4. GiveUp(p, s) \/ DeleteProcess(p) => NothingStored
  <2> SUFFICES ASSUME GiveUp(p, s) \/ DeleteProcess(p) PROVE NothingStored
    OBVIOUS
  <2>1. Live' = Live \ {p} /\ \A q \in Live' : processes'[q] = processes[q]
    BY EraseProcessOK DEF GiveUp, DeleteProcess
  <2>2. \A q : Outstanding(q)' \subseteq Outstanding(q)
    BY DEF GiveUp, DeleteProcess, Outstanding, InFlight, AtValidator
  <2> QED
    BY <2>1, <2>2 DEF GiveUp, DeleteProcess, NothingStored
<1>5. ASSUME NEW q \in Live PROVE InfoOK(processes[q])
  BY <1>5 DEF TypeOK
<1>6. Retry(p, s) \/ NoEndTimePasses(p) => NothingStored
  <2> SUFFICES ASSUME Retry(p, s) \/ NoEndTimePasses(p) PROVE NothingStored
    OBVIOUS
  <2>1. PICK info : /\ SetProcess(p, info)
                    /\ info = Retried(processes[p], s) \/ info = [processes[p] EXCEPT !.noEnd = "passed"]
    BY DEF Retry, Retried, NoEndTimePasses
  <2>2. p \in Live /\ UNCHANGED <<used, flight, arrived, stored>>
    BY DEF Retry, NoEndTimePasses
  <2>3. /\ info.start = processes[p].start /\ info.name = processes[p].name
        /\ info.insertNum = processes[p].insertNum
    BY <1>5, <2>1, <2>2 DEF InfoOK, Retried
  <2>4. Live' = Live /\ \A q \in Live' : processes'[q] = IF q = p THEN info ELSE processes[q]
    BY <2>1, <2>2 DEF SetProcess, Live
  <2> QED
    BY <2>2, <2>3, <2>4 DEF NothingStored, Outstanding, InFlight, AtValidator
<1>7. Check(p) => NothingStored
  <2> SUFFICES ASSUME Check(p) PROVE NothingStored
    OBVIOUS
  <2> DEFINE info == [processes[p] EXCEPT !.status = 405]
  <2>1. UNCHANGED <<used, flight, arrived, stored>>
    BY DEF Check
  <2>2. CASE UNCHANGED processes
    BY <2>1, <2>2 DEF NothingStored, Live, Outstanding, InFlight, AtValidator
  <2>3. CASE p \in Live /\ SetProcess(p, info)
    <3>1. /\ info.start = processes[p].start /\ info.name = processes[p].name
          /\ info.insertNum = processes[p].insertNum
      BY <1>5, <2>3 DEF InfoOK
    <3>2. Live' = Live /\ \A q \in Live' : processes'[q] = IF q = p THEN info ELSE processes[q]
      BY <2>3 DEF SetProcess, Live
    <3> HIDE DEF info
    <3> QED
      BY <2>1, <3>1, <3>2 DEF NothingStored, Outstanding, InFlight, AtValidator
  <2> QED
    BY <2>2, <2>3 DEF Check
<1>8. UNCHANGED vars => NothingStored
  BY DEF vars, NothingStored, Live, Outstanding, InFlight, AtValidator
<1> QED
  BY <1>1, <1>2, <1>3, <1>4, <1>6, <1>7, <1>8

(* A new process has stored nothing. *)
LEMMA InsertKeepsCounts ==
  ASSUME TypeOK, Window, Counts, NEW p \in Proc, NEW c \in Command,
         InsertSingle(p, c) \/ InsertSegmented(p, c)
  PROVE  Counts'
<1>1. p \notin used /\ p \notin Live
  BY DEF InsertSingle, InsertSegmented, TypeOK
<1>2. PICK info :
        /\ SetProcess(p, info) /\ info.insertNum = 0
        /\ \/ info.start = NoBlock /\ flight' = flight \cup {<<p, Whole>>}
           \/ /\ info.start # NoBlock
              /\ \E window \in SUBSET SegmentNo :
                   flight' = flight \cup {<<p, s>> : s \in window}
  <2>1. CASE InsertSingle(p, c)
    <3>1. NewInfo(c).start = NoBlock /\ NewInfo(c).insertNum = 0
      BY <2>1, NewInfoOK DEF InsertSingle, IsSegmented
    <3> QED
      BY <2>1, <3>1 DEF InsertSingle
  <2>2. CASE InsertSegmented(p, c)
    <3> DEFINE credit == InitialCredit(c)
               stop   == (StartOf(c) + credit) % Word
               window == {s \in SegmentNo : StartOf(c) <= s /\ s < stop}
               next   == IF window = {} THEN StartOf(c) ELSE stop
               info   == SegmentInfo(c, credit, window, next)
    <3>1. SetProcess(p, info) /\ flight' = flight \cup {<<p, s>> : s \in window}
      BY <2>2 DEF InsertSegmented, SegmentInfo
    <3>2. window \in SUBSET SegmentNo
      OBVIOUS
    <3>3. InfoOK(NewInfo(c)) /\ NewInfo(c).insertNum = 0 /\ StartOf(c) # NoBlock
      BY NewInfoOK, SegmentNumbers DEF StartOf, NoBlock
    <3>4. info.insertNum = 0 /\ info.start # NoBlock
      <4> HIDE DEF window, next, credit
      <4> QED
        BY <3>3 DEF SegmentInfo, InfoOK
    <3> HIDE DEF window, info
    <3> QED
      BY <3>1, <3>2, <3>4
  <2> QED
    BY <2>1, <2>2
<1>3. UNCHANGED <<arrived, stored>> /\ used \subseteq used'
  BY DEF InsertSingle, InsertSegmented
<1>4. Live' = Live \cup {p} /\ \A q \in Live' : processes'[q] = IF q = p THEN info ELSE processes[q]
  BY <1>2 DEF SetProcess, Live
<1>5. Outstanding(p) = {}
  BY <1>1 DEF Window, OwnCallbacks
<1>6. \A q : q # p => Outstanding(q)' = Outstanding(q)
  BY <1>2, <1>3 DEF Outstanding, InFlight, AtValidator
<1>7. IF IsSegmentProcess(p)' THEN Outstanding(p)' \subseteq SegmentNo ELSE Outstanding(p)' \subseteq {Whole}
  <2>1. processes'[p] = info
    BY <1>4
  <2>2. AtValidator(p)' = {} /\ InFlight(p) = {}
    BY <1>3, <1>5 DEF Outstanding, AtValidator, InFlight
  <2>3. IF IsSegmentProcess(p)' THEN InFlight(p)' \subseteq SegmentNo ELSE InFlight(p)' \subseteq {Whole}
    BY <1>2, <2>1, <2>2 DEF InFlight, IsSegmentProcess
  <2> QED
    BY <2>2, <2>3 DEF Outstanding
<1>8. SingleOnce' /\ WholeIsSingle'
  <2> SUFFICES ASSUME NEW q \in Live'
               PROVE  /\ ~IsSegmentProcess(q)' => processes'[q].insertNum \in {0, 1}
                                                  /\ Outstanding(q)' \subseteq {Whole}
                      /\ Whole \in Outstanding(q)' => ~IsSegmentProcess(q)'
    BY DEF SingleOnce, WholeIsSingle
  <2>1. CASE q = p
    BY <1>2, <1>4, <1>7, <2>1, SegmentNumbers
  <2>2. CASE q # p
    BY <1>4, <1>6, <2>2 DEF Counts, SingleOnce, WholeIsSingle, IsSegmentProcess
  <2> QED
    BY <2>1, <2>2
<1>9. StoredByUsed'
  BY <1>3 DEF Counts, StoredByUsed
<1>10. InsertNumIsStored'
  <2> SUFFICES ASSUME NEW q \in Live'
               PROVE  processes'[q].insertNum = Cardinality(StoredBy(q)')
    BY DEF InsertNumIsStored
  <2>1. CASE q = p
    <3>1. StoredBy(p)' = {}
      BY <1>1, <1>3 DEF Counts, StoredByUsed, StoredBy
    <3> QED
      BY <1>2, <1>4, <2>1, <3>1, FS_EmptySet
  <2>2. CASE q # p
    <3>1. q \in Live /\ processes'[q] = processes[q] /\ StoredBy(q)' = StoredBy(q)
      BY <1>3, <1>4, <2>2 DEF StoredBy
    <3> QED
      BY <3>1 DEF Counts, InsertNumIsStored
  <2> QED
    BY <2>1, <2>2
<1> QED
  BY <1>8, <1>9, <1>10 DEF Counts

(* A packet that enters the store adds one to what its process stored. *)
LEMMA StoringCounts ==
  ASSUME NEW p \in Live, NEW s \in Segment, ~Has(processes[p].name, s), p \in Proc,
         stored' = stored \cup {<<processes[p].name, s, p>>},
         processes'[p].name = processes[p].name
  PROVE  Cardinality(StoredBy(p)') = Cardinality(StoredBy(p)) + 1
<1>1. StoredBy(p)' = StoredBy(p) \cup {s}
  BY DEF StoredBy
<1>2. s \notin StoredBy(p)
  BY DEF StoredBy, Has
<1>3. IsFiniteSet(StoredBy(p))
  BY FiniteStored
<1> QED
  BY <1>1, <1>2, <1>3, FS_AddElement

(* A single insert stores its Data once. *)
LEMMA DataValidatedKeepsCounts ==
  ASSUME TypeOK, Window, Counts, NEW p \in Proc, NEW f \in FinalBlock, DataValidated(p, f)
  PROVE  Counts'
<1>1. /\ p \in Live /\ <<p, Whole, f>> \in arrived
      /\ arrived' \subseteq arrived /\ UNCHANGED <<used, flight>>
      /\ processes[p].insertNum = 0 => ~Has(processes[p].name, Whole)
      /\ stored' = IF processes[p].insertNum = 0 THEN stored \cup {<<processes[p].name, Whole, p>>}
                                                 ELSE stored
  BY DEF DataValidated
<1>2. PICK info : /\ SetProcess(p, info) /\ info.start = processes[p].start
                  /\ info.name = processes[p].name /\ info.insertNum = 1
  <2> DEFINE new == [processes[p] EXCEPT !.insertNum = 1]
  <2>1. SetProcess(p, new)
    BY DEF DataValidated
  <2>2. new.start = processes[p].start /\ new.name = processes[p].name /\ new.insertNum = 1
    BY <1>1 DEF TypeOK, InfoOK
  <2> HIDE DEF new
  <2> QED
    BY <2>1, <2>2
<1>3. Live' = Live /\ \A q \in Live' : processes'[q] = IF q = p THEN info ELSE processes[q]
  BY <1>1, <1>2 DEF SetProcess, Live
<1>4. ~IsSegmentProcess(p) /\ processes[p].insertNum \in {0, 1}
  BY <1>1 DEF Counts, WholeIsSingle, SingleOnce, Outstanding, AtValidator, Segment
<1>5. \A q : Outstanding(q)' \subseteq Outstanding(q)
  BY <1>1 DEF Outstanding, InFlight, AtValidator
<1>6. SingleOnce' /\ WholeIsSingle'
  BY <1>2, <1>3, <1>5 DEF Counts, SingleOnce, WholeIsSingle, IsSegmentProcess
<1>7. StoredByUsed'
  BY <1>1 DEF Counts, StoredByUsed, TypeOK
<1>8. InsertNumIsStored'
  <2> SUFFICES ASSUME NEW q \in Live'
               PROVE  processes'[q].insertNum = Cardinality(StoredBy(q)')
    BY DEF InsertNumIsStored
  <2>1. CASE q = p
    <3>1. processes[p].insertNum = Cardinality(StoredBy(p)) /\ processes'[p] = info
      BY <1>1, <1>3 DEF Counts, InsertNumIsStored
    <3>2. CASE processes[p].insertNum = 0
      <4>1. Cardinality(StoredBy(p)') = Cardinality(StoredBy(p)) + 1
        BY <1>1, <1>2, <3>1, <3>2, StoringCounts DEF Segment
      <4>2. processes'[p].insertNum = 1 /\ Cardinality(StoredBy(p)) = 0
        BY <1>2, <3>1, <3>2
      <4>3. Cardinality(StoredBy(p)') = 1
        BY <4>1, <4>2
      <4> QED
        BY <2>1, <4>2, <4>3
    <3>3. CASE processes[p].insertNum = 1
      <4>1. stored' = stored /\ processes'[p].name = processes[p].name /\ processes'[p].insertNum = 1
        BY <1>1, <1>2, <3>1, <3>3
      <4>2. StoredBy(p)' = StoredBy(p)
        BY <4>1 DEF StoredBy
      <4>3. Cardinality(StoredBy(p)') = 1
        BY <3>1, <3>3, <4>2
      <4> QED
        BY <2>1, <4>1, <4>3
    <3> QED
      BY <1>4, <3>2, <3>3
  <2>2. CASE q # p
    <3>1. q \in Live /\ processes'[q] = processes[q] /\ StoredBy(q)' = StoredBy(q)
      BY <1>1, <1>3, <2>2 DEF StoredBy
    <3> QED
      BY <3>1 DEF Counts, InsertNumIsStored
  <2> QED
    BY <2>1, <2>2
<1> QED
  BY <1>6, <1>7, <1>8 DEF Counts

(* A validated segment is stored and counted once. *)
LEMMA SegmentValidatedKeepsCounts ==
  ASSUME TypeOK, Window, Counts, NEW p \in Proc, NEW s \in Segment, NEW f \in FinalBlock,
         SegmentValidated(p, s, f)
  PROVE  Counts'
<1>1. /\ p \in Live /\ s # Whole /\ <<p, s, f>> \in arrived /\ arrived' \subseteq arrived
      /\ used' = used /\ ~Has(Counted(p, f).name, s)
      /\ stored' = stored \cup {<<Counted(p, f).name, s, p>>} /\ f # NoSegment
  BY DEF SegmentValidated
<1>2. Counted(p, f).name = processes[p].name
  BY <1>1, CountedOK
<1>3. IsSegmentProcess(p) /\ p \in used
  BY <1>1 DEF Window, OwnCallbacks, Outstanding, AtValidator
<1>4. PICK new :
        /\ SetProcess(p, new) /\ new.start = processes[p].start
        /\ new.name = processes[p].name /\ new.insertNum = processes[p].insertNum + 1
        /\ flight' = flight \/ \E h \in SegmentNo : flight' = flight \cup {<<p, h>>}
  BY SegmentValidatedEffect
<1>5. Live' = Live /\ \A q \in Live' : processes'[q] = IF q = p THEN new ELSE processes[q]
  BY <1>1, <1>4 DEF SetProcess, Live
<1>6. \A q : q # p => Outstanding(q)' \subseteq Outstanding(q)
  BY <1>1, <1>4 DEF Outstanding, InFlight, AtValidator
<1>7. Whole \notin Outstanding(p)'
  <2>1. Whole \notin Outstanding(p)
    BY <1>1, <1>3 DEF Counts, WholeIsSingle
  <2>2. \A h \in SegmentNo : Whole # h
    BY SegmentNumbers
  <2>3. Whole \notin InFlight(p)'
    BY <1>4, <2>1, <2>2 DEF Outstanding, InFlight
  <2>4. Whole \notin AtValidator(p)'
    BY <1>1, <2>1 DEF Outstanding, AtValidator
  <2> QED
    BY <2>3, <2>4 DEF Outstanding
<1>8. SingleOnce' /\ WholeIsSingle'
  <2>1. IsSegmentProcess(p)'
    BY <1>1, <1>3, <1>4, <1>5 DEF IsSegmentProcess
  <2> SUFFICES ASSUME NEW q \in Live'
               PROVE  /\ ~IsSegmentProcess(q)' => processes'[q].insertNum \in {0, 1}
                                                  /\ Outstanding(q)' \subseteq {Whole}
                      /\ Whole \in Outstanding(q)' => ~IsSegmentProcess(q)'
    BY DEF SingleOnce, WholeIsSingle
  <2>2. CASE q = p
    BY <1>7, <2>1, <2>2
  <2>3. CASE q # p
    BY <1>5, <1>6, <2>3 DEF Counts, SingleOnce, WholeIsSingle, IsSegmentProcess
  <2> QED
    BY <2>2, <2>3
<1>9. StoredByUsed'
  BY <1>1, <1>3 DEF Counts, StoredByUsed
<1>10. InsertNumIsStored'
  <2> SUFFICES ASSUME NEW q \in Live'
               PROVE  processes'[q].insertNum = Cardinality(StoredBy(q)')
    BY DEF InsertNumIsStored
  <2>1. CASE q = p
    <3>1. processes[p].insertNum = Cardinality(StoredBy(p)) /\ processes'[p] = new
      BY <1>1, <1>5 DEF Counts, InsertNumIsStored
    <3>2. Cardinality(StoredBy(p)') = Cardinality(StoredBy(p)) + 1
      BY <1>1, <1>2, <1>4, <3>1, StoringCounts
    <3> QED
      BY <1>4, <2>1, <3>1, <3>2
  <2>2. CASE q # p
    <3>1. q \in Live /\ processes'[q] = processes[q] /\ StoredBy(q)' = StoredBy(q)
      BY <1>1, <1>5, <2>2 DEF StoredBy
    <3> QED
      BY <3>1 DEF Counts, InsertNumIsStored
  <2> QED
    BY <2>1, <2>2
<1> QED
  BY <1>8, <1>9, <1>10 DEF Counts

(* Every step keeps the counts. *)
LEMMA NextCounts == TypeOK /\ Window /\ Counts /\ [Next]_vars => Counts'
<1> SUFFICES ASSUME TypeOK, Window, Counts, [Next]_vars PROVE Counts'
  OBVIOUS
<1>1. NoBlock \in FinalBlock /\ Whole \in Segment
  BY DEF FinalBlock, Segment
<1>2. ASSUME NEW c \in Command, RejectCommand(c) PROVE Counts'
  <2>1. NothingStored
    BY <1>2 DEF RejectCommand, NothingStored, Live, Outstanding, InFlight, AtValidator
  <2> QED
    BY <2>1, NothingStoredKeepsCounts
<1>3. ASSUME UNCHANGED vars PROVE Counts'
  <2>1. NothingStored
    BY <1>3 DEF vars, NothingStored, Live, Outstanding, InFlight, AtValidator
  <2> QED
    BY <2>1, NothingStoredKeepsCounts
<1>4. ASSUME NEW p \in Proc, NEW c \in Command, InsertSingle(p, c) \/ InsertSegmented(p, c)
      PROVE Counts'
  BY <1>4, InsertKeepsCounts
<1>5. ASSUME NEW p \in Proc, NEW s \in Segment, NEW f \in FinalBlock,
             DataValidated(p, f) \/ SegmentValidated(p, s, f)
      PROVE Counts'
  BY <1>5, DataValidatedKeepsCounts, SegmentValidatedKeepsCounts
<1>6. ASSUME NEW p \in Proc, NEW s \in Segment, NEW f \in FinalBlock,
             \/ Deliver(p, s, f) \/ Refused(p, s, f) \/ LateData(p, s, f) \/ DataThrows(p, s, f)
             \/ GiveUp(p, s) \/ Retry(p, s) \/ NoEndTimePasses(p) \/ DeleteProcess(p) \/ Check(p)
      PROVE Counts'
  BY <1>6, NothingStoredSteps, NothingStoredKeepsCounts
<1>7. MalformedCommand => Counts'
  BY ExitStoresNothing, NothingStoredKeepsCounts DEF MalformedCommand
<1> QED
  BY <1>1, <1>2, <1>3, <1>4, <1>5, <1>6, <1>7 DEF Next

LEMMA CountsInvariant == Spec => [](TypeOK /\ Window /\ Counts)
<1>1. Init => Counts
  <2> SUFFICES ASSUME Init PROVE Counts
    OBVIOUS
  <2>1. Live = {} /\ stored = {}
    BY DEF Init, Live
  <2> QED
    BY <2>1 DEF Counts, SingleOnce, WholeIsSingle, StoredByUsed, InsertNumIsStored
<1> QED
  BY <1>1, NextCounts, WindowInvariant, PTL DEF Spec

(* The InsertNum of a process is the number of packets it put into the repository. *)
THEOREM InsertNumIsExact == Spec => []InsertNumIsStored
<1>1. Counts => InsertNumIsStored
  BY DEF Counts
<1> QED
  BY <1>1, CountsInvariant, PTL

-----------------------------------------------------------------------------
(* Segment numbers do not wrap around: no command starts, and no producer has segments,
   within a window of the last of the 2^64 numbers. *)
RoomInNumbers ==
  /\ \A c \in Command : StartOf(c) + Credit < Word /\ c.end + 1 < Word
  /\ \A e \in Environment :
       /\ \A s \in e.available \cap SegmentNo : s + Credit + 1 < Word
       /\ \A f \in e.final \cap SegmentNo : f + 1 < Word

(* What was asked for, in any stage *)
Requested(p) == Outstanding(p) \cup DOMAIN processes[p].retries \cup StoredBy(p)

(* What is at the validator is the producer's. *)
FromProducer ==
  /\ env \in Environment
  /\ \A p \in Proc, s \in Segment, f \in FinalBlock :
       <<p, s, f>> \in arrived => s \in env.available /\ f \in env.final

(* A segment is out once: in the Face, or at the validator with one FinalBlockId. *)
OutOnce ==
  \A p \in Live : \A s \in Segment : \A f, g \in FinalBlock :
    <<p, s, f>> \in arrived => <<p, s>> \notin flight /\ (<<p, s, g>> \in arrived => f = g)

(* Segments are asked for in order, from the start on; the one that waits is next. *)
InOrder ==
  \A p \in Live :
    IF IsSegmentProcess(p)
      THEN /\ processes[p].start + Credit < Word
           /\ processes[p].end + 1 < Word
           /\ processes[p].queue \in {<<>>, <<processes[p].next>>}
           /\ processes[p].start <= processes[p].next
           /\ \A s \in Requested(p) :
                /\ s \in processes[p].start..processes[p].next
                /\ processes[p].queue # <<>> => s # processes[p].next
      ELSE processes[p].queue = <<>> /\ processes[p].end = NoBlock

(* A segment before the next one is in the Face, or the producer had it. *)
Answered ==
  \A p \in Live : IsSegmentProcess(p) =>
    \A s \in SegmentNo : processes[p].start <= s /\ s < processes[p].next =>
      s \in InFlight(p) \cup env.available

(* OutstandingIsTracked, and no count beyond the limit. *)
Tracked ==
  \A p \in Live : IsSegmentProcess(p) =>
    /\ Outstanding(p) \subseteq DOMAIN processes[p].retries
    /\ \A s \in DOMAIN processes[p].retries : processes[p].retries[s] <= RetryTime

Order == FromProducer /\ OutOnce /\ InOrder /\ Answered /\ Tracked

(* A window before the last numbers cannot be in the Face as a whole. *)
LEMMA NextBelow ==
  ASSUME RoomInNumbers, TypeOK, Window, Order, NEW p \in Live, NEW s \in Segment,
         NEW f \in FinalBlock, <<p, s, f>> \in arrived, IsSegmentProcess(p)
  PROVE  processes[p].next + 1 < Word
<1> DEFINE info == processes[p]
           last == (Word - 1 - Credit)..(Word - 2)
<1>1. InfoOK(info)
  BY DEF TypeOK
<1>2. /\ info.next \in 0..(Word - 1) /\ info.credit \in Int /\ info.start \in 0..(Word - 1)
      /\ Word \in Nat /\ Credit \in Nat
  BY <1>1, WordAssumption DEF InfoOK, SegmentNo, IsSegmentProcess
<1>3. info.start + Credit < Word
  BY DEF Order, InOrder
<1>4. SUFFICES ASSUME info.next = Word - 1 PROVE FALSE
  BY <1>2
<1>5. last \subseteq InFlight(p)
  <2> SUFFICES ASSUME NEW t \in last PROVE t \in InFlight(p)
    OBVIOUS
  <2>1. t \in SegmentNo /\ info.start <= t /\ t < info.next /\ ~(t + Credit + 1 < Word)
    BY <1>2, <1>3, <1>4 DEF SegmentNo
  <2>2. t \in InFlight(p) \cup env.available
    BY <2>1 DEF Order, Answered
  <2>3. t \notin env.available
    BY <2>1 DEF RoomInNumbers, Order, FromProducer
  <2> QED
    BY <2>2, <2>3
<1>6. IsFiniteSet(InFlight(p)) /\ Cardinality(InFlight(p)) \in Nat
      /\ IsFiniteSet(Verdicts(p)) /\ Cardinality(Verdicts(p)) \in Nat
  BY FiniteCallbacks
<1>7. Cardinality(last) <= Cardinality(InFlight(p))
  BY <1>5, <1>6, FS_Subset
<1>8. Cardinality(last) = Credit
  <2>1. Word - 1 - Credit \in Int /\ Word - 2 \in Int
    BY <1>2
  <2>2. Cardinality(last) = IF Word - 1 - Credit > Word - 2 THEN 0 ELSE (Word - 2) - (Word - 1 - Credit) + 1
    BY <2>1, FS_Interval
  <2> HIDE DEF last
  <2> QED
    BY <1>2, <2>2
<1>9. Cardinality(Verdicts(p)) # 0
  <2>1. <<s, f>> \in Verdicts(p)
    BY DEF Verdicts
  <2> QED
    BY <1>6, <2>1, FS_EmptySet
<1>10. /\ info.credit >= 0
       /\ info.credit + Cardinality(InFlight(p)) + Cardinality(Verdicts(p)) <= Credit
  BY DEF Window, CreditKept
<1> HIDE DEF info, last
<1> QED
  BY <1>2, <1>6, <1>7, <1>8, <1>9, <1>10

(* The fields of a counted segment that the order is about *)
LEMMA CountedFields ==
  ASSUME TypeOK, NEW p \in Live, NEW f \in FinalBlock
  PROVE  /\ Counted(p, f).end = RefreshedEnd(processes[p].end, f)
         /\ Counted(p, f).credit = processes[p].credit + 1
         /\ Counted(p, f).next = processes[p].next
         /\ Counted(p, f).queue = processes[p].queue
         /\ Counted(p, f).retries = processes[p].retries
<1>1. InfoOK(processes[p])
  BY DEF TypeOK
<1> QED
  BY <1>1 DEF Counted, InfoOK

(* What sending the segment that waits leaves *)
LEMMA AfterSendingFields ==
  ASSUME NEW info, InfoOK(info), NEW s, info.queue = <<info.next>>, info.next + 1 < Word,
         info.next \notin DOMAIN info.retries
  PROVE  LET more == info.end = NoBlock \/ info.next + 1 <= info.end
             new  == AfterSending(info, s)
         IN  /\ new.next = IF more THEN info.next + 1 ELSE info.next
             /\ new.queue = IF more THEN <<info.next + 1>> ELSE <<>>
             /\ DOMAIN new.retries = (DOMAIN info.retries \ {s}) \cup {info.next}
             /\ new.retries[info.next] = 0
             /\ \A t \in DOMAIN info.retries \ {s} : new.retries[t] = info.retries[t]
<1> DEFINE kept == DOMAIN info.retries \ {s}
           nxt == (info.next + 1) % Word
           more == info.end = NoBlock \/ nxt <= info.end
           counts == [t \in kept \cup {info.next} |->
                        IF t \notin kept THEN 0
                        ELSE IF t = info.next THEN info.retries[t] + 1 ELSE info.retries[t]]
           next2 == IF more THEN nxt ELSE info.next
           queue2 == IF more THEN Append(Tail(info.queue), nxt) ELSE Tail(info.queue)
<1>1. info.next \in 0..(Word - 1) /\ Word \in Nat
  BY WordAssumption DEF InfoOK, SegmentNo
<1>2. nxt = info.next + 1
  BY <1>1
<1>3. Head(info.queue) = info.next /\ Tail(info.queue) = <<>>
  OBVIOUS
<1>4. Append(Tail(info.queue), nxt) = <<info.next + 1>>
  BY <1>2, <1>3
<1>5. AfterSending(info, s) = [info EXCEPT !.credit = info.credit - 1, !.retries = counts,
                                           !.next = next2, !.queue = queue2]
  BY <1>3 DEF AfterSending
<1>6. DOMAIN counts = kept \cup {info.next} /\ counts[info.next] = 0
      /\ \A t \in kept : counts[t] = info.retries[t]
  OBVIOUS
<1> HIDE DEF counts, next2, queue2
<1>7. AfterSending(info, s).retries = counts /\ AfterSending(info, s).next = next2
      /\ AfterSending(info, s).queue = queue2
  BY <1>5 DEF InfoOK
<1> QED
  BY <1>2, <1>3, <1>4, <1>6, <1>7 DEF next2, queue2

(* What the record of a process is after a validated segment that ends the process, sends
   nothing, or asks for the segment that waits *)
Ends(p, new) ==
  /\ flight' = flight /\ p \in doomed'
  /\ new.next = processes[p].next /\ new.queue = processes[p].queue
  /\ new.retries = processes[p].retries
  /\ new.status = 200 => AllInserted(new)

Waits(p, new) ==
  /\ flight' = flight
  /\ new.next = processes[p].next /\ new.queue = <<>> /\ new.retries = processes[p].retries
  /\ new.status = processes[p].status
  /\ ~AllInserted(new)
  /\ processes[p].queue = <<>> \/ (new.end # NoBlock /\ new.next > new.end)

Sends(p, s, new) ==
  LET next == processes[p].next
      more == new.end = NoBlock \/ next + 1 <= new.end
  IN  /\ processes[p].queue = <<next>> /\ next + 1 < Word
      /\ flight' = flight \cup {<<p, next>>}
      /\ new.end = NoBlock \/ next <= new.end
      /\ new.next = IF more THEN next + 1 ELSE next
      /\ new.queue = IF more THEN <<next + 1>> ELSE <<>>
      /\ DOMAIN new.retries = (DOMAIN processes[p].retries \ {s}) \cup {next}
      /\ new.retries[next] = 0
      /\ \A t \in DOMAIN processes[p].retries \ {s} : new.retries[t] = processes[p].retries[t]
      /\ new.status = processes[p].status

LEMMA SegmentStep ==
  ASSUME RoomInNumbers, TypeOK, Window, Order, NEW p \in Proc, NEW s \in Segment,
         NEW f \in FinalBlock, SegmentValidated(p, s, f)
  PROVE  \E new :
           /\ SetProcess(p, new)
           /\ new.start = processes[p].start /\ new.name = processes[p].name
           /\ new.end = RefreshedEnd(processes[p].end, f)
           /\ new.insertNum = processes[p].insertNum + 1
           /\ Ends(p, new) \/ Waits(p, new) \/ Sends(p, s, new)
<1> DEFINE info == Counted(p, f)
<1>1. p \in Live /\ f # NoSegment /\ s # Whole /\ <<p, s, f>> \in arrived
  BY DEF SegmentValidated
<1>2. IsSegmentProcess(p)
  BY <1>1 DEF Window, OwnCallbacks, Outstanding, AtValidator
<1>3. InfoOK(processes[p]) /\ processes[p].credit \in Int /\ processes[p].credit >= 0
  BY <1>1, <1>2 DEF TypeOK, InfoOK, Window, CreditKept
<1>4. /\ InfoOK(info) /\ info.start = processes[p].start /\ info.name = processes[p].name
      /\ info.status = processes[p].status
      /\ info.insertNum = processes[p].insertNum + 1
  BY <1>1, CountedOK
<1>5. /\ info.end = RefreshedEnd(processes[p].end, f) /\ info.credit = processes[p].credit + 1
      /\ info.next = processes[p].next /\ info.queue = processes[p].queue
      /\ info.retries = processes[p].retries
  BY <1>1, CountedFields
<1>6. processes[p].queue \in {<<>>, <<processes[p].next>>}
  BY <1>1, <1>2 DEF Order, InOrder
<1> HIDE DEF info
<1>7. CASE /\ PastNoEnd(info) /\ SetProcess(p, [info EXCEPT !.status = 405]) /\ UNCHANGED flight
           /\ doomed' = doomed \cup {p}
  <2> DEFINE new == [info EXCEPT !.status = 405]
  <2>1. /\ new.start = info.start /\ new.status = 405 /\ new.end = info.end /\ new.name = info.name
        /\ new.insertNum = info.insertNum /\ new.next = info.next /\ new.queue = info.queue
        /\ new.retries = info.retries
    BY <1>4 DEF InfoOK
  <2>2. SetProcess(p, new)
    BY <1>7
  <2> HIDE DEF new
  <2>3. Ends(p, new)
    BY <1>5, <1>7, <2>1 DEF Ends
  <2> QED
    BY <1>4, <1>5, <2>1, <2>2, <2>3
<1>8. CASE /\ AllInserted(info) /\ SetProcess(p, [info EXCEPT !.status = 200]) /\ UNCHANGED flight
           /\ doomed' = doomed \cup {p}
  <2> DEFINE new == [info EXCEPT !.status = 200]
  <2>1. /\ new.start = info.start /\ new.end = info.end /\ new.name = info.name
        /\ new.insertNum = info.insertNum /\ new.next = info.next /\ new.queue = info.queue
        /\ new.retries = info.retries
    BY <1>4 DEF InfoOK
  <2>2. SetProcess(p, new)
    BY <1>8
  <2> HIDE DEF new
  <2>3. Ends(p, new)
    BY <1>5, <1>8, <2>1 DEF Ends, AllInserted
  <2> QED
    BY <1>4, <1>5, <2>1, <2>2, <2>3
<1>9. CASE ~AllInserted(info) /\ NothingToSend(info) /\ SetProcess(p, info) /\ UNCHANGED flight
  <2>1. info.queue = <<>>
    BY <1>3, <1>5, <1>9 DEF NothingToSend
  <2>2. Waits(p, info)
    BY <1>4, <1>5, <1>9, <2>1 DEF Waits
  <2> QED
    BY <1>4, <1>5, <1>9, <2>2
<1>10. CASE /\ ~AllInserted(info) /\ ~NothingToSend(info) /\ BeyondEnd(info)
            /\ SetProcess(p, [info EXCEPT !.queue = Tail(@)]) /\ UNCHANGED flight
  <2> DEFINE new == [info EXCEPT !.queue = Tail(@)]
  <2>1. info.queue = <<info.next>>
    BY <1>5, <1>6, <1>10 DEF NothingToSend
  <2>2. Head(info.queue) = info.next /\ Tail(info.queue) = <<>>
    BY <2>1
  <2>3. /\ new.start = info.start /\ new.end = info.end /\ new.name = info.name
        /\ new.insertNum = info.insertNum /\ new.next = info.next /\ new.queue = <<>>
        /\ new.retries = info.retries /\ new.status = info.status
    BY <1>4, <2>2 DEF InfoOK
  <2>4. SetProcess(p, new)
    BY <1>10
  <2> HIDE DEF new
  <2>5. Waits(p, new)
    BY <1>4, <1>5, <1>10, <2>2, <2>3 DEF Waits, AllInserted, BeyondEnd
  <2> QED
    BY <1>4, <1>5, <2>3, <2>4, <2>5
<1>11. CASE /\ ~AllInserted(info) /\ ~NothingToSend(info) /\ ~BeyondEnd(info)
            /\ SetProcess(p, AfterSending(info, s))
            /\ flight' = flight \cup {<<p, Head(info.queue)>>}
  <2> DEFINE new == AfterSending(info, s)
  <2>1. info.queue = <<info.next>>
    BY <1>5, <1>6, <1>11 DEF NothingToSend
  <2>2. Head(info.queue) = info.next /\ info.queue # <<>>
    BY <2>1
  <2>3. info.next + 1 < Word
    BY <1>1, <1>2, <1>5, NextBelow
  <2>4. info.next \notin DOMAIN info.retries
    BY <1>1, <1>2, <1>5, <2>2 DEF Order, InOrder, Requested
  <2>5. /\ new.start = info.start /\ new.status = info.status /\ new.end = info.end
        /\ new.name = info.name /\ new.insertNum = info.insertNum
    BY <1>4, <2>2, AfterSendingOK
  <2>6. LET more == info.end = NoBlock \/ info.next + 1 <= info.end
        IN  /\ new.next = IF more THEN info.next + 1 ELSE info.next
            /\ new.queue = IF more THEN <<info.next + 1>> ELSE <<>>
            /\ DOMAIN new.retries = (DOMAIN info.retries \ {s}) \cup {info.next}
            /\ new.retries[info.next] = 0
            /\ \A t \in DOMAIN info.retries \ {s} : new.retries[t] = info.retries[t]
    BY <1>4, <2>1, <2>3, <2>4, AfterSendingFields
  <2>7. info.end = NoBlock \/ info.next <= info.end
    <3>1. info.end \in Int /\ info.next \in Int
      BY <1>4, WordAssumption DEF InfoOK, SegmentNo, NoBlock
    <3> QED
      BY <1>11, <2>2, <3>1 DEF BeyondEnd
  <2>8. SetProcess(p, new)
    BY <1>11
  <2> HIDE DEF new
  <2>9. Sends(p, s, new)
    BY <1>4, <1>5, <1>11, <2>1, <2>2, <2>3, <2>5, <2>6, <2>7 DEF Sends
  <2> QED
    BY <1>4, <1>5, <2>5, <2>8, <2>9
<1> QED
  BY <1>7, <1>8, <1>9, <1>10, <1>11 DEF SegmentValidated, info

(* Steps that ask for nothing, deliver nothing and store no segment. *)
Unmoved ==
  /\ env' = env /\ flight' \subseteq flight /\ arrived' \subseteq arrived /\ Live' \subseteq Live
  /\ \A q \in Live' :
       /\ processes'[q].name = processes[q].name
       /\ processes'[q].start = processes[q].start /\ processes'[q].end = processes[q].end
       /\ processes'[q].next = processes[q].next /\ processes'[q].queue = processes[q].queue
       /\ DOMAIN processes'[q].retries = DOMAIN processes[q].retries
       /\ \A s \in DOMAIN processes[q].retries :
            \/ processes'[q].retries[s] = processes[q].retries[s]
            \/ processes'[q].retries[s] <= RetryTime
       /\ processes'[q].status = 200 => processes[q].status = 200
       /\ q \in doomed => q \in doomed'
       /\ InFlight(q)' = InFlight(q)
       /\ IsSegmentProcess(q) => StoredBy(q)' = StoredBy(q)
       /\ \/ AtValidator(q)' = AtValidator(q)
          \/ env.unverified
          \/ ~IsSegmentProcess(q) /\ q \in doomed'

(* They keep the order. *)
LEMMA UnmovedKeepsOrder ==
  ASSUME Order, Unmoved
  PROVE  Order'
<1>1. FromProducer'
  BY DEF Order, FromProducer, Unmoved
<1>2. OutOnce'
  BY DEF Order, OutOnce, Unmoved
<1>3. ASSUME NEW q \in Live', IsSegmentProcess(q)
      PROVE  Outstanding(q)' \subseteq Outstanding(q) /\ Requested(q)' \subseteq Requested(q)
  <2>1. AtValidator(q)' \subseteq AtValidator(q) /\ InFlight(q)' = InFlight(q)
    BY DEF Unmoved, AtValidator
  <2>2. StoredBy(q)' = StoredBy(q) /\ DOMAIN processes'[q].retries = DOMAIN processes[q].retries
    BY <1>3 DEF Unmoved
  <2> QED
    BY <2>1, <2>2 DEF Outstanding, Requested
<1>4. ASSUME NEW q \in Live'
      PROVE  q \in Live /\ (IsSegmentProcess(q)' <=> IsSegmentProcess(q))
  BY DEF Unmoved, IsSegmentProcess
<1>5. InOrder'
  BY <1>3, <1>4 DEF Order, InOrder, Unmoved
<1>6. Answered'
  BY <1>4 DEF Order, Answered, Unmoved
<1>7. Tracked'
  <2> SUFFICES ASSUME NEW q \in Live', IsSegmentProcess(q)'
               PROVE  /\ Outstanding(q)' \subseteq DOMAIN processes'[q].retries
                      /\ \A s \in DOMAIN processes'[q].retries : processes'[q].retries[s] <= RetryTime
    BY DEF Tracked
  <2> QED
    BY <1>3, <1>4 DEF Order, Tracked, Unmoved
<1> QED
  BY <1>1, <1>2, <1>5, <1>6, <1>7 DEF Order

(* The end of the process leaves no process to move. *)
LEMMA ExitMovesNothing == Exit => Unmoved
<1> SUFFICES ASSUME Exit PROVE Unmoved
  OBVIOUS
<1>1. Live' = {}
  BY DEF Exit, Live
<1> QED
  BY <1>1 DEF Exit, Unmoved

(* The handlers that are such steps *)
LEMMA UnmovedSteps ==
  ASSUME TypeOK, Window, Counts, Order, NEW p \in Proc, NEW s \in Segment, NEW f \in FinalBlock
  PROVE  /\ Refused(p, s, f) \/ LateData(p, s, f) => Unmoved
         /\ DataThrows(p, s, f) => Unmoved
         /\ DataValidated(p, f) => Unmoved
         /\ GiveUp(p, s) \/ DeleteProcess(p) => Unmoved
         /\ Retry(p, s) \/ NoEndTimePasses(p) => Unmoved
         /\ Check(p) => Unmoved
<1>1. Refused(p, s, f) \/ LateData(p, s, f) => Unmoved
  BY DEF Refused, LateData, Unmoved, Live, InFlight, AtValidator, StoredBy
<1>2. DataThrows(p, s, f) => Unmoved
  BY ExitMovesNothing DEF DataThrows
<1>3. ASSUME NEW q \in Live PROVE InfoOK(processes[q])
  BY <1>3 DEF TypeOK
<1>4. DataValidated(p, f) => Unmoved
  <2> SUFFICES ASSUME DataValidated(p, f) PROVE Unmoved
    OBVIOUS
  <2> DEFINE info == [processes[p] EXCEPT !.insertNum = 1]
  <2>1. /\ p \in Live /\ SetProcess(p, info) /\ doomed' = doomed \cup {p}
        /\ <<p, Whole, f>> \in arrived /\ arrived' = arrived \ {<<p, Whole, f>>}
        /\ UNCHANGED <<used, flight, env>>
        /\ stored' = stored \/ stored' = stored \cup {<<processes[p].name, Whole, p>>}
    BY DEF DataValidated
  <2>2. /\ info.start = processes[p].start /\ info.end = processes[p].end
        /\ info.next = processes[p].next /\ info.queue = processes[p].queue
        /\ info.retries = processes[p].retries
        /\ info.name = processes[p].name /\ info.status = processes[p].status
    BY <1>3, <2>1 DEF InfoOK
  <2>3. Live' = Live /\ \A q \in Live' : processes'[q] = IF q = p THEN info ELSE processes[q]
    BY <2>1 DEF SetProcess, Live
  <2>4. ~IsSegmentProcess(p)
    BY <2>1 DEF Counts, WholeIsSingle, Outstanding, AtValidator, Segment
  <2> HIDE DEF info
  <2>5. \A q \in Live' : q # p => StoredBy(q)' = StoredBy(q) /\ AtValidator(q)' = AtValidator(q)
    BY <2>1, <2>3 DEF StoredBy, AtValidator
  <2>6. \A q : InFlight(q)' = InFlight(q)
    BY <2>1 DEF InFlight
  <2> QED
    BY <2>1, <2>2, <2>3, <2>4, <2>5, <2>6 DEF Unmoved
<1>5. GiveUp(p, s) \/ DeleteProcess(p) => Unmoved
  <2> SUFFICES ASSUME GiveUp(p, s) \/ DeleteProcess(p) PROVE Unmoved
    OBVIOUS
  <2>1. Live' = Live \ {p} /\ \A q \in Live' : processes'[q] = processes[q]
    BY EraseProcessOK DEF GiveUp, DeleteProcess
  <2>2. /\ flight' = flight \/ flight' = flight \ {<<p, s>>}
        /\ UNCHANGED <<arrived, stored, env>>
        /\ \A q : q # p => (q \in doomed => q \in doomed')
    BY DEF GiveUp, DeleteProcess, MayTimeout
  <2>3. \A q \in Live' : InFlight(q)' = InFlight(q) /\ AtValidator(q)' = AtValidator(q)
                         /\ StoredBy(q)' = StoredBy(q)
    BY <2>1, <2>2 DEF InFlight, AtValidator, StoredBy
  <2> QED
    BY <2>1, <2>2, <2>3 DEF Unmoved
<1>6. ASSUME Retry(p, s) \/ NoEndTimePasses(p) \/ (Check(p) /\ ~UNCHANGED processes)
      PROVE  Unmoved
  <2>1. PICK info : /\ SetProcess(p, info)
                    /\ \/ info = [processes[p] EXCEPT !.noEnd = "passed"]
                       \/ info = [processes[p] EXCEPT !.status = 405]
                       \/ /\ info = Retried(processes[p], s)
                          /\ processes[p].retries[s] < RetryTime /\ <<p, s>> \in flight /\ s # Whole
    BY <1>6 DEF Retry, Retried, NoEndTimePasses, Check, MayTimeout
  <2>2. p \in Live /\ UNCHANGED <<used, flight, arrived, doomed, stored, env>>
    BY <1>6 DEF Retry, NoEndTimePasses, Check
  <2>3. /\ info.start = processes[p].start /\ info.end = processes[p].end
        /\ info.next = processes[p].next /\ info.queue = processes[p].queue
        /\ info.name = processes[p].name
        /\ info.status = 200 => processes[p].status = 200
    BY <1>3, <2>1, <2>2 DEF InfoOK, Retried
  <2>4. /\ DOMAIN info.retries = DOMAIN processes[p].retries
        /\ \A t \in DOMAIN processes[p].retries :
             info.retries[t] = processes[p].retries[t] \/ info.retries[t] <= RetryTime
    <3>1. CASE info = [processes[p] EXCEPT !.noEnd = "passed"] \/ info = [processes[p] EXCEPT !.status = 405]
      BY <1>3, <2>2, <3>1 DEF InfoOK
    <3>2. CASE /\ info = Retried(processes[p], s)
               /\ processes[p].retries[s] < RetryTime /\ <<p, s>> \in flight /\ s # Whole
      <4> DEFINE counts == [processes[p].retries EXCEPT ![s] = @ + 1]
      <4>1. s \in DOMAIN processes[p].retries
        <5>1. s \in Outstanding(p)
          BY <3>2 DEF Outstanding, InFlight
        <5>2. IsSegmentProcess(p)
          BY <2>2, <3>2, <5>1 DEF Window, OwnCallbacks
        <5> QED
          BY <2>2, <5>1, <5>2 DEF Order, Tracked
      <4>2. processes[p].retries[s] \in Nat
        BY <1>3, <2>2, <4>1 DEF InfoOK
      <4>3. DOMAIN counts = DOMAIN processes[p].retries
            /\ \A t \in DOMAIN processes[p].retries :
                 counts[t] = processes[p].retries[t] \/ counts[t] <= RetryTime
        BY <3>2, <4>1, <4>2, RetryAssumption
      <4>4. Retried(processes[p], s) = [processes[p] EXCEPT !.retries = counts]
        BY DEF Retried
      <4> HIDE DEF counts
      <4>5. info.retries = counts
        BY <1>3, <2>2, <3>2, <4>4 DEF InfoOK
      <4> QED
        BY <4>3, <4>5
    <3> QED
      BY <2>1, <3>1, <3>2
  <2>5. Live' = Live /\ \A q \in Live' : processes'[q] = IF q = p THEN info ELSE processes[q]
    BY <2>1, <2>2 DEF SetProcess, Live
  <2>6. \A q \in Live' : InFlight(q)' = InFlight(q) /\ AtValidator(q)' = AtValidator(q)
                         /\ StoredBy(q)' = StoredBy(q)
    BY <2>2, <2>3, <2>5 DEF InFlight, AtValidator, StoredBy
  <2> QED
    BY <2>2, <2>3, <2>4, <2>5, <2>6 DEF Unmoved
<1>7. ASSUME Check(p), UNCHANGED processes PROVE Unmoved
  BY <1>7 DEF Check, Unmoved, Live, InFlight, AtValidator, StoredBy
<1> QED
  BY <1>1, <1>2, <1>4, <1>5, <1>6, <1>7

(* What InsertSegmented asks for: the numbers from the start, in order, and the next of
   them waits. *)
BeginsRange(p, c, info, next) ==
  /\ info.start = StartOf(c) /\ info.end = c.end /\ info.next = next
  /\ info.queue = <<next>> /\ info.status = 300
  /\ next \in SegmentNo /\ info.start \in SegmentNo /\ info.start < next
  /\ info.end # NoBlock => next <= info.end + 1 /\ info.start <= info.end
  /\ DOMAIN info.retries = info.start..(next - 1)
  /\ \A s \in DOMAIN info.retries : info.retries[s] = 0

LEMMA SegInit ==
  ASSUME RoomInNumbers, TypeOK, Window, Counts, NEW p \in Proc, NEW c \in Command,
         InsertSegmented(p, c)
  PROVE  /\ \E info, next : /\ SetProcess(p, info) /\ BeginsRange(p, c, info, next)
                            /\ flight' = flight \cup {<<p, s>> : s \in info.start..(next - 1)}
         /\ p \notin used /\ Outstanding(p) = {} /\ StoredBy(p)' = {}
         /\ UNCHANGED <<arrived, stored, env, doomed>>
<1> DEFINE credit == InitialCredit(c)
           stop   == (StartOf(c) + credit) % Word
           window == {s \in SegmentNo : StartOf(c) <= s /\ s < stop}
           next   == IF window = {} THEN StartOf(c) ELSE stop
           info   == SegmentInfo(c, credit, window, next)
<1>1. /\ SetProcess(p, info) /\ p \notin used /\ UNCHANGED <<arrived, stored, env, doomed>>
      /\ flight' = flight \cup {<<p, s>> : s \in window}
      /\ c.end # NoBlock => StartOf(c) <= c.end
  BY DEF InsertSegmented, SegmentInfo
<1>2. /\ StartOf(c) \in 0..(Word - 1) /\ c.end \in -1..(Word - 1)
      /\ Word \in Nat /\ Credit \in Nat \ {0}
  <2>1. {c.start, c.end} \subseteq SegmentNo \cup {NoBlock}
    BY CommandAssumption
  <2>2. StartOf(c) \in SegmentNo /\ (c.end \in SegmentNo \/ c.end = NoBlock)
    BY <2>1, SegmentNumbers DEF StartOf
  <2>3. c.end = NoBlock \/ c.end \in 0..(Word - 1)
    BY <2>2 DEF SegmentNo
  <2>4. c.end \in -1..(Word - 1)
    BY <2>3, WordAssumption DEF NoBlock
  <2> QED
    BY <2>2, <2>4, WordAssumption DEF SegmentNo
<1>3. StartOf(c) + Credit < Word /\ c.end + 1 < Word
  BY DEF RoomInNumbers
<1>4. credit \in 1..Credit /\ (c.end # NoBlock => StartOf(c) + credit <= c.end + 1)
  <2>1. CASE c.end = NoBlock
    BY <1>2, <2>1 DEF InitialCredit
  <2>2. CASE c.end # NoBlock
    <3>1. (c.end - StartOf(c) + 1) \in 1..(Word - 1)
      BY <1>1, <1>2, <1>3, <2>2
    <3>2. \A k \in 1..(Word - 1) : k % Word = k
      BY <1>2
    <3>3. NSegments(StartOf(c), c.end) = c.end - StartOf(c) + 1
      BY <3>1, <3>2 DEF NSegments
    <3> QED
      BY <1>2, <2>2, <3>1, <3>3 DEF InitialCredit
  <2> QED
    BY <2>1, <2>2
<1> HIDE DEF credit
<1>5. stop = StartOf(c) + credit
  <2>1. StartOf(c) + credit \in 0..(Word - 1)
    BY <1>2, <1>3, <1>4
  <2> QED
    BY <1>2, <2>1
<1> HIDE DEF stop
<1>6. window = StartOf(c)..(stop - 1)
  BY <1>2, <1>3, <1>4, <1>5 DEF SegmentNo
<1>7. next = stop
  <2>1. StartOf(c) \in window
    BY <1>2, <1>4, <1>5, <1>6
  <2> QED
    BY <2>1
<1>8. stop \in SegmentNo /\ StartOf(c) \in SegmentNo
  BY <1>2, <1>3, <1>4, <1>5 DEF SegmentNo
<1>9. /\ info.start = StartOf(c) /\ info.end = c.end /\ info.next = next /\ info.queue = <<next>>
      /\ info.status = 300
      /\ info.retries = [s \in window |-> 0]
  <2>1. InfoOK(NewInfo(c)) /\ NewInfo(c).end = c.end /\ NewInfo(c).status = 300
    BY NewInfoOK DEF NewInfo
  <2> HIDE DEF window, next
  <2> QED
    BY <2>1 DEF SegmentInfo, InfoOK
<1>10. Outstanding(p) = {}
  BY <1>1 DEF Window, OwnCallbacks
<1>11. StoredBy(p)' = {}
  BY <1>1 DEF Counts, StoredByUsed, StoredBy
<1>12. BeginsRange(p, c, info, next)
  <2> HIDE DEF info, next, window
  <2>1. DOMAIN info.retries = info.start..(next - 1) /\ \A s \in DOMAIN info.retries : info.retries[s] = 0
    BY <1>6, <1>7, <1>9
  <2> QED
    BY <1>1, <1>2, <1>4, <1>5, <1>7, <1>8, <1>9, <2>1 DEF BeginsRange
<1>13. flight' = flight \cup {<<p, s>> : s \in info.start..(next - 1)}
  <2> HIDE DEF info, next, window
  <2> QED
    BY <1>1, <1>6, <1>7, <1>9
<1> HIDE DEF info, next, window
<1> QED
  BY <1>1, <1>10, <1>11, <1>12, <1>13

(* A new range begins in order. *)
LEMMA InsertSegmentedKeepsOrder ==
  ASSUME RoomInNumbers, TypeOK, Window, Counts, Order, NEW p \in Proc, NEW c \in Command,
         InsertSegmented(p, c)
  PROVE  Order'
<1>1. PICK info, next : /\ SetProcess(p, info) /\ BeginsRange(p, c, info, next)
                        /\ flight' = flight \cup {<<p, s>> : s \in info.start..(next - 1)}
  BY SegInit
<1>0. /\ p \notin used /\ Outstanding(p) = {} /\ StoredBy(p)' = {}
      /\ UNCHANGED <<arrived, stored, env, doomed>>
  BY SegInit
<1>2. /\ Live' = Live \cup {p} /\ p \notin Live
      /\ \A q \in Live' : processes'[q] = IF q = p THEN info ELSE processes[q]
  BY <1>0, <1>1 DEF SetProcess, Live, TypeOK
<1>3. /\ info.start \in 0..(Word - 1) /\ next \in 0..(Word - 1) /\ Word \in Nat
      /\ info.next = next /\ info.queue = <<next>> /\ info.start < next
      /\ info.start = StartOf(c) /\ info.end = c.end
      /\ DOMAIN info.retries = info.start..(next - 1)
      /\ \A s \in DOMAIN info.retries : info.retries[s] = 0
  BY <1>1, WordAssumption DEF BeginsRange, SegmentNo
<1> DEFINE window == info.start..(next - 1)
<1>4. InFlight(p)' = window /\ AtValidator(p)' = {}
  <2>1. window \subseteq Segment
    BY <1>3 DEF Segment, SegmentNo
  <2>2. AtValidator(p)' = {} /\ InFlight(p) = {}
    BY <1>0 DEF InFlight, AtValidator, Outstanding
  <2>3. \A s \in Segment : <<p, s>> \in flight' <=> s \in window
    BY <1>1, <2>2 DEF InFlight
  <2> QED
    BY <2>1, <2>2, <2>3 DEF InFlight
<1>5. Outstanding(p)' = window /\ Requested(p)' = window
  BY <1>0, <1>2, <1>3, <1>4 DEF Outstanding, Requested
<1>6. ASSUME NEW q \in Live', q # p
      PROVE  /\ q \in Live /\ processes'[q] = processes[q]
             /\ InFlight(q)' = InFlight(q) /\ Outstanding(q)' = Outstanding(q)
             /\ Requested(q)' = Requested(q)
             /\ IsSegmentProcess(q)' <=> IsSegmentProcess(q)
  <2>1. q \in Live /\ processes'[q] = processes[q]
    BY <1>2, <1>6
  <2>2. InFlight(q)' = InFlight(q) /\ AtValidator(q)' = AtValidator(q)
    BY <1>0, <1>1, <1>6 DEF InFlight, AtValidator
  <2>3. StoredBy(q)' = StoredBy(q)
    BY <1>0, <2>1 DEF StoredBy
  <2> QED
    BY <2>1, <2>2, <2>3 DEF Outstanding, Requested, IsSegmentProcess
<1> HIDE DEF window
<1>7. IsSegmentProcess(p)'
  BY <1>2, <1>3, SegmentNumbers DEF IsSegmentProcess, SegmentNo
<1>8. FromProducer'
  BY <1>0 DEF Order, FromProducer
<1>9. OutOnce'
  <2> SUFFICES ASSUME NEW q \in Live', NEW s \in Segment, NEW f \in FinalBlock, NEW g \in FinalBlock,
                      <<q, s, f>> \in arrived'
               PROVE  <<q, s>> \notin flight' /\ (<<q, s, g>> \in arrived' => f = g)
    BY DEF OutOnce
  <2>1. q # p
    BY <1>0 DEF Outstanding, AtValidator
  <2>2. <<q, s>> \in flight' => <<q, s>> \in flight
    BY <1>1, <2>1
  <2> QED
    BY <1>0, <1>6, <2>1, <2>2 DEF Order, OutOnce
<1>10. InOrder'
  <2> SUFFICES ASSUME NEW q \in Live'
               PROVE  (IF IsSegmentProcess(q)
                         THEN /\ processes[q].start + Credit < Word
                              /\ processes[q].end + 1 < Word
                              /\ processes[q].queue \in {<<>>, <<processes[q].next>>}
                              /\ processes[q].start <= processes[q].next
                              /\ \A s \in Requested(q) :
                                   /\ s \in processes[q].start..processes[q].next
                                   /\ processes[q].queue # <<>> => s # processes[q].next
                         ELSE processes[q].queue = <<>> /\ processes[q].end = NoBlock)'
    BY DEF InOrder
  <2>1. CASE q = p
    <3>1. \A s \in window : s \in info.start..next /\ s # next
      BY <1>3 DEF window
    <3>2. processes'[q] = info
      BY <1>2, <2>1
    <3>3. info.start + Credit < Word /\ info.end + 1 < Word
      BY <1>3 DEF RoomInNumbers
    <3>4. \A s \in Requested(q)' : s \in info.start..next /\ s # next
      BY <1>5, <2>1, <3>1
    <3>5. IsSegmentProcess(q)' /\ info.start <= info.next /\ info.queue \in {<<>>, <<info.next>>}
      BY <1>3, <1>7, <2>1
    <3> QED
      BY <1>3, <3>2, <3>3, <3>4, <3>5
  <2>2. CASE q # p
    BY <1>6, <2>2 DEF Order, InOrder
  <2> QED
    BY <2>1, <2>2
<1>11. Answered'
  <2> SUFFICES ASSUME NEW q \in Live', IsSegmentProcess(q)', NEW s \in SegmentNo,
                      processes'[q].start <= s, s < processes'[q].next
               PROVE  s \in InFlight(q)' \cup env'.available
    BY DEF Answered
  <2>1. CASE q = p
    BY <1>2, <1>3, <1>4, <2>1 DEF SegmentNo, window
  <2>2. CASE q # p
    BY <1>0, <1>6, <2>2 DEF Order, Answered
  <2> QED
    BY <2>1, <2>2
<1>12. Tracked'
  <2> SUFFICES ASSUME NEW q \in Live', IsSegmentProcess(q)'
               PROVE  /\ Outstanding(q)' \subseteq DOMAIN processes'[q].retries
                      /\ \A s \in DOMAIN processes'[q].retries : processes'[q].retries[s] <= RetryTime
    BY DEF Tracked
  <2>1. CASE q = p
    BY <1>2, <1>3, <1>5, <2>1, RetryAssumption DEF window
  <2>2. CASE q # p
    BY <1>6, <2>2 DEF Order, Tracked
  <2> QED
    BY <2>1, <2>2
<1> QED
  BY <1>8, <1>9, <1>10, <1>11, <1>12 DEF Order

(* A single insert has no order to keep. *)
LEMMA InsertSingleKeepsOrder ==
  ASSUME TypeOK, Window, Counts, Order, NEW p \in Proc, NEW c \in Command, InsertSingle(p, c)
  PROVE  Order'
<1> DEFINE info == NewInfo(c)
<1>1. /\ p \notin used /\ SetProcess(p, info) /\ flight' = flight \cup {<<p, Whole>>}
      /\ UNCHANGED <<arrived, stored, env>>
  BY DEF InsertSingle
<1>2. info.start = NoBlock /\ info.end = NoBlock /\ info.queue = <<>>
  BY DEF InsertSingle, IsSegmented, NewInfo
<1> HIDE DEF info
<1>3. /\ Live' = Live \cup {p} /\ p \notin Live
      /\ \A q \in Live' : processes'[q] = IF q = p THEN info ELSE processes[q]
  BY <1>1 DEF SetProcess, Live, TypeOK
<1>4. Outstanding(p) = {} /\ ~IsSegmentProcess(p)'
  BY <1>1, <1>2, <1>3 DEF Window, OwnCallbacks, IsSegmentProcess
<1>5. ASSUME NEW q \in Live', q # p
      PROVE  /\ q \in Live /\ processes'[q] = processes[q]
             /\ InFlight(q)' = InFlight(q) /\ Outstanding(q)' = Outstanding(q)
             /\ Requested(q)' = Requested(q)
             /\ IsSegmentProcess(q)' <=> IsSegmentProcess(q)
  <2>1. q \in Live /\ processes'[q] = processes[q]
    BY <1>3, <1>5
  <2>2. InFlight(q)' = InFlight(q) /\ AtValidator(q)' = AtValidator(q)
    BY <1>1, <1>5 DEF InFlight, AtValidator
  <2>3. StoredBy(q)' = StoredBy(q)
    BY <1>1, <2>1 DEF StoredBy
  <2> QED
    BY <2>1, <2>2, <2>3 DEF Outstanding, Requested, IsSegmentProcess
<1>6. FromProducer'
  BY <1>1 DEF Order, FromProducer
<1>7. OutOnce'
  <2> SUFFICES ASSUME NEW q \in Live', NEW s \in Segment, NEW f \in FinalBlock, NEW g \in FinalBlock,
                      <<q, s, f>> \in arrived'
               PROVE  <<q, s>> \notin flight' /\ (<<q, s, g>> \in arrived' => f = g)
    BY DEF OutOnce
  <2>1. q # p
    BY <1>1, <1>4 DEF Outstanding, AtValidator
  <2> QED
    BY <1>1, <1>5, <2>1 DEF Order, OutOnce
<1>8. InOrder'
  <2> SUFFICES ASSUME NEW q \in Live'
               PROVE  (IF IsSegmentProcess(q)
                         THEN /\ processes[q].start + Credit < Word
                              /\ processes[q].end + 1 < Word
                              /\ processes[q].queue \in {<<>>, <<processes[q].next>>}
                              /\ processes[q].start <= processes[q].next
                              /\ \A s \in Requested(q) :
                                   /\ s \in processes[q].start..processes[q].next
                                   /\ processes[q].queue # <<>> => s # processes[q].next
                         ELSE processes[q].queue = <<>> /\ processes[q].end = NoBlock)'
    BY DEF InOrder
  <2>1. CASE q = p
    BY <1>2, <1>3, <1>4, <2>1
  <2>2. CASE q # p
    BY <1>5, <2>2 DEF Order, InOrder
  <2> QED
    BY <2>1, <2>2
<1>9. Answered' /\ Tracked'
  <2> SUFFICES ASSUME NEW q \in Live', IsSegmentProcess(q)'
               PROVE  /\ \A s \in SegmentNo : processes'[q].start <= s /\ s < processes'[q].next =>
                           s \in InFlight(q)' \cup env'.available
                      /\ Outstanding(q)' \subseteq DOMAIN processes'[q].retries
                      /\ \A s \in DOMAIN processes'[q].retries : processes'[q].retries[s] <= RetryTime
    BY DEF Answered, Tracked
  <2>1. q # p
    BY <1>4
  <2> QED
    BY <1>1, <1>5, <2>1 DEF Order, Answered, Tracked
<1> QED
  BY <1>6, <1>7, <1>8, <1>9 DEF Order

(* A delivered Data stays out: it goes from the Face to the validator. *)
LEMMA DeliverOutstanding ==
  ASSUME NEW p \in Proc, NEW s \in Segment, NEW f \in FinalBlock, Deliver(p, s, f)
  PROVE  \A q : Outstanding(q)' = Outstanding(q)
<1>1. /\ <<p, s>> \in flight /\ flight' = flight \ {<<p, s>>}
      /\ arrived' = arrived \cup {<<p, s, f>>}
  BY DEF Deliver
<1> TAKE q
<1>2. \A t \in Segment : <<q, t>> \in flight \/ (\E g \in FinalBlock : <<q, t, g>> \in arrived) <=>
                       <<q, t>> \in flight' \/ (\E g \in FinalBlock : <<q, t, g>> \in arrived')
  BY <1>1
<1> QED
  BY <1>2 DEF Outstanding, InFlight, AtValidator

(* Delivery keeps the order. *)
LEMMA DeliverKeepsOrder ==
  ASSUME Order, NEW p \in Proc, NEW s \in Segment, NEW f \in FinalBlock, Deliver(p, s, f)
  PROVE  Order'
<1>1. /\ <<p, s>> \in flight /\ s \in env.available /\ f \in env.final
      /\ flight' = flight \ {<<p, s>>} /\ arrived' = arrived \cup {<<p, s, f>>}
      /\ UNCHANGED <<processes, stored, env>> /\ Live' = Live
  BY DEF Deliver, Live
<1>2. \A q : Outstanding(q)' = Outstanding(q)
  BY DeliverOutstanding
<1>3. \A q : Requested(q)' = Requested(q)
  BY <1>1, <1>2 DEF Requested, StoredBy
<1>4. FromProducer'
  BY <1>1 DEF Order, FromProducer
<1>5. OutOnce'
  BY <1>1 DEF Order, OutOnce
<1>6. InOrder'
  BY <1>1, <1>3 DEF Order, InOrder, IsSegmentProcess
<1>7. Answered'
  BY <1>1 DEF Order, Answered, IsSegmentProcess, InFlight
<1>8. Tracked'
  BY <1>1, <1>2 DEF Order, Tracked, IsSegmentProcess
<1> QED
  BY <1>4, <1>5, <1>6, <1>7, <1>8 DEF Order

(* What a validated segment leaves of what is out and asked for *)
LEMMA SegmentOut ==
  ASSUME RoomInNumbers, TypeOK, Window, Order, NEW p \in Proc, NEW s \in Segment,
         NEW f \in FinalBlock, SegmentValidated(p, s, f), NEW new, SetProcess(p, new),
         new.name = processes[p].name, Ends(p, new) \/ Waits(p, new) \/ Sends(p, s, new)
  PROVE  LET sent == IF Sends(p, s, new) THEN {processes[p].next} ELSE {}
         IN  /\ InFlight(p)' = InFlight(p) \cup sent
             /\ s \in AtValidator(p) /\ AtValidator(p)' = AtValidator(p) \ {s} /\ s \notin InFlight(p)
             /\ StoredBy(p)' = StoredBy(p) \cup {s}
             /\ Requested(p)' \subseteq Requested(p) \cup sent
             /\ DOMAIN new.retries = IF Sends(p, s, new)
                                       THEN (DOMAIN processes[p].retries \ {s}) \cup sent
                                       ELSE DOMAIN processes[p].retries
             /\ \A q \in Live' : q # p =>
                  /\ q \in Live /\ processes'[q] = processes[q] /\ InFlight(q)' = InFlight(q)
                  /\ AtValidator(q)' = AtValidator(q) /\ StoredBy(q)' = StoredBy(q)
             /\ Live' = Live /\ processes'[p] = new
<1> DEFINE sends == Sends(p, s, new)
           sent == IF sends THEN {processes[p].next} ELSE {}
<1>1. /\ p \in Live /\ s # Whole /\ f # NoSegment /\ <<p, s, f>> \in arrived
      /\ arrived' = arrived \ {<<p, s, f>>}
      /\ stored' = stored \cup {<<Counted(p, f).name, s, p>>}
  BY DEF SegmentValidated
<1>2. Counted(p, f).name = processes[p].name
  BY <1>1, CountedOK
<1>3. Live' = Live /\ \A q \in Live' : processes'[q] = IF q = p THEN new ELSE processes[q]
  BY <1>1 DEF SetProcess, Live
<1>4. InfoOK(processes[p]) /\ processes[p].next \in Segment
  BY <1>1 DEF TypeOK, InfoOK, Segment
<1>5. flight' = flight \cup {<<p, n>> : n \in sent}
  <2>1. CASE sends
    BY <2>1 DEF Sends
  <2>2. CASE ~sends
    BY <2>2 DEF Ends, Waits
  <2> QED
    BY <2>1, <2>2
<1>6. sent \subseteq Segment
  BY <1>4
<1>7. DOMAIN new.retries = IF sends THEN (DOMAIN processes[p].retries \ {s}) \cup sent
                                    ELSE DOMAIN processes[p].retries
  <2>1. CASE sends
    BY <2>1 DEF Sends
  <2>2. CASE ~sends
    BY <2>2 DEF Ends, Waits
  <2> QED
    BY <2>1, <2>2
<1> HIDE DEF sent, sends
<1>8. InFlight(p)' = InFlight(p) \cup sent
  BY <1>5, <1>6 DEF InFlight
<1>9. s \in AtValidator(p) /\ s \notin InFlight(p)
  BY <1>1 DEF AtValidator, InFlight, Order, OutOnce
<1>10. AtValidator(p)' = AtValidator(p) \ {s}
  <2>1. \A g \in FinalBlock : <<p, s, g>> \notin arrived'
    BY <1>1 DEF Order, OutOnce
  <2>2. \A t \in Segment, g \in FinalBlock : t # s => (<<p, t, g>> \in arrived' <=> <<p, t, g>> \in arrived)
    BY <1>1
  <2> QED
    BY <2>1, <2>2 DEF AtValidator
<1>11. StoredBy(p)' = StoredBy(p) \cup {s}
  BY <1>1, <1>2, <1>3 DEF StoredBy
<1>12. Requested(p)' \subseteq Requested(p) \cup sent
  <2>1. Requested(p)' = InFlight(p)' \cup AtValidator(p)' \cup DOMAIN new.retries \cup StoredBy(p)'
    BY <1>1, <1>3 DEF Requested, Outstanding
  <2> QED
    BY <1>7, <1>8, <1>9, <1>10, <1>11, <2>1 DEF Requested, Outstanding
<1>13. ASSUME NEW q \in Live', q # p
       PROVE  /\ q \in Live /\ processes'[q] = processes[q] /\ InFlight(q)' = InFlight(q)
              /\ AtValidator(q)' = AtValidator(q) /\ StoredBy(q)' = StoredBy(q)
  <2>1. q \in Live /\ processes'[q] = processes[q]
    BY <1>3, <1>13
  <2>2. InFlight(q)' = InFlight(q) /\ AtValidator(q)' = AtValidator(q)
    BY <1>1, <1>5, <1>13 DEF InFlight, AtValidator
  <2>3. StoredBy(q)' = StoredBy(q)
    BY <1>1, <1>13, <2>1 DEF StoredBy
  <2> QED
    BY <2>1, <2>2, <2>3
<1> QED
  BY <1>1, <1>3, <1>7, <1>8, <1>9, <1>10, <1>11, <1>12, <1>13 DEF sent, sends

(* A validated segment keeps the order. *)
LEMMA SegmentValidatedKeepsOrder ==
  ASSUME RoomInNumbers, TypeOK, Window, Order, NEW p \in Proc, NEW s \in Segment,
         NEW f \in FinalBlock, SegmentValidated(p, s, f)
  PROVE  Order'
<1>1. /\ p \in Live /\ s # Whole /\ f # NoSegment /\ <<p, s, f>> \in arrived
      /\ arrived' = arrived \ {<<p, s, f>>} /\ env' = env
  BY DEF SegmentValidated
<1>2. PICK new :
        /\ SetProcess(p, new)
        /\ new.start = processes[p].start /\ new.name = processes[p].name
        /\ new.end = RefreshedEnd(processes[p].end, f)
        /\ Ends(p, new) \/ Waits(p, new) \/ Sends(p, s, new)
  BY SegmentStep
<1> DEFINE sends == Sends(p, s, new)
           sent == IF sends THEN {processes[p].next} ELSE {}
<1>3. /\ InFlight(p)' = InFlight(p) \cup sent
      /\ s \in AtValidator(p) /\ AtValidator(p)' = AtValidator(p) \ {s}
      /\ Requested(p)' \subseteq Requested(p) \cup sent
      /\ DOMAIN new.retries = IF sends THEN (DOMAIN processes[p].retries \ {s}) \cup sent
                                        ELSE DOMAIN processes[p].retries
      /\ Live' = Live /\ processes'[p] = new
  BY <1>2, SegmentOut
<1>4. ASSUME NEW q \in Live', q # p
      PROVE  /\ q \in Live /\ processes'[q] = processes[q] /\ InFlight(q)' = InFlight(q)
             /\ Outstanding(q)' = Outstanding(q) /\ Requested(q)' = Requested(q)
             /\ IsSegmentProcess(q)' <=> IsSegmentProcess(q)
  <2>1. /\ q \in Live /\ processes'[q] = processes[q] /\ InFlight(q)' = InFlight(q)
        /\ AtValidator(q)' = AtValidator(q) /\ StoredBy(q)' = StoredBy(q)
    BY <1>2, <1>4, SegmentOut
  <2> QED
    BY <2>1 DEF Outstanding, Requested, IsSegmentProcess
<1>5. IsSegmentProcess(p) /\ IsSegmentProcess(p)'
  BY <1>1, <1>2, <1>3 DEF Window, OwnCallbacks, Outstanding, IsSegmentProcess
<1>6. InfoOK(processes[p]) /\ processes[p].next \in 0..(Word - 1) /\ Word \in Nat
      /\ processes[p].start \in 0..(Word - 1)
  BY <1>1, <1>5, WordAssumption DEF TypeOK, InfoOK, SegmentNo, IsSegmentProcess
<1>7. sends => /\ processes[p].queue = <<processes[p].next>> /\ processes[p].next + 1 < Word
               /\ LET more == new.end = NoBlock \/ processes[p].next + 1 <= new.end
                  IN  /\ new.next = IF more THEN processes[p].next + 1 ELSE processes[p].next
                      /\ new.queue = IF more THEN <<processes[p].next + 1>> ELSE <<>>
               /\ new.retries[processes[p].next] = 0
               /\ \A t \in DOMAIN processes[p].retries \ {s} : new.retries[t] = processes[p].retries[t]
               /\ flight' = flight \cup {<<p, processes[p].next>>}
  BY DEF Sends
<1>8. ~sends => /\ new.next = processes[p].next /\ new.queue \in {<<>>, processes[p].queue}
                /\ new.retries = processes[p].retries /\ flight' = flight
  BY <1>2 DEF Ends, Waits
<1>9. /\ processes[p].start + Credit < Word
      /\ processes[p].end + 1 < Word
      /\ processes[p].queue \in {<<>>, <<processes[p].next>>}
      /\ processes[p].start <= processes[p].next
      /\ \A t \in Requested(p) : /\ t \in processes[p].start..processes[p].next
                                 /\ processes[p].queue # <<>> => t # processes[p].next
  BY <1>1, <1>5 DEF Order, InOrder
<1>10. new.end + 1 < Word
  <2>1. f \in env.final /\ (f = NoBlock \/ f \in SegmentNo)
    BY <1>1 DEF Order, FromProducer, FinalBlock
  <2>2. f = NoBlock \/ f + 1 < Word
    BY <2>1 DEF RoomInNumbers, Order, FromProducer
  <2> QED
    BY <1>2, <1>9, <2>2 DEF RefreshedEnd
<1> HIDE DEF sent, sends
<1>11. FromProducer'
  BY <1>1 DEF Order, FromProducer
<1>12. OutOnce'
  <2> SUFFICES ASSUME NEW q \in Live', NEW t \in Segment, NEW h \in FinalBlock, NEW g \in FinalBlock,
                      <<q, t, h>> \in arrived'
               PROVE  <<q, t>> \notin flight' /\ (<<q, t, g>> \in arrived' => h = g)
    BY DEF OutOnce
  <2>1. q \in Live /\ <<q, t, h>> \in arrived
    BY <1>1, <1>3
  <2>2. <<q, t>> \notin flight /\ (<<q, t, g>> \in arrived' => h = g)
    BY <1>1, <2>1 DEF Order, OutOnce
  <2>3. CASE sends
    <3>1. t \in AtValidator(q)
      BY <2>1 DEF AtValidator
    <3>2. q = p => t # processes[p].next
      BY <1>7, <1>9, <2>3, <3>1 DEF Requested, Outstanding
    <3> QED
      BY <1>7, <2>2, <2>3, <3>2
  <2>4. CASE ~sends
    BY <1>8, <2>2, <2>4
  <2> QED
    BY <2>3, <2>4
<1>13. InOrder'
  <2> SUFFICES ASSUME NEW q \in Live'
               PROVE  (IF IsSegmentProcess(q)
                         THEN /\ processes[q].start + Credit < Word
                              /\ processes[q].end + 1 < Word
                              /\ processes[q].queue \in {<<>>, <<processes[q].next>>}
                              /\ processes[q].start <= processes[q].next
                              /\ \A t \in Requested(q) :
                                   /\ t \in processes[q].start..processes[q].next
                                   /\ processes[q].queue # <<>> => t # processes[q].next
                         ELSE processes[q].queue = <<>> /\ processes[q].end = NoBlock)'
    BY DEF InOrder
  <2>1. CASE q = p
    <3>1. new.queue \in {<<>>, <<new.next>>} /\ processes[p].next <= new.next
      BY <1>6, <1>7, <1>8, <1>9
    <3>2. \A t \in Requested(p)' : t \in new.start..new.next /\ (new.queue # <<>> => t # new.next)
      <4> SUFFICES ASSUME NEW t \in Requested(p)'
                   PROVE  t \in new.start..new.next /\ (new.queue # <<>> => t # new.next)
        OBVIOUS
      <4>1. CASE sends
        <5>1. t \in Requested(p) \/ t = processes[p].next
          BY <1>3, <4>1 DEF sent
        <5>2. t \in processes[p].start..processes[p].next
          BY <1>6, <1>9, <5>1
        <5>3. new.next = processes[p].next + 1 \/ (new.next = processes[p].next /\ new.queue = <<>>)
          BY <1>7, <4>1
        <5> QED
          BY <1>2, <1>6, <5>2, <5>3
      <4>2. CASE ~sends
        <5>1. t \in Requested(p)
          BY <1>3, <4>2 DEF sent
        <5> QED
          BY <1>2, <1>8, <1>9, <4>2, <5>1
      <4> QED
        BY <4>1, <4>2
    <3> QED
      BY <1>2, <1>3, <1>5, <1>6, <1>7, <1>8, <1>9, <1>10, <2>1, <3>1, <3>2
  <2>2. CASE q # p
    BY <1>4, <2>2 DEF Order, InOrder
  <2> QED
    BY <2>1, <2>2
<1>14. Answered'
  <2> SUFFICES ASSUME NEW q \in Live', IsSegmentProcess(q)', NEW t \in SegmentNo,
                      processes'[q].start <= t, t < processes'[q].next
               PROVE  t \in InFlight(q)' \cup env'.available
    BY DEF Answered
  <2>1. CASE q = p
    <3>1. t < processes[p].next => t \in InFlight(p) \cup env.available
      BY <1>1, <1>2, <1>3, <1>5, <2>1 DEF Order, Answered
    <3>2. t < processes[p].next \/ (sends /\ t = processes[p].next)
      BY <1>3, <1>6, <1>7, <1>8, <2>1 DEF SegmentNo
    <3> QED
      BY <1>1, <1>3, <2>1, <3>1, <3>2 DEF sent
  <2>2. CASE q # p
    BY <1>1, <1>4, <2>2 DEF Order, Answered
  <2> QED
    BY <2>1, <2>2
<1>15. Tracked'
  <2> SUFFICES ASSUME NEW q \in Live', IsSegmentProcess(q)'
               PROVE  /\ Outstanding(q)' \subseteq DOMAIN processes'[q].retries
                      /\ \A t \in DOMAIN processes'[q].retries : processes'[q].retries[t] <= RetryTime
    BY DEF Tracked
  <2>1. CASE q = p
    <3>1. /\ Outstanding(p) \subseteq DOMAIN processes[p].retries
          /\ \A t \in DOMAIN processes[p].retries : processes[p].retries[t] <= RetryTime
      BY <1>1, <1>5 DEF Order, Tracked
    <3>2. s \notin InFlight(p)
      BY <1>2, SegmentOut
    <3>3. Outstanding(p)' \subseteq (Outstanding(p) \ {s}) \cup sent
      BY <1>3, <3>2 DEF Outstanding
    <3>4. Outstanding(p)' \subseteq DOMAIN new.retries
      BY <1>3, <3>1, <3>3 DEF sent
    <3>5. \A t \in DOMAIN new.retries : new.retries[t] <= RetryTime
      BY <1>3, <1>7, <1>8, <3>1, RetryAssumption DEF sent
    <3> QED
      BY <1>3, <2>1, <3>4, <3>5
  <2>2. CASE q # p
    BY <1>4, <2>2 DEF Order, Tracked
  <2> QED
    BY <2>1, <2>2
<1> QED
  BY <1>11, <1>12, <1>13, <1>14, <1>15 DEF Order

(* A step begins a process, delivers a Data, stores a segment, or moves nothing. *)
LEMMA NextMoves ==
  ASSUME TypeOK, Window, Counts, Order, [Next]_vars
  PROVE  \/ Unmoved
         \/ \E p \in Proc, c \in Command : InsertSingle(p, c) \/ InsertSegmented(p, c)
         \/ \E p \in Proc, s \in Segment, f \in FinalBlock :
              Deliver(p, s, f) \/ SegmentValidated(p, s, f)
<1>1. NoBlock \in FinalBlock /\ Whole \in Segment
  BY DEF FinalBlock, Segment
<1>2. ASSUME NEW c \in Command, RejectCommand(c) PROVE Unmoved
  BY <1>2 DEF RejectCommand, Unmoved, Live, InFlight, AtValidator, StoredBy
<1>3. ASSUME UNCHANGED vars PROVE Unmoved
  BY <1>3 DEF vars, Unmoved, Live, InFlight, AtValidator, StoredBy
<1>4. ASSUME NEW p \in Proc, NEW s \in Segment, NEW f \in FinalBlock,
             \/ Refused(p, s, f) \/ LateData(p, s, f) \/ DataThrows(p, s, f) \/ DataValidated(p, f)
             \/ GiveUp(p, s) \/ Retry(p, s) \/ NoEndTimePasses(p) \/ DeleteProcess(p) \/ Check(p)
      PROVE Unmoved
  BY <1>4, UnmovedSteps
<1>5. MalformedCommand => Unmoved
  BY ExitMovesNothing DEF MalformedCommand
<1> QED
  BY <1>1, <1>2, <1>3, <1>4, <1>5 DEF Next

(* Every step keeps the order. *)
LEMMA NextOrder ==
  ASSUME RoomInNumbers, TypeOK, Window, Counts, Order, [Next]_vars
  PROVE  Order'
<1>1. ASSUME Unmoved PROVE Order'
  BY <1>1, UnmovedKeepsOrder
<1>2. ASSUME NEW p \in Proc, NEW c \in Command, InsertSingle(p, c) \/ InsertSegmented(p, c)
      PROVE Order'
  BY <1>2, InsertSingleKeepsOrder, InsertSegmentedKeepsOrder
<1>3. ASSUME NEW p \in Proc, NEW s \in Segment, NEW f \in FinalBlock,
             Deliver(p, s, f) \/ SegmentValidated(p, s, f)
      PROVE Order'
  BY <1>3, DeliverKeepsOrder, SegmentValidatedKeepsOrder
<1> QED
  BY <1>1, <1>2, <1>3, NextMoves

LEMMA OrderInvariant ==
  ASSUME RoomInNumbers
  PROVE  Spec => [](TypeOK /\ Window /\ Counts /\ Order)
<1>1. Init => Order
  <2> SUFFICES ASSUME Init PROVE Order
    OBVIOUS
  <2>1. Live = {} /\ arrived = {} /\ env \in Environment
    BY DEF Init, Live
  <2> QED
    BY <2>1 DEF Order, FromProducer, OutOnce, InOrder, Answered, Tracked
<1>2. TypeOK /\ Window /\ Counts /\ Order /\ [Next]_vars => Order'
  BY NextOrder
<1> QED
  BY <1>1, <1>2, CountsInvariant, PTL DEF Spec

(* While segment numbers do not wrap around, a segment that waits to be requested was
   never requested before, and at most one waits. *)
THEOREM WaitingIsFresh ==
  ASSUME RoomInNumbers
  PROVE  Spec => []WaitingSegmentIsFresh
<1>1. TypeOK /\ Order => WaitingSegmentIsFresh
  <2> SUFFICES ASSUME TypeOK, Order, NEW p \in Live
               PROVE  /\ Len(processes[p].queue) <= 1
                      /\ \A i \in DOMAIN processes[p].queue :
                           processes[p].queue[i] \notin
                             Outstanding(p) \cup DOMAIN processes[p].retries \cup StoredBy(p)
    BY DEF WaitingSegmentIsFresh
  <2>1. CASE processes[p].queue = <<>>
    BY <2>1
  <2>2. CASE processes[p].queue = <<processes[p].next>> /\ processes[p].next \notin Requested(p)
    BY <2>2 DEF Requested
  <2> QED
    BY <2>1, <2>2 DEF Order, InOrder
<1> QED
  BY <1>1, OrderInvariant, PTL

(* While segment numbers do not wrap around, the assertions on retryCounts hold: what
   comes back to its process is tracked, and was retried at most RETRY_TIMEOUT times. *)
THEOREM RetriesAreTracked ==
  ASSUME RoomInNumbers
  PROVE  Spec => []OutstandingIsTracked
<1>1. Order => OutstandingIsTracked
  BY DEF Order, Tracked, OutstandingIsTracked
<1> QED
  BY <1>1, OrderInvariant, PTL

-----------------------------------------------------------------------------
(* Of a process that fetches segments: what it stored the producer had, and while no
   FinalBlockId cuts the producer's segments the end does not cut what it asked for;
   with 200, the whole range is stored. *)
RangeKept(p) ==
  /\ IsSegmentProcess(p) =>
       /\ StoredBy(p) \subseteq env.available
       /\ processes[p].end # NoBlock =>
            \A s \in Requested(p) \cap env.available : s <= processes[p].end
  /\ processes[p].status = 200 =>
       IsSegmentProcess(p) /\ processes[p].start..processes[p].end \subseteq StoredBy(p)

Kept == FinalIsLast => \A p \in Live : RangeKept(p)

(* Steps that store no segment leave it so. *)
LEMMA UnmovedKept ==
  ASSUME Kept, Unmoved
  PROVE  Kept'
<1> SUFFICES ASSUME FinalIsLast', NEW q \in Live' PROVE RangeKept(q)'
  BY DEF Kept
<1>1. FinalIsLast /\ q \in Live /\ env' = env
  BY DEF Unmoved, FinalIsLast
<1>2. RangeKept(q) /\ (IsSegmentProcess(q)' <=> IsSegmentProcess(q))
  BY <1>1 DEF Kept, Unmoved, IsSegmentProcess
<1>3. IsSegmentProcess(q) => StoredBy(q)' = StoredBy(q) /\ Requested(q)' \subseteq Requested(q)
  <2> SUFFICES ASSUME IsSegmentProcess(q)
               PROVE  StoredBy(q)' = StoredBy(q) /\ Requested(q)' \subseteq Requested(q)
    OBVIOUS
  <2>1. AtValidator(q)' \subseteq AtValidator(q) /\ InFlight(q)' = InFlight(q)
    BY DEF Unmoved, AtValidator
  <2>2. StoredBy(q)' = StoredBy(q) /\ DOMAIN processes'[q].retries = DOMAIN processes[q].retries
    BY DEF Unmoved
  <2> QED
    BY <2>1, <2>2 DEF Outstanding, Requested
<1>4. /\ processes'[q].start = processes[q].start /\ processes'[q].end = processes[q].end
      /\ processes'[q].status = 200 => processes[q].status = 200
  BY DEF Unmoved
<1> QED
  BY <1>1, <1>2, <1>3, <1>4 DEF RangeKept

(* A new process has stored nothing, and asks for nothing beyond its end. *)
LEMMA InsertKept ==
  ASSUME RoomInNumbers, TypeOK, Window, Counts, Kept, NEW p \in Proc, NEW c \in Command,
         InsertSingle(p, c) \/ InsertSegmented(p, c)
  PROVE  Kept'
<1> SUFFICES ASSUME FinalIsLast', NEW q \in Live' PROVE RangeKept(q)'
  BY DEF Kept
<1>1. FinalIsLast /\ env' = env /\ p \notin Live /\ UNCHANGED <<arrived, stored>>
  BY DEF InsertSingle, InsertSegmented, FinalIsLast, TypeOK
<1>2. CASE InsertSingle(p, c) /\ q = p
  <2>1. SetProcess(p, NewInfo(c)) /\ c.start = NoBlock
    BY <1>2 DEF InsertSingle, IsSegmented
  <2>2. NewInfo(c).start = NoBlock /\ NewInfo(c).status = 300
    BY <2>1 DEF NewInfo
  <2>3. processes'[p] = NewInfo(c)
    BY <2>1 DEF SetProcess
  <2> QED
    BY <1>2, <2>2, <2>3 DEF RangeKept, IsSegmentProcess
<1>3. CASE InsertSegmented(p, c) /\ q = p
  <2>1. PICK info, next : /\ SetProcess(p, info) /\ BeginsRange(p, c, info, next)
                          /\ flight' = flight \cup {<<p, s>> : s \in info.start..(next - 1)}
    BY <1>3, SegInit
  <2>2. Outstanding(p) = {} /\ StoredBy(p)' = {}
    BY <1>3, SegInit
  <2>3. processes'[p] = info
    BY <2>1 DEF SetProcess
  <2>4. /\ info.status = 300 /\ DOMAIN info.retries = info.start..(next - 1)
        /\ info.end # NoBlock => next <= info.end + 1
        /\ info.start \in Int /\ next \in Int /\ (info.end # NoBlock => info.end \in Int)
    <3>1. c.end = NoBlock \/ c.end \in SegmentNo
      BY CommandAssumption
    <3> QED
      BY <2>1, <3>1, WordAssumption DEF BeginsRange, SegmentNo
  <2>5. InFlight(p)' \subseteq info.start..(next - 1) /\ AtValidator(p)' = {}
    BY <1>1, <2>1, <2>2 DEF InFlight, AtValidator, Outstanding
  <2>6. Requested(p)' \subseteq info.start..(next - 1)
    BY <2>2, <2>3, <2>4, <2>5 DEF Requested, Outstanding
  <2>7. info.end # NoBlock => \A s \in info.start..(next - 1) : s <= info.end
    BY <2>4
  <2> QED
    BY <1>3, <2>2, <2>3, <2>4, <2>6, <2>7 DEF RangeKept
<1>4. CASE q # p
  <2>1. PICK info : SetProcess(p, info) /\ \A t : <<q, t>> \in flight' <=> <<q, t>> \in flight
    BY <1>4 DEF InsertSingle, InsertSegmented
  <2>2. q \in Live /\ processes'[q] = processes[q]
    BY <1>4, <2>1 DEF SetProcess, Live
  <2>3. InFlight(q)' = InFlight(q) /\ AtValidator(q)' = AtValidator(q) /\ StoredBy(q)' = StoredBy(q)
    BY <1>1, <2>1, <2>2 DEF InFlight, AtValidator, StoredBy
  <2>4. Requested(q)' = Requested(q) /\ (IsSegmentProcess(q)' <=> IsSegmentProcess(q))
    BY <2>2, <2>3 DEF Requested, Outstanding, IsSegmentProcess
  <2> QED
    BY <1>1, <2>2, <2>3, <2>4 DEF Kept, RangeKept
<1> QED
  BY <1>2, <1>3, <1>4

(* The process stored as many segments as the range has, all of them of the range. *)
LEMMA WholeRange ==
  ASSUME NEW start \in Nat, NEW end \in Int, start <= end, end + 1 < Word,
         NEW S \in SUBSET (start..end), Cardinality(S) >= NSegments(start, end)
  PROVE  start..end \subseteq S
<1>1. IsFiniteSet(start..end) /\ Cardinality(start..end) = end - start + 1
  BY FS_Interval
<1>2. NSegments(start, end) = end - start + 1
  <2>1. (end - start + 1) \in 0..(Word - 1) /\ Word \in Nat
    BY WordAssumption
  <2> QED
    BY <2>1 DEF NSegments
<1>3. IsFiniteSet(S) /\ Cardinality(S) <= end - start + 1 /\ Cardinality(S) \in Nat
      /\ (Cardinality(S) = end - start + 1 => S = start..end)
  BY <1>1, FS_Subset, FS_CardinalityType
<1> QED
  BY <1>2, <1>3

(* A validated segment keeps the range: the status turns to 200 when it is stored. *)
LEMMA SegmentValidatedKept ==
  ASSUME RoomInNumbers, TypeOK, Window, Counts, Order, Kept, NEW p \in Proc, NEW s \in Segment,
         NEW f \in FinalBlock, SegmentValidated(p, s, f)
  PROVE  Kept'
<1> SUFFICES ASSUME FinalIsLast', NEW q \in Live' PROVE RangeKept(q)'
  BY DEF Kept
<1>1. /\ p \in Live /\ s # Whole /\ f # NoSegment /\ <<p, s, f>> \in arrived /\ env' = env
      /\ FinalIsLast
  BY DEF SegmentValidated, FinalIsLast
<1>2. PICK new :
        /\ SetProcess(p, new)
        /\ new.start = processes[p].start /\ new.name = processes[p].name
        /\ new.end = RefreshedEnd(processes[p].end, f)
        /\ new.insertNum = processes[p].insertNum + 1
        /\ Ends(p, new) \/ Waits(p, new) \/ Sends(p, s, new)
  BY SegmentStep
<1>3. LET sent == IF Sends(p, s, new) THEN {processes[p].next} ELSE {}
      IN  /\ InFlight(p)' = InFlight(p) \cup sent
          /\ s \in AtValidator(p) /\ AtValidator(p)' = AtValidator(p) \ {s} /\ s \notin InFlight(p)
          /\ StoredBy(p)' = StoredBy(p) \cup {s}
          /\ Requested(p)' \subseteq Requested(p) \cup sent
          /\ \A r \in Live' : r # p =>
               /\ r \in Live /\ processes'[r] = processes[r] /\ InFlight(r)' = InFlight(r)
               /\ AtValidator(r)' = AtValidator(r) /\ StoredBy(r)' = StoredBy(r)
          /\ Live' = Live /\ processes'[p] = new
  BY <1>2, SegmentOut
<1>4. CASE q # p
  <2>1. Requested(q)' = Requested(q) /\ (IsSegmentProcess(q)' <=> IsSegmentProcess(q))
    BY <1>3, <1>4 DEF Requested, Outstanding, IsSegmentProcess
  <2> QED
    BY <1>1, <1>3, <1>4, <2>1 DEF Kept, RangeKept
<1>5. CASE q = p
  <2>1. /\ IsSegmentProcess(p) /\ IsSegmentProcess(p)' /\ InfoOK(processes[p]) /\ RangeKept(p)
        /\ processes[p].start \in SegmentNo
    BY <1>1, <1>2, <1>3 DEF Window, OwnCallbacks, Outstanding, IsSegmentProcess, TypeOK, InfoOK, Kept
  <2>2. s \in env.available /\ f \in env.final /\ (f = NoBlock \/ f \in SegmentNo)
    BY <1>1 DEF Order, FromProducer, FinalBlock
  <2>3. /\ processes[p].end = NoBlock \/ processes[p].end \in Nat
        /\ f = NoBlock \/ f \in Nat
        /\ processes[p].next \in Nat /\ processes[p].start \in Nat
    <3>1. {processes[p].start, processes[p].end} \subseteq SegmentNo \cup {NoBlock}
          /\ processes[p].next \in SegmentNo
      BY <2>1 DEF InfoOK
    <3>2. processes[p].end = NoBlock \/ processes[p].end \in SegmentNo
      BY <3>1
    <3> QED
      BY <2>1, <2>2, <3>1, <3>2, SegmentNumbers
  <2>4. new.end = NoBlock \/ new.end \in Nat
    BY <1>2, <2>3 DEF RefreshedEnd
  <2>5. \A t \in Requested(p) : t \in Nat
    BY <1>1, <2>1, <2>3 DEF Order, InOrder
  <2>6. new.end # NoBlock => \A t \in Requested(p)' \cap env.available : t <= new.end
    <3> SUFFICES ASSUME new.end # NoBlock, NEW t \in Requested(p)', t \in env.available
                 PROVE  t <= new.end
      OBVIOUS
    <3>1. CASE t \in Requested(p)
      <4>1. CASE new.end = f
        <5>1. f \in SegmentNo /\ f \in env.final
          BY <2>2, <4>1
        <5>2. t \in SegmentNo
          BY <1>1, <2>1, <2>3, <3>1, WordAssumption, SMTT(30) DEF Order, InOrder, SegmentNo, InfoOK
        <5> QED
          BY <1>1, <4>1, <5>1, <5>2 DEF FinalIsLast
      <4>2. CASE new.end = processes[p].end
        BY <2>1, <3>1, <4>2 DEF RangeKept
      <4> QED
        BY <1>2, <4>1, <4>2 DEF RefreshedEnd
    <3>2. CASE Sends(p, s, new) /\ t = processes[p].next
      BY <3>2 DEF Sends
    <3> QED
      BY <1>3, <3>1, <3>2
  <2>7. StoredBy(p)' \subseteq env'.available
    BY <1>1, <1>3, <2>1, <2>2 DEF RangeKept
  <2>8. new.status = 200 => new.start..new.end \subseteq StoredBy(p)'
    <3> SUFFICES ASSUME new.status = 200 PROVE new.start..new.end \subseteq StoredBy(p)'
      OBVIOUS
    <3>1. CASE AllInserted(new)
      <4>1. new.end \in Nat /\ new.insertNum >= NSegments(new.start, new.end)
        BY <2>4, <3>1 DEF AllInserted
      <4>2. new.insertNum = Cardinality(StoredBy(p)')
        <5>1. Counts'
          BY SegmentValidatedKeepsCounts
        <5> QED
          BY <1>1, <1>3, <5>1 DEF Counts, InsertNumIsStored
      <4>3. Order'
        BY SegmentValidatedKeepsOrder
      <4>4. /\ new.end + 1 < Word
            /\ \A t \in Requested(p)' : t \in new.start..new.next
        BY <1>1, <1>3, <2>1, <4>3 DEF Order, InOrder
      <4>5. StoredBy(p)' \subseteq Requested(p)'
        BY DEF Requested
      <4>6. \A t \in StoredBy(p)' : t \in new.start..new.end
        <5> SUFFICES ASSUME NEW t \in StoredBy(p)' PROVE t \in new.start..new.end
          OBVIOUS
        <5>1. t \in Requested(p)' /\ t \in env.available
          BY <1>1, <2>7, <4>5
        <5>2. t \in new.start..new.next /\ t <= new.end
          BY <2>3, <2>6, <4>1, <4>4, <5>1 DEF NoBlock
        <5> QED
          BY <1>2, <2>3, <4>1, <5>2
      <4>7. s \in new.start..new.end
        BY <1>3, <4>6
      <4>8. new.start <= new.end /\ new.start \in Nat
        BY <1>2, <2>3, <4>1, <4>7
      <4> QED
        BY <4>1, <4>2, <4>4, <4>6, <4>8, WholeRange
    <3>2. CASE processes[p].status = 200
      <4>1. processes[p].end # NoBlock
        BY <1>1, <3>2 DEF Window, SuccessHasEnd
      <4>2. new.end <= processes[p].end
        BY <1>2, <2>3, <4>1 DEF RefreshedEnd
      <4>3. processes[p].start..processes[p].end \subseteq StoredBy(p)
        BY <2>1, <3>2 DEF RangeKept
      <4>4. \A t \in new.start..new.end : t \in processes[p].start..processes[p].end
        BY <1>2, <2>3, <2>4, <4>1, <4>2 DEF NoBlock
      <4> QED
        BY <1>3, <4>3, <4>4
    <3> QED
      BY <1>2, <3>1, <3>2 DEF Ends, Waits, Sends
  <2> QED
    BY <1>1, <1>3, <1>5, <2>1, <2>6, <2>7, <2>8 DEF RangeKept
<1> QED
  BY <1>4, <1>5

(* A delivered Data leaves the range as it is. *)
LEMMA DeliverKept ==
  ASSUME Kept, NEW p \in Proc, NEW s \in Segment, NEW f \in FinalBlock, Deliver(p, s, f)
  PROVE  Kept'
<1>1. /\ <<p, s>> \in flight /\ flight' = flight \ {<<p, s>>} /\ arrived' = arrived \cup {<<p, s, f>>}
      /\ UNCHANGED <<processes, stored, env>> /\ Live' = Live
  BY DEF Deliver, Live
<1>2. \A q : Outstanding(q)' = Outstanding(q)
  BY DeliverOutstanding
<1>3. \A q : Requested(q)' = Requested(q)
  BY <1>1, <1>2 DEF Requested, StoredBy
<1> QED
  BY <1>1, <1>3 DEF Kept, RangeKept, FinalIsLast, IsSegmentProcess, StoredBy

LEMMA NextKept ==
  ASSUME RoomInNumbers, TypeOK, Window, Counts, Order, Kept, [Next]_vars
  PROVE  Kept'
<1>1. NoBlock \in FinalBlock /\ Whole \in Segment
  BY DEF FinalBlock, Segment
<1>2. ASSUME Unmoved PROVE Kept'
  BY <1>2, UnmovedKept
<1>3. ASSUME NEW p \in Proc, NEW c \in Command, InsertSingle(p, c) \/ InsertSegmented(p, c)
      PROVE Kept'
  BY <1>3, InsertKept
<1>4. ASSUME NEW p \in Proc, NEW s \in Segment, NEW f \in FinalBlock,
             Deliver(p, s, f) \/ SegmentValidated(p, s, f)
      PROVE Kept'
  BY <1>4, DeliverKept, SegmentValidatedKept
<1> QED
  BY <1>2, <1>3, <1>4, NextMoves

(* While segment numbers do not wrap around, 200 means that the whole range is stored. *)
THEOREM SuccessMeansStored ==
  ASSUME RoomInNumbers
  PROVE  Spec => []DoneMeansStored
<1>1. Init => Kept
  <2> SUFFICES ASSUME Init PROVE Kept
    OBVIOUS
  <2>1. Live = {}
    BY DEF Init, Live
  <2> QED
    BY <2>1 DEF Kept
<1>2. TypeOK /\ Window /\ Counts /\ Order /\ Kept /\ [Next]_vars => Kept'
  BY NextKept
<1>3. TypeOK /\ Kept => DoneMeansStored
  BY DEF TypeOK, Kept, RangeKept, DoneMeansStored, StoredBy, Has
<1> QED
  BY <1>1, <1>2, <1>3, OrderInvariant, PTL DEF Spec

-----------------------------------------------------------------------------
(* No FinalBlockId lies before the segments of a command.  With one that does,
   EndBlockId - StartBlockId + 1 wraps around and the process waits for ever. *)
FinalCoversStart ==
  \A c \in Command : \A e \in Environment : \A f \in e.final \cap SegmentNo : StartOf(c) <= f + 1

(* Of a process that may still be served: something is out or its deletion is scheduled;
   all before the next segment is out or stored, and when no segment waits, all of the
   range is. *)
CanMove(p) ==
  /\ p \in doomed \/ Outstanding(p) # {}
  /\ IsSegmentProcess(p) =>
       /\ \A s \in SegmentNo : processes[p].start <= s /\ s < processes[p].next =>
            s \in Outstanding(p) \cup StoredBy(p)
       /\ processes[p].queue = <<>> =>
            /\ processes[p].end # NoBlock
            /\ processes[p].start..processes[p].end \subseteq Outstanding(p) \cup StoredBy(p)
       /\ \A f \in env.final \cap SegmentNo : processes[p].start <= f + 1
       /\ processes[p].end # NoBlock => processes[p].start <= processes[p].end + 1

Moving == ~env.unverified => \A p \in Live : CanMove(p)

(* Steps that deliver nothing leave it so. *)
LEMMA UnmovedMoving ==
  ASSUME Moving, Unmoved
  PROVE  Moving'
<1> SUFFICES ASSUME ~env'.unverified, NEW q \in Live' PROVE CanMove(q)'
  BY DEF Moving
<1>1. ~env.unverified /\ q \in Live /\ env' = env
  BY DEF Unmoved
<1>2. CanMove(q) /\ (IsSegmentProcess(q)' <=> IsSegmentProcess(q))
  BY <1>1 DEF Moving, Unmoved, IsSegmentProcess
<1>3. /\ processes'[q].start = processes[q].start /\ processes'[q].end = processes[q].end
      /\ processes'[q].next = processes[q].next /\ processes'[q].queue = processes[q].queue
      /\ q \in doomed => q \in doomed'
  BY DEF Unmoved
<1>4. CASE ~IsSegmentProcess(q) /\ q \in doomed'
  BY <1>2, <1>4 DEF CanMove
<1>5. CASE AtValidator(q)' = AtValidator(q)
  <2>1. InFlight(q)' = InFlight(q) /\ (IsSegmentProcess(q) => StoredBy(q)' = StoredBy(q))
    BY DEF Unmoved
  <2>2. Outstanding(q)' = Outstanding(q)
    BY <1>5, <2>1 DEF Outstanding
  <2> QED
    BY <1>1, <1>2, <1>3, <2>1, <2>2 DEF CanMove
<1> QED
  BY <1>1, <1>4, <1>5 DEF Unmoved

(* A new process has its first Interest out. *)
LEMMA InsertMoving ==
  ASSUME RoomInNumbers, FinalCoversStart, TypeOK, Window, Counts, Order, Moving, NEW p \in Proc,
         NEW c \in Command, InsertSingle(p, c) \/ InsertSegmented(p, c)
  PROVE  Moving'
<1> SUFFICES ASSUME ~env'.unverified, NEW q \in Live' PROVE CanMove(q)'
  BY DEF Moving
<1>1. env' = env /\ p \notin Live /\ UNCHANGED <<arrived, stored, doomed>>
  BY DEF InsertSingle, InsertSegmented, TypeOK
<1>2. CASE InsertSingle(p, c) /\ q = p
  <2>1. SetProcess(p, NewInfo(c)) /\ c.start = NoBlock /\ <<p, Whole>> \in flight'
    BY <1>2 DEF InsertSingle, IsSegmented
  <2>2. processes'[p] = NewInfo(c) /\ NewInfo(c).start = NoBlock
    BY <2>1 DEF SetProcess, NewInfo
  <2>3. Whole \in Outstanding(p)'
    BY <2>1 DEF Outstanding, InFlight, Segment
  <2> QED
    BY <1>2, <2>2, <2>3 DEF CanMove, IsSegmentProcess
<1>3. CASE InsertSegmented(p, c) /\ q = p
  <2>1. PICK info, next : /\ SetProcess(p, info) /\ BeginsRange(p, c, info, next)
                          /\ flight' = flight \cup {<<p, s>> : s \in info.start..(next - 1)}
    BY <1>3, SegInit
  <2>2. processes'[p] = info
    BY <2>1 DEF SetProcess
  <2>3. /\ info.queue # <<>> /\ info.next = next /\ info.start = StartOf(c)
        /\ info.start < next /\ info.start \in SegmentNo /\ next \in SegmentNo
        /\ info.end # NoBlock => info.start <= info.end /\ info.end = c.end
    BY <2>1 DEF BeginsRange
  <2>4. info.start \in Nat /\ next \in Nat /\ (info.end # NoBlock => info.end \in Nat)
    <3>1. c.end = NoBlock \/ c.end \in SegmentNo
      BY CommandAssumption
    <3> QED
      BY <2>3, <3>1, SegmentNumbers
  <2>5. \A s \in SegmentNo : info.start <= s /\ s < next => s \in InFlight(p)'
    BY <2>1, <2>4, SegmentNumbers DEF InFlight, Segment
  <2>6. info.start \in InFlight(p)'
    BY <2>3, <2>4, <2>5
  <2>7. \A f \in env'.final \cap SegmentNo : info.start <= f + 1
    BY <1>1, <2>3 DEF FinalCoversStart, Order, FromProducer
  <2> QED
    BY <1>3, <2>2, <2>3, <2>4, <2>5, <2>6, <2>7 DEF CanMove, Outstanding
<1>4. CASE q # p
  <2>1. PICK info : SetProcess(p, info) /\ \A t : <<q, t>> \in flight' <=> <<q, t>> \in flight
    BY <1>4 DEF InsertSingle, InsertSegmented
  <2>2. q \in Live /\ processes'[q] = processes[q]
    BY <1>4, <2>1 DEF SetProcess, Live
  <2>3. InFlight(q)' = InFlight(q) /\ AtValidator(q)' = AtValidator(q) /\ StoredBy(q)' = StoredBy(q)
    BY <1>1, <2>1, <2>2 DEF InFlight, AtValidator, StoredBy
  <2>4. Outstanding(q)' = Outstanding(q) /\ (IsSegmentProcess(q)' <=> IsSegmentProcess(q))
    BY <2>2, <2>3 DEF Outstanding, IsSegmentProcess
  <2>5. CanMove(q)
    BY <1>1, <2>2 DEF Moving
  <2> QED
    BY <1>1, <2>2, <2>3, <2>4, <2>5 DEF CanMove
<1> QED
  BY <1>2, <1>3, <1>4

(* A delivered Data stays out. *)
LEMMA DeliverMoving ==
  ASSUME Moving, NEW p \in Proc, NEW s \in Segment, NEW f \in FinalBlock, Deliver(p, s, f)
  PROVE  Moving'
<1>1. /\ UNCHANGED <<processes, stored, env, doomed>> /\ Live' = Live
  BY DEF Deliver, Live
<1>2. \A q : Outstanding(q)' = Outstanding(q)
  BY DeliverOutstanding
<1> QED
  BY <1>1, <1>2 DEF Moving, CanMove, IsSegmentProcess, StoredBy

(* A process that has its whole range has it counted. *)
LEMMA RangeIsCounted ==
  ASSUME NEW info, info.start \in Nat, info.end \in Nat, info.start <= info.end + 1,
         info.end + 1 < Word, NEW S, IsFiniteSet(S), info.start..info.end \subseteq S,
         info.insertNum = Cardinality(S), info.end # NoBlock
  PROVE  AllInserted(info)
<1>1. IsFiniteSet(info.start..info.end) /\ Cardinality(info.start..info.end) = info.end - info.start + 1
  <2>1. info.start \in Int /\ info.end \in Int
    OBVIOUS
  <2>2. /\ IsFiniteSet(info.start..info.end)
        /\ Cardinality(info.start..info.end) =
             IF info.start > info.end THEN 0 ELSE info.end - info.start + 1
    BY <2>1, FS_Interval
  <2> QED
    BY <2>1, <2>2
<1>2. NSegments(info.start, info.end) = info.end - info.start + 1
  <2>1. (info.end - info.start + 1) \in 0..(Word - 1) /\ Word \in Nat
    BY WordAssumption
  <2> QED
    BY <2>1 DEF NSegments
<1>3. Cardinality(info.start..info.end) <= Cardinality(S) /\ Cardinality(S) \in Nat
  BY <1>1, FS_Subset, FS_CardinalityType
<1> QED
  BY <1>1, <1>2, <1>3 DEF AllInserted

(* A validated segment ends the process, or leaves another one out. *)
LEMMA SegmentValidatedMoving ==
  ASSUME RoomInNumbers, TypeOK, Window, Counts, Order, Moving, NEW p \in Proc, NEW s \in Segment,
         NEW f \in FinalBlock, SegmentValidated(p, s, f)
  PROVE  Moving'
<1> SUFFICES ASSUME ~env'.unverified, NEW q \in Live' PROVE CanMove(q)'
  BY DEF Moving
<1>1. /\ p \in Live /\ s # Whole /\ f # NoSegment /\ <<p, s, f>> \in arrived /\ env' = env
      /\ doomed \subseteq doomed'
  BY DEF SegmentValidated
<1>2. PICK new :
        /\ SetProcess(p, new)
        /\ new.start = processes[p].start /\ new.name = processes[p].name
        /\ new.end = RefreshedEnd(processes[p].end, f)
        /\ new.insertNum = processes[p].insertNum + 1
        /\ Ends(p, new) \/ Waits(p, new) \/ Sends(p, s, new)
  BY SegmentStep
<1>3. LET sent == IF Sends(p, s, new) THEN {processes[p].next} ELSE {}
      IN  /\ InFlight(p)' = InFlight(p) \cup sent
          /\ s \in AtValidator(p) /\ AtValidator(p)' = AtValidator(p) \ {s} /\ s \notin InFlight(p)
          /\ StoredBy(p)' = StoredBy(p) \cup {s}
          /\ \A r \in Live' : r # p =>
               /\ r \in Live /\ processes'[r] = processes[r] /\ InFlight(r)' = InFlight(r)
               /\ AtValidator(r)' = AtValidator(r) /\ StoredBy(r)' = StoredBy(r)
          /\ Live' = Live /\ processes'[p] = new
  BY <1>2, SegmentOut
<1>4. CASE q # p
  <2>1. Outstanding(q)' = Outstanding(q) /\ (IsSegmentProcess(q)' <=> IsSegmentProcess(q))
    BY <1>3, <1>4 DEF Outstanding, IsSegmentProcess
  <2>2. CanMove(q)
    BY <1>1, <1>3, <1>4 DEF Moving
  <2> QED
    BY <1>1, <1>3, <1>4, <2>1, <2>2 DEF CanMove
<1>5. CASE q = p
  <2>1. /\ IsSegmentProcess(p) /\ IsSegmentProcess(p)' /\ InfoOK(processes[p]) /\ CanMove(p)
        /\ processes[p].start \in SegmentNo
    BY <1>1, <1>2, <1>3 DEF Window, OwnCallbacks, Outstanding, IsSegmentProcess, TypeOK, InfoOK, Moving
  <2>2. f \in env.final /\ (f = NoBlock \/ f \in SegmentNo)
    BY <1>1 DEF Order, FromProducer, FinalBlock
  <2>3. /\ processes[p].end = NoBlock \/ processes[p].end \in Nat
        /\ f = NoBlock \/ f \in Nat
        /\ processes[p].next \in Nat /\ processes[p].next < Word /\ processes[p].start \in Nat
    <3>1. {processes[p].start, processes[p].end} \subseteq SegmentNo \cup {NoBlock}
          /\ processes[p].next \in SegmentNo
      BY <2>1 DEF InfoOK
    <3>2. processes[p].end = NoBlock \/ processes[p].end \in SegmentNo
      BY <3>1
    <3>3. processes[p].next < Word
      BY <3>1, WordAssumption DEF SegmentNo
    <3> QED
      BY <2>1, <2>2, <3>1, <3>2, <3>3, SegmentNumbers
  <2>4. /\ new.end = NoBlock \/ new.end \in Nat
        /\ processes[p].end # NoBlock => new.end # NoBlock /\ new.end <= processes[p].end
    BY <1>2, <2>3 DEF RefreshedEnd
  <2> DEFINE have == Outstanding(p) \cup StoredBy(p)
  <2>5. have \subseteq Outstanding(p)' \cup StoredBy(p)'
        /\ (Sends(p, s, new) => processes[p].next \in Outstanding(p)')
    BY <1>3 DEF Outstanding
  <2>6. new.end # NoBlock => new.start <= new.end + 1
    <3>1. CASE new.end = processes[p].end
      BY <1>2, <2>1, <3>1 DEF CanMove
    <3>2. CASE new.end = f /\ f # NoBlock
      BY <1>2, <2>1, <2>2, <3>2 DEF CanMove
    <3> QED
      BY <1>2, <3>1, <3>2 DEF RefreshedEnd
  <2>7. \A t \in SegmentNo : new.start <= t /\ t < new.next =>
            t \in Outstanding(p)' \cup StoredBy(p)'
    <3> SUFFICES ASSUME NEW t \in SegmentNo, new.start <= t, t < new.next
                 PROVE  t \in Outstanding(p)' \cup StoredBy(p)'
      OBVIOUS
    <3>1. t < processes[p].next => t \in have
      BY <1>2, <2>1 DEF CanMove
    <3>2. t < processes[p].next \/ (t = processes[p].next /\ Sends(p, s, new))
      <4>1. t \in Nat
        BY SegmentNumbers
      <4> QED
        BY <1>2, <2>3, <4>1 DEF Ends, Waits, Sends
    <3> HIDE DEF have
    <3> QED
      BY <2>5, <3>1, <3>2
  <2>8. new.queue = <<>> =>
          new.end # NoBlock /\ new.start..new.end \subseteq Outstanding(p)' \cup StoredBy(p)'
    <3> SUFFICES ASSUME new.queue = <<>>
                 PROVE  new.end # NoBlock
                        /\ new.start..new.end \subseteq Outstanding(p)' \cup StoredBy(p)'
      OBVIOUS
    <3>1. CASE processes[p].queue = <<>>
      <4>1. processes[p].end # NoBlock /\ processes[p].start..processes[p].end \subseteq have
        BY <2>1, <3>1 DEF CanMove
      <4>2. \A t \in new.start..new.end : t \in processes[p].start..processes[p].end
        BY <1>2, <2>3, <2>4, <4>1 DEF NoBlock
      <4> HIDE DEF have
      <4> QED
        BY <2>4, <2>5, <4>1, <4>2
    <3>2. CASE new.end # NoBlock /\ new.next > new.end
      <4>1. \A t \in new.start..new.end : t \in SegmentNo /\ new.start <= t /\ t < new.next
        BY <1>2, <2>3, <2>4, <3>2, WordAssumption DEF SegmentNo, Ends, Waits, Sends
      <4> QED
        BY <2>7, <3>2, <4>1
    <3>3. CASE Sends(p, s, new) /\ new.end # NoBlock /\ processes[p].next + 1 > new.end
               /\ new.next = processes[p].next
      <4>1. \A t \in new.start..new.end : t \in SegmentNo /\ new.start <= t
                                        /\ (t < new.next \/ t = new.next)
        BY <1>2, <2>3, <2>4, <3>3, WordAssumption DEF SegmentNo
      <4>2. ASSUME NEW t \in new.start..new.end PROVE t \in Outstanding(p)' \cup StoredBy(p)'
        BY <2>5, <2>7, <3>3, <4>1
      <4> QED
        BY <3>3, <4>2
    <3> QED
      BY <1>2, <2>3, <2>4, <3>1, <3>2, <3>3 DEF Ends, Waits, Sends
  <2>9. p \in doomed' \/ Outstanding(p)' # {}
    <3>1. CASE Ends(p, new)
      BY <3>1 DEF Ends
    <3>2. CASE Sends(p, s, new)
      BY <2>5, <3>2
    <3>3. CASE Waits(p, new)
      <4> SUFFICES ASSUME Outstanding(p)' = {} PROVE FALSE
        OBVIOUS
      <4>1. new.queue = <<>> /\ ~AllInserted(new)
        BY <3>3 DEF Waits
      <4>2. new.end # NoBlock /\ new.start..new.end \subseteq StoredBy(p)'
        BY <2>8, <4>1
      <4>3. new.insertNum = Cardinality(StoredBy(p)')
        <5>1. Counts'
          BY SegmentValidatedKeepsCounts
        <5> QED
          BY <1>1, <1>3, <5>1 DEF Counts, InsertNumIsStored
      <4>4. new.end + 1 < Word
        <5>1. Order'
          BY SegmentValidatedKeepsOrder
        <5> QED
          BY <1>1, <1>3, <2>1, <5>1 DEF Order, InOrder
      <4>5. IsFiniteSet(StoredBy(p)')
        <5>1. IsFiniteSet(StoredBy(p))
          BY FiniteStored
        <5> QED
          BY <1>3, <5>1, FS_AddElement
      <4> QED
        BY <1>2, <2>3, <2>4, <2>6, <4>1, <4>2, <4>3, <4>4, <4>5, RangeIsCounted
    <3> QED
      BY <1>2, <3>1, <3>2, <3>3
  <2> QED
    BY <1>1, <1>2, <1>3, <1>5, <2>1, <2>6, <2>7, <2>8, <2>9 DEF CanMove
<1> QED
  BY <1>4, <1>5

LEMMA NextMoving ==
  ASSUME RoomInNumbers, FinalCoversStart, TypeOK, Window, Counts, Order, Moving, [Next]_vars
  PROVE  Moving'
<1>1. ASSUME Unmoved PROVE Moving'
  BY <1>1, UnmovedMoving
<1>2. ASSUME NEW p \in Proc, NEW c \in Command, InsertSingle(p, c) \/ InsertSegmented(p, c)
      PROVE Moving'
  BY <1>2, InsertMoving
<1>3. ASSUME NEW p \in Proc, NEW s \in Segment, NEW f \in FinalBlock,
             Deliver(p, s, f) \/ SegmentValidated(p, s, f)
      PROVE Moving'
  BY <1>3, DeliverMoving, SegmentValidatedMoving
<1> QED
  BY <1>1, <1>2, <1>3, NextMoves

(* While segment numbers do not wrap around, no FinalBlockId lies before a command's
   segments and the validator accepts Data, every process has a callback to come. *)
THEOREM NoProcessWaitsForNothing ==
  ASSUME RoomInNumbers, FinalCoversStart
  PROVE  Spec => []NoProcessStuck
<1>1. Init => Moving
  <2> SUFFICES ASSUME Init PROVE Moving
    OBVIOUS
  <2>1. Live = {}
    BY DEF Init, Live
  <2> QED
    BY <2>1 DEF Moving
<1>2. TypeOK /\ Window /\ Counts /\ Order /\ Moving /\ [Next]_vars => Moving'
  BY NextMoving
<1>3. Moving => NoProcessStuck
  BY DEF Moving, CanMove, NoProcessStuck
<1> QED
  BY <1>1, <1>2, <1>3, OrderInvariant, PTL DEF Spec
=============================================================================
