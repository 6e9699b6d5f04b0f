------------------------------ MODULE WatchProofs ------------------------------
(***************************************************************************)
(* Proofs about WatchHandle, and about RepoWatch, which commands it: for   *)
(* any names, packets, commands and number of chains, a watch that says it *)
(* runs fetches, a stopped one is quiet, what a watch stored it excludes,  *)
(* and a watch that is left alone keeps to its number of Interests; the    *)
(* tool's options reach the repo and the repo's state reaches the tool.    *)
(***************************************************************************)
EXTENDS RepoWatch, CommandCodecProofs, FiniteSetTheorems

-----------------------------------------------------------------------------
(* Induction over the subsets of a finite set, by a minimal counterexample: a finite,
   nonempty set of naturals has a largest element. *)
LEMMA LargestOfFinite ==
  ASSUME NEW S \in SUBSET Nat, IsFiniteSet(S), S # {}
  PROVE  \E m \in S : \A k \in S : k <= m
<1> DEFINE Largest(U, m) == \A k \in U : k <= m
           bad == {U \in FiniteSubsetsOf(S) : U # {} /\ \A m \in U : ~Largest(U, m)}
<1> SUFFICES ASSUME S \in bad PROVE FALSE
  BY DEF FiniteSubsetsOf
<1>1. IsWellFoundedOn(StrictSubsetOrdering(S), FiniteSubsetsOf(S))
  BY FS_StrictSubsetOrderingWellFounded
<1>2. PICK U \in bad : \A V \in bad : <<V, U>> \notin StrictSubsetOrdering(S)
  <2>1. bad \subseteq FiniteSubsetsOf(S) /\ bad # {}
    OBVIOUS
  <2> HIDE DEF bad
  <2> QED
    BY <1>1, <2>1, WFMin
<1>3. PICK x \in U : TRUE
  BY <1>2
<1> DEFINE rest == U \ {x}
<1>4. rest \in FiniteSubsetsOf(S) /\ <<rest, U>> \in StrictSubsetOrdering(S) /\ U \subseteq Nat
  BY <1>2, <1>3, FS_Subset DEF FiniteSubsetsOf, StrictSubsetOrdering
<1>5. rest \notin bad
  BY <1>2, <1>4
<1>6. rest = {} \/ \E m \in rest : Largest(rest, m)
  BY <1>4, <1>5
<1>7. \E m \in U : Largest(U, m)
  <2>1. CASE rest = {}
    BY <1>3, <1>4, <2>1
  <2>2. ASSUME NEW m \in rest, Largest(rest, m) PROVE \E n \in U : Largest(U, n)
    BY <1>3, <1>4, <2>2
  <2> QED
    BY <1>6, <2>1, <2>2
<1> QED
  BY <1>2, <1>7

(* A number of the command, as the repo stores it *)
LEMMA AsInt64IsInt ==
  ASSUME NEW c \in Command
  PROVE  c.name \in Watched /\ AsInt64(c.max) \in Int
BY CommandAssumption, WordAssumption DEF AsInt64

(* The largest number that a count is compared with *)
LEMMA MaxCountIsLargest ==
  ASSUME IsFiniteSet(Command)
  PROVE  MaxCount \in Nat /\ \A c \in Command : AsInt64(c.max) <= MaxCount
<1> DEFINE values == {AsInt64(c.max) : c \in Command}
           naturals == (values \cap Nat) \cup {0}
           valueOf == [c \in Command |-> AsInt64(c.max)]
<1>1. values \subseteq Int
  BY AsInt64IsInt
<1>2. IsFiniteSet(values)
  <2>1. valueOf \in Surjection(Command, values)
    BY DEF Surjection
  <2> HIDE DEF valueOf, values
  <2> QED
    BY <2>1, FS_Surjection
<1>3. IsFiniteSet(naturals) /\ naturals \subseteq Nat /\ naturals # {}
  <2> HIDE DEF values
  <2>1. IsFiniteSet(values \cap Nat)
    BY <1>2, FS_Subset
  <2> QED
    BY <2>1, FS_AddElement
<1>4. PICK m \in naturals : \A k \in naturals : k <= m
  <2> HIDE DEF naturals
  <2> QED
    BY <1>3, LargestOfFinite
<1>5. m \in values \cup {0} /\ 0 <= m /\ \A k \in values : k <= m
  <2> HIDE DEF values
  <2>1. m \in Nat /\ \A k \in values : k \in Nat \/ k < 0
    BY <1>1, <1>3, <1>4
  <2> QED
    BY <1>1, <1>4, <2>1
<1>6. \E n \in values \cup {0} : 0 <= n /\ \A c \in Command : AsInt64(c.max) <= n
  BY <1>5
<1>7. /\ MaxCount \in values \cup {0} /\ 0 <= MaxCount
      /\ \A c \in Command : AsInt64(c.max) <= MaxCount
  BY <1>6 DEF MaxCount
<1> QED
  BY <1>1, <1>7

-----------------------------------------------------------------------------
(* The shape of the state: entries and links are records, links name watched prefixes. *)
EntryOK(e) ==
  /\ DOMAIN e = {"status", "insertNum", "running"}
  /\ e.insertNum \in Nat

LinkOK(link) ==
  /\ DOMAIN link = {"name", "excl", "at"}
  /\ link.name \in Watched

Shape ==
  /\ \A n \in Known : EntryOK(processes[n])
  /\ \A c \in Busy : LinkOK(chain[c])
  /\ max \in Int /\ interestNum \in Nat /\ size \in Nat
  /\ DOMAIN history = {"starts", "named", "of"} /\ history.starts \in Nat
  /\ DOMAIN history.of = Watched
  /\ \A n \in Watched :
       DOMAIN history.of[n] = {"max", "timed", "sent"} /\ history.of[n].max \in Int
                                                      /\ history.of[n].sent \in Nat

(* The entry that operator[] finds or makes *)
LEMMA EntryIsOK ==
  ASSUME Shape, NEW n
  PROVE  EntryOK(Entry(n)) /\ (Entry(n).running <=> Running(n))
BY DEF Shape, Entry, NewProcess, EntryOK, Running

(* What a set entry leaves of the others *)
LEMMA SetProcessOK ==
  ASSUME Shape, NEW n, NEW entry, EntryOK(entry), SetProcess(n, entry)
  PROVE  /\ Known' = Known \cup {n} /\ processes'[n] = entry
         /\ \A m \in Known' : EntryOK(processes'[m])
         /\ \A m : m # n => (Running(m)' <=> Running(m))
         /\ Running(n)' <=> entry.running
<1>1. Known' = Known \cup {n} /\ \A m \in Known' : processes'[m] = IF m = n THEN entry ELSE processes[m]
  BY DEF SetProcess, Known
<1> QED
  BY <1>1 DEF Running, Shape

(* What a set link leaves of the others *)
LEMMA SetChainOK ==
  ASSUME Shape, NEW c, NEW link, LinkOK(link), SetChain(c, link)
  PROVE  /\ Busy' = Busy \cup {c} /\ chain'[c] = link
         /\ \A d \in Busy : d # c => chain'[d] = chain[d]
         /\ \A d \in Busy' : LinkOK(chain'[d])
<1>1. Busy' = Busy \cup {c} /\ \A d \in Busy' : chain'[d] = IF d = c THEN link ELSE chain[d]
  BY DEF SetChain, Busy
<1> QED
  BY <1>1 DEF Shape

(* What an ended chain leaves of the others *)
LEMMA EndChainOK ==
  ASSUME Shape, NEW c, EndChain(c)
  PROVE  /\ Busy' = Busy \ {c}
         /\ \A d \in Busy' : chain'[d] = chain[d] /\ LinkOK(chain'[d])
<1>1. Busy' = Busy \ {c} /\ \A d \in Busy' : chain'[d] = chain[d]
  BY DEF EndChain, Busy
<1> QED
  BY <1>1 DEF Shape

(* A stopped watch does not run; the limits that all watches share are reset. *)
LEMMA WatchStopOK ==
  ASSUME Shape, NEW n, WatchStop(n)
  PROVE  /\ Known' = Known \cup {n} /\ \A m \in Known' : EntryOK(processes'[m])
         /\ ~Running(n)' /\ \A m : m # n => (Running(m)' <=> Running(m))
         /\ max' = 0 /\ interestNum' = 0 /\ size' = 0
<1> DEFINE entry == [Entry(n) EXCEPT !.running = FALSE]
<1>1. EntryOK(entry) /\ ~entry.running
  BY EntryIsOK DEF EntryOK
<1>2. SetProcess(n, entry) /\ max' = 0 /\ interestNum' = 0 /\ size' = 0
  BY DEF WatchStop
<1> HIDE DEF entry
<1> QED
  BY <1>1, <1>2, SetProcessOK

(* The next Interest of a chain moves its link and the counts of its name. *)
LEMMA FetchNextOK ==
  ASSUME Shape, NEW c \in Busy, NEW excl, FetchNext(c, excl)
  PROVE  /\ Busy' = Busy /\ chain'[c].name = chain[c].name /\ chain'[c].excl = excl
         /\ \A d \in Busy : d # c => chain'[d] = chain[d]
         /\ \A d \in Busy' : LinkOK(chain'[d])
         /\ interestNum' = PlusOne(interestNum) /\ interestNum' \in Nat
         /\ DOMAIN history' = DOMAIN history /\ DOMAIN history'.of = Watched
         /\ history'.starts = history.starts /\ history'.named = history.named
         /\ \A n \in Watched : n # chain[c].name => history'.of[n] = history.of[n]
         /\ LET n == chain[c].name
            IN  /\ history'.of[n].max = history.of[n].max /\ history'.of[n].timed = history.of[n].timed
                /\ history'.of[n].sent = SentPlusOne(history.of[n].sent)
                /\ history'.of[n].sent \in Nat /\ DOMAIN history'.of[n] = DOMAIN history.of[n]
<1> DEFINE link == [chain[c] EXCEPT !.excl = excl, !.at = Face]
           n == chain[c].name
           record == [history.of[n] EXCEPT !.sent = SentPlusOne(history.of[n].sent)]
           of == [history.of EXCEPT ![n] = record]
<1>1. LinkOK(chain[c]) /\ n \in Watched
  BY DEF Shape, LinkOK
<1>2. LinkOK(link) /\ link.name = n /\ link.excl = excl
  BY <1>1 DEF LinkOK
<1>3. SetChain(c, link) /\ interestNum' = PlusOne(interestNum)
      /\ history' = [history EXCEPT !.of = of]
  BY DEF FetchNext, CountInterest
<1>4. /\ DOMAIN history = {"starts", "named", "of"} /\ DOMAIN history.of = Watched
      /\ interestNum \in Nat /\ history.of[n].sent \in Nat
      /\ DOMAIN history.of[n] = {"max", "timed", "sent"}
  BY <1>1 DEF Shape
<1>5. /\ record.max = history.of[n].max /\ record.timed = history.of[n].timed
      /\ record.sent = SentPlusOne(history.of[n].sent) /\ DOMAIN record = DOMAIN history.of[n]
      /\ record.sent \in Nat
  BY <1>4 DEF SentPlusOne
<1> HIDE DEF record
<1>6. DOMAIN of = Watched /\ of[n] = record /\ \A m \in Watched : m # n => of[m] = history.of[m]
  BY <1>1, <1>4
<1> HIDE DEF of
<1>7. /\ history'.of = of /\ history'.starts = history.starts /\ history'.named = history.named
      /\ DOMAIN history' = DOMAIN history
  BY <1>3, <1>4
<1>8. Busy' = Busy /\ chain'[c] = link /\ (\A d \in Busy : d # c => chain'[d] = chain[d])
      /\ \A d \in Busy' : LinkOK(chain'[d])
  <2>1. Busy' = Busy \cup {c}
    BY <1>2, <1>3, SetChainOK
  <2> HIDE DEF link
  <2> QED
    BY <1>2, <1>3, <2>1, SetChainOK
<1>9. PlusOne(interestNum) \in Nat
  BY <1>4 DEF PlusOne
<1> HIDE DEF link
<1> QED
  BY <1>2, <1>3, <1>5, <1>6, <1>7, <1>8, <1>9

-----------------------------------------------------------------------------
(* What steps do to a watch: begin a chain, send its next Interest, or neither. *)
Begins == \E command \in Command, c \in Chain : Start(command, c)

SendsNext ==
  \E c \in Busy : \E excl :
    /\ FetchNext(c, excl) /\ chain[c].excl \subseteq excl
    /\ Running(chain[c].name) /\ ~OverLimit /\ max' = max
    /\ \A n \in Watched : Running(n)' <=> Running(n)
    /\ \/ stored' = stored
       \/ \E v \in Packet : v \in excl /\ stored' = stored \cup {<<chain[c].name, v>>}

Rests ==
  /\ Busy' \subseteq Busy
  /\ \A d \in Busy' : chain'[d].name = chain[d].name /\ chain'[d].excl = chain[d].excl
  /\ history'.of = history.of /\ history'.starts = history.starts
  /\ history.named \subseteq history'.named
  /\ \A n \in Watched : Running(n)' =>
       Running(n) /\ \A d \in Busy : chain[d].name = n => d \in Busy'
  /\ \/ max' = max /\ interestNum' = interestNum
     \/ \E n : /\ ~Running(n)'
               /\ n \in history'.named \/ \E c \in Busy : chain[c].name = n
  /\ \/ stored' = stored
     \/ \E c \in Busy, v \in Packet :
          /\ Running(chain[c].name) /\ Busy' = Busy \ {c}
          /\ stored' = stored \cup {<<chain[c].name, v>>}

(* A watch at its limit stops, and its chain ends. *)
LEMMA StopAtLimitRests ==
  ASSUME Shape, NEW c \in Busy, StopAtLimit(c), Running(chain[c].name),
         \/ stored' = stored
         \/ \E v \in Packet : stored' = stored \cup {<<chain[c].name, v>>}
  PROVE  Rests /\ Shape'
<1>0. PICK n : n = chain[c].name
  OBVIOUS
<1>1. WatchStop(n) /\ EndChain(c) /\ history' = history
  BY <1>0 DEF StopAtLimit
<1>2. /\ Busy' = Busy \ {c}
      /\ \A d \in Busy' : chain'[d] = chain[d] /\ LinkOK(chain'[d])
  BY <1>1, EndChainOK
<1>3. /\ Known' = Known \cup {n} /\ \A m \in Known' : EntryOK(processes'[m])
      /\ ~Running(n)' /\ \A m : m # n => (Running(m)' <=> Running(m))
      /\ max' = 0 /\ interestNum' = 0 /\ size' = 0
  BY <1>1, WatchStopOK
<1>4. Shape'
  BY <1>1, <1>2, <1>3 DEF Shape
<1>5. Rests
  BY <1>0, <1>1, <1>2, <1>3 DEF Rests
<1> QED
  BY <1>4, <1>5

(* The end of the process ends all chains. *)
LEMMA ExitRests ==
  ASSUME Shape, Exit
  PROVE  Rests /\ Shape'
<1>1. Known' = {} /\ Busy' = {} /\ UNCHANGED <<shared, stored, history>>
  BY DEF Exit, Known, Busy, Empty
<1>2. \A n : ~Running(n)'
  BY <1>1 DEF Running
<1>3. Shape'
  BY <1>1 DEF Shape, shared
<1>4. Rests
  BY <1>1, <1>2 DEF Rests, shared
<1> QED
  BY <1>3, <1>4

(* The handlers of a chain: each of them stops it, sends its next Interest, or ends. *)
LEMMA CallbackSteps ==
  ASSUME Shape, NEW c \in Chain, Callback(c)
  PROVE  (SendsNext \/ Rests) /\ Shape'
<1>1. CASE NotRunning(c)
  <2>0. PICK n : n = chain[c].name
    OBVIOUS
  <2>1. c \in Busy /\ ~Entry(n).running /\ SetProcess(n, Entry(n)) /\ EndChain(c)
        /\ UNCHANGED <<shared, stored, history>>
    BY <1>1, <2>0 DEF NotRunning
  <2>2. EntryOK(Entry(n)) /\ ~Running(n)
    BY <2>1, EntryIsOK
  <2>3. /\ \A m \in Known' : EntryOK(processes'[m])
        /\ \A m : m # n => (Running(m)' <=> Running(m))
        /\ ~Running(n)'
    BY <2>1, <2>2, SetProcessOK
  <2>4. /\ Busy' = Busy \ {c}
        /\ \A d \in Busy' : chain'[d] = chain[d] /\ LinkOK(chain'[d])
    BY <2>1, EndChainOK
  <2>5. Shape'
    BY <2>1, <2>3, <2>4 DEF Shape, shared
  <2>6. Rests
    BY <2>0, <2>1, <2>2, <2>3, <2>4 DEF Rests, shared
  <2> QED
    BY <2>5, <2>6
<1>2. ASSUME NEW v \in Packet, DataThrows(c, v) PROVE (SendsNext \/ Rests) /\ Shape'
  BY <1>2, ExitRests DEF DataThrows
<1>3. ASSUME NEW v \in Packet, DataValidated(c, v) PROVE (SendsNext \/ Rests) /\ Shape'
  <2> DEFINE n == chain[c].name
  <2>1. c \in Busy /\ Running(n) /\ stored' = stored \cup {<<n, v>>}
    BY <1>3, EntryIsOK DEF DataValidated, AtValidator
  <2>2. CASE OverLimit /\ StopAtLimit(c)
    BY <2>1, <2>2, StopAtLimitRests
  <2>3. CASE /\ ~OverLimit /\ size' = size + 1
             /\ SetProcess(n, [processes[n] EXCEPT !.insertNum = size'])
             /\ FetchNext(c, ExcludeBefore(chain[c].excl, v))
             /\ UNCHANGED <<max, clock, doomed>>
    <3> DEFINE entry == [processes[n] EXCEPT !.insertNum = size']
               excl == ExcludeBefore(chain[c].excl, v)
    <3>1. EntryOK(processes[n]) /\ size' \in Nat
      BY <2>1, <2>3 DEF Shape, Running
    <3>2. EntryOK(entry) /\ (entry.running <=> Running(n))
      BY <2>1, <3>1 DEF EntryOK, Running
    <3>3. SetProcess(n, entry)
      BY <2>3
    <3> HIDE DEF entry
    <3>4. /\ \A m \in Known' : EntryOK(processes'[m])
          /\ \A m : Running(m)' <=> Running(m)
      BY <3>2, <3>3, SetProcessOK
    <3>5. chain[c].excl \subseteq excl /\ v \in excl
      BY SetAssumption DEF ExcludeBefore
    <3> HIDE DEF excl
    <3>6. FetchNext(c, excl) /\ max' = max
      BY <2>3 DEF excl
    <3>7. SendsNext
      BY <2>1, <2>3, <3>4, <3>5, <3>6 DEF SendsNext
    <3>8. Shape'
      <4>1. /\ \A d \in Busy' : LinkOK(chain'[d]) /\ interestNum' \in Nat
            /\ DOMAIN history' = DOMAIN history /\ DOMAIN history'.of = Watched
            /\ history'.starts = history.starts
        BY <2>1, <3>6, FetchNextOK
      <4>2. interestNum' \in Nat
        BY <2>1, <3>6, FetchNextOK
      <4>3. \A m \in Watched :
              DOMAIN history'.of[m] = {"max", "timed", "sent"} /\ history'.of[m].max \in Int
                                                      /\ history'.of[m].sent \in Nat
        BY <2>1, <3>6, FetchNextOK DEF Shape, LinkOK
      <4> QED
        BY <3>1, <3>4, <3>6, <4>1, <4>2, <4>3 DEF Shape
    <3> QED
      BY <3>7, <3>8
  <2> QED
    BY <1>3, <2>2, <2>3 DEF DataValidated
<1>4. ASSUME c \in Busy, Running(chain[c].name), stored' = stored, NEW excl,
             chain[c].excl \subseteq excl,
             \/ OverLimit /\ StopAtLimit(c)
             \/ /\ ~OverLimit /\ FetchNext(c, excl)
                /\ UNCHANGED <<processes, max, clock, size, doomed>>
      PROVE  (SendsNext \/ Rests) /\ Shape'
  <2>1. CASE OverLimit /\ StopAtLimit(c)
    BY <1>4, <2>1, StopAtLimitRests
  <2>2. CASE ~OverLimit /\ FetchNext(c, excl) /\ UNCHANGED <<processes, max, clock, size, doomed>>
    <3>1. Known' = Known /\ \A m : Running(m)' <=> Running(m)
      BY <2>2 DEF Running, Known
    <3>2. SendsNext
      BY <1>4, <2>2, <3>1 DEF SendsNext
    <3>3. Shape'
      <4>1. /\ \A d \in Busy' : LinkOK(chain'[d])
            /\ DOMAIN history' = DOMAIN history /\ DOMAIN history'.of = Watched
            /\ history'.starts = history.starts /\ interestNum' \in Nat
        BY <1>4, <2>2, FetchNextOK
      <4>2. \A m \in Watched :
              DOMAIN history'.of[m] = {"max", "timed", "sent"} /\ history'.of[m].max \in Int
                                                      /\ history'.of[m].sent \in Nat
        BY <1>4, <2>2, FetchNextOK DEF Shape, LinkOK
      <4> QED
        BY <2>2, <3>1, <4>1, <4>2 DEF Shape
    <3> QED
      BY <3>2, <3>3
  <2> QED
    BY <1>4, <2>1, <2>2
<1>5. ASSUME NEW v \in Packet, Refused(c, v) PROVE (SendsNext \/ Rests) /\ Shape'
  <2>1. /\ c \in Busy /\ Running(chain[c].name) /\ stored' = stored
    BY <1>5, EntryIsOK DEF Refused, AtValidator
  <2>2. chain[c].excl \subseteq ExcludeBefore(chain[c].excl, v)
    BY DEF ExcludeBefore
  <2>3. \/ OverLimit /\ StopAtLimit(c)
        \/ /\ ~OverLimit /\ FetchNext(c, ExcludeBefore(chain[c].excl, v))
           /\ UNCHANGED <<processes, max, clock, size, doomed>>
    BY <1>5 DEF Refused
  <2> QED
    BY <1>4, <2>1, <2>2, <2>3
<1>6. ASSUME Timeout(c) PROVE (SendsNext \/ Rests) /\ Shape'
  <2>1. /\ c \in Busy /\ Running(chain[c].name) /\ stored' = stored
    BY <1>6, EntryIsOK DEF Timeout
  <2>2. \/ OverLimit /\ StopAtLimit(c)
        \/ /\ ~OverLimit /\ FetchNext(c, chain[c].excl)
           /\ UNCHANGED <<processes, max, clock, size, doomed>>
    BY <1>6 DEF Timeout
  <2> QED
    BY <1>4, <2>1, <2>2
<1> QED
  BY <1>1, <1>2, <1>3, <1>5, <1>6 DEF Callback

(* Commands, deliveries and the timers *)
LEMMA OtherSteps ==
  ASSUME Shape
  PROVE  /\ RejectCommand \/ WatchTimePasses \/ UNCHANGED vars => Rests /\ Shape'
         /\ MalformedCommand => Rests /\ Shape'
         /\ \A n \in Watched : Stop(n) \/ Check(n) \/ DeleteProcess(n) => Rests /\ Shape'
         /\ \A c \in Chain, v \in Packet : Deliver(c, v) => Rests /\ Shape'
<1>1. ASSUME RejectCommand \/ WatchTimePasses \/ UNCHANGED vars PROVE Rests /\ Shape'
  <2>1. UNCHANGED <<processes, max, interestNum, size, chain, stored, history>>
    BY <1>1 DEF RejectCommand, WatchTimePasses, vars, shared
  <2>2. \A n : Running(n)' <=> Running(n)
    BY <2>1 DEF Running, Known
  <2> QED
    BY <2>1, <2>2 DEF Rests, Shape, Known, Busy
<1>2. ASSUME NEW n \in Watched, Stop(n) PROVE Rests /\ Shape'
  <2> DEFINE named == history.named \cup {n}
  <2>1. WatchStop(n) /\ UNCHANGED <<chain, stored>> /\ history' = [history EXCEPT !.named = named]
    BY <1>2 DEF Stop
  <2>2. /\ history'.named = named /\ history'.of = history.of /\ history'.starts = history.starts
        /\ DOMAIN history' = DOMAIN history
    BY <2>1 DEF Shape
  <2>3. /\ \A m \in Known' : EntryOK(processes'[m])
        /\ ~Running(n)' /\ \A m : m # n => (Running(m)' <=> Running(m))
        /\ max' = 0 /\ interestNum' = 0 /\ size' = 0
    BY <2>1, WatchStopOK
  <2>4. Shape'
    BY <2>1, <2>2, <2>3 DEF Shape, Busy
  <2>5. Rests
    BY <2>1, <2>2, <2>3 DEF Rests, Busy
  <2> QED
    BY <2>4, <2>5
<1>3. ASSUME NEW n \in Watched, Check(n) PROVE Rests /\ Shape'
  <2>1. UNCHANGED <<max, interestNum, size, chain, stored, history>>
    BY <1>3 DEF Check, shared
  <2>2. (\A m \in Known' : EntryOK(processes'[m])) /\ (\A m : Running(m)' <=> Running(m))
    <3>1. CASE UNCHANGED processes
      BY <3>1 DEF Shape, Running, Known
    <3>2. CASE n \in Known /\ SetProcess(n, [processes[n] EXCEPT !.status = 101])
      <4> DEFINE entry == [processes[n] EXCEPT !.status = 101]
      <4>1. EntryOK(entry) /\ (entry.running <=> Running(n))
        BY <3>2 DEF Shape, EntryOK, Running
      <4>2. SetProcess(n, entry)
        BY <3>2
      <4> HIDE DEF entry
      <4> QED
        BY <4>1, <4>2, SetProcessOK
    <3> QED
      BY <1>3, <3>1, <3>2 DEF Check
  <2> QED
    BY <2>1, <2>2 DEF Rests, Shape, Busy
<1>4. ASSUME NEW n \in Watched, DeleteProcess(n) PROVE Rests /\ Shape'
  <2>1. processes' = [m \in Known \ {n} |-> processes[m]]
        /\ UNCHANGED <<max, interestNum, size, chain, stored, history>>
    BY <1>4 DEF DeleteProcess, shared
  <2>2. Known' = Known \ {n} /\ \A m \in Known' : processes'[m] = processes[m]
    BY <2>1 DEF Known
  <2>3. (\A m \in Known' : EntryOK(processes'[m])) /\ (\A m : Running(m)' => Running(m))
    BY <2>2 DEF Shape, Running
  <2> QED
    BY <2>1, <2>3 DEF Rests, Shape, Busy
<1>5. ASSUME NEW c \in Chain, NEW v \in Packet, Deliver(c, v) PROVE Rests /\ Shape'
  <2> DEFINE link == [chain[c] EXCEPT !.at = v]
  <2>1. c \in Busy /\ SetChain(c, link) /\ UNCHANGED <<processes, max, interestNum, size, stored, history>>
    BY <1>5 DEF Deliver, shared
  <2>2. LinkOK(link) /\ link.name = chain[c].name /\ link.excl = chain[c].excl
    BY <2>1 DEF Shape, LinkOK
  <2> HIDE DEF link
  <2>3. /\ Busy' = Busy /\ chain'[c] = link
        /\ \A d \in Busy : d # c => chain'[d] = chain[d]
        /\ \A d \in Busy' : LinkOK(chain'[d])
    BY <2>1, <2>2, SetChainOK
  <2>4. \A n : Running(n)' <=> Running(n)
    BY <2>1 DEF Running, Known
  <2>5. Shape'
    BY <2>1, <2>3 DEF Shape, Known
  <2>6. Rests
    BY <2>1, <2>2, <2>3, <2>4 DEF Rests
  <2> QED
    BY <2>5, <2>6
<1>6. ASSUME MalformedCommand PROVE Rests /\ Shape'
  BY <1>6, ExitRests DEF MalformedCommand
<1> QED
  BY <1>1, <1>2, <1>3, <1>4, <1>5, <1>6

(* A start sets an entry and a chain. *)
LEMMA StartOK ==
  ASSUME Shape, NEW command \in Command, NEW c \in Chain, Start(command, c)
  PROVE  LET n == command.name
         IN  /\ n \in Watched /\ AsInt64(command.max) \in Int
             /\ c \notin Busy /\ Busy' = Busy \cup {c}
             /\ chain'[c] = [name |-> n, excl |-> {}, at |-> Face]
             /\ \A d \in Busy : chain'[d] = chain[d]
             /\ Running(n)' /\ \A m : m # n => (Running(m)' <=> Running(m))
             /\ max' = AsInt64(command.max) /\ interestNum' = PlusOne(interestNum)
             /\ stored' = stored
             /\ history'.starts = history.starts + 1
             /\ history'.named = history.named \cup {n}
             /\ history'.of[n].max = AsInt64(command.max) /\ history'.of[n].sent = 1
             /\ history'.of[n].timed = (Clock(command.timeout) # "off")
             /\ \A m \in Watched : m # n => history'.of[m] = history.of[m]
             /\ Shape'
<1> DEFINE n == command.name
           entry == [status |-> 300, insertNum |-> 0, running |-> TRUE]
           link == [name |-> n, excl |-> {}, at |-> Face]
           record == [max |-> AsInt64(command.max), timed |-> Clock(command.timeout) # "off",
                      sent |-> 1]
           of == [history.of EXCEPT ![n] = record]
<1>1. n \in Watched /\ AsInt64(command.max) \in Int
  BY AsInt64IsInt
<1>2. /\ c \notin Busy /\ SetProcess(n, entry) /\ SetChain(c, link)
      /\ max' = AsInt64(command.max) /\ interestNum' = PlusOne(interestNum)
      /\ stored' = stored /\ size' = size
      /\ history' = [starts |-> history.starts + 1, named |-> history.named \cup {n}, of |-> of]
  BY DEF Start
<1>3. EntryOK(entry) /\ entry.running /\ LinkOK(link)
  BY <1>1 DEF EntryOK, LinkOK
<1>4. DOMAIN of = Watched /\ of[n] = record /\ \A m \in Watched : m # n => of[m] = history.of[m]
  BY <1>1 DEF Shape
<1> HIDE DEF entry, link, of
<1>5. /\ \A m \in Known' : EntryOK(processes'[m])
      /\ Running(n)' /\ \A m : m # n => (Running(m)' <=> Running(m))
  BY <1>2, <1>3, SetProcessOK
<1>6. /\ Busy' = Busy \cup {c} /\ chain'[c] = link
      /\ \A d \in Busy : chain'[d] = chain[d]
      /\ \A d \in Busy' : LinkOK(chain'[d])
  BY <1>2, <1>3, SetChainOK
<1>7. history'.starts = history.starts + 1 /\ history'.named = history.named \cup {n}
      /\ history'.of = of /\ DOMAIN history' = {"starts", "named", "of"}
  BY <1>2
<1>8. Shape'
  <2>1. PlusOne(interestNum) \in Nat /\ history.starts + 1 \in Nat
    BY DEF Shape, PlusOne
  <2>2. DOMAIN record = {"max", "timed", "sent"} /\ record.max \in Int /\ record.sent \in Nat
    BY <1>1
  <2> HIDE DEF record
  <2>3. \A m \in Watched :
          DOMAIN of[m] = {"max", "timed", "sent"} /\ of[m].max \in Int /\ of[m].sent \in Nat
    BY <1>4, <2>2 DEF Shape
  <2> QED
    BY <1>1, <1>2, <1>4, <1>5, <1>6, <1>7, <2>1, <2>3 DEF Shape
<1> QED
  BY <1>1, <1>2, <1>4, <1>5, <1>6, <1>7, <1>8 DEF link

(* Every step begins a chain, sends its next Interest, or neither. *)
LEMMA NextSteps ==
  ASSUME Shape, [Next]_vars
  PROVE  (Begins \/ SendsNext \/ Rests) /\ Shape'
<1>1. ASSUME NEW command \in Command, NEW c \in Chain, Start(command, c)
      PROVE  Begins /\ Shape'
  BY <1>1, StartOK DEF Begins
<1>2. ASSUME NEW c \in Chain, Callback(c) PROVE (SendsNext \/ Rests) /\ Shape'
  BY <1>2, CallbackSteps
<1> QED
  BY <1>1, <1>2, OtherSteps DEF Next

(* The first state has the shape. *)
LEMMA InitShape == Init => Shape
BY DEF Init, Shape, Known, Busy, Empty, NoLimit

(* The shape of the state is an invariant. *)
LEMMA ShapeInvariant == Spec => []Shape
BY InitShape, NextSteps, PTL DEF Spec

-----------------------------------------------------------------------------
(* A watch that runs is fetched: its name has a chain. *)
LEMMA FetchingKept ==
  ASSUME Shape, RunningIsFetching, [Next]_vars
  PROVE  RunningIsFetching'
<1> SUFFICES ASSUME NEW n \in Watched, Running(n)'
             PROVE  \E c \in Busy' : chain'[c].name = n
  BY DEF RunningIsFetching
<1>1. CASE Begins
  <2>1. PICK command \in Command, c \in Chain : Start(command, c)
    BY <1>1 DEF Begins
  <2>2. /\ Busy' = Busy \cup {c} /\ chain'[c] = [name |-> command.name, excl |-> {}, at |-> Face]
        /\ \A d \in Busy : chain'[d] = chain[d]
        /\ \A m : m # command.name => (Running(m)' <=> Running(m))
    BY <2>1, StartOK
  <2>3. CASE n = command.name
    BY <2>2, <2>3
  <2>4. CASE n # command.name
    BY <2>2, <2>4 DEF RunningIsFetching
  <2> QED
    BY <2>3, <2>4
<1>2. CASE SendsNext
  <2>1. PICK c \in Busy : \E excl : FetchNext(c, excl)
    BY <1>2 DEF SendsNext
  <2>2. Busy' = Busy /\ \A d \in Busy : chain'[d].name = chain[d].name
    BY <2>1, FetchNextOK
  <2>3. Running(n)
    BY <1>2 DEF SendsNext
  <2> QED
    BY <2>2, <2>3 DEF RunningIsFetching
<1>3. CASE Rests
  <2>1. Running(n) /\ \A d \in Busy : chain[d].name = n => d \in Busy'
    BY <1>3 DEF Rests
  <2> QED
    BY <1>3, <2>1 DEF RunningIsFetching, Rests
<1> QED
  BY <1>1, <1>2, <1>3, NextSteps

(* A watch that runs has an Interest or a Data out, at all times and for any number of
   watches of a name: no failed validation, timeout, stop or stale deletion leaves a
   watch that says 300 and fetches nothing. *)
THEOREM WatchFetches == Spec => []RunningIsFetching
<1>1. Init => RunningIsFetching
  BY DEF Init, RunningIsFetching, Running, Known, Empty
<1> QED
  BY <1>1, FetchingKept, ShapeInvariant, PTL DEF Spec

-----------------------------------------------------------------------------
(* Steps keep what is stored and sent for the names that do not run. *)
LEMMA QuietSteps ==
  ASSUME Shape, [Next]_vars, NEW n \in Watched, ~Running(n), reply' # 100
  PROVE  /\ {p \in stored' : p[1] = n} = {p \in stored : p[1] = n}
         /\ history'.of[n].sent = history.of[n].sent
<1>1. CASE Begins
  BY <1>1 DEF Begins, Start
<1>2. CASE SendsNext
  <2>1. PICK c \in Busy : \E excl :
          /\ FetchNext(c, excl) /\ Running(chain[c].name)
          /\ \/ stored' = stored
             \/ \E v \in Packet : stored' = stored \cup {<<chain[c].name, v>>}
    BY <1>2 DEF SendsNext
  <2>2. chain[c].name # n
    BY <2>1
  <2>3. history'.of[n] = history.of[n]
    BY <2>1, <2>2, FetchNextOK
  <2> QED
    BY <2>1, <2>2, <2>3
<1>3. CASE Rests
  BY <1>3 DEF Rests
<1> QED
  BY <1>1, <1>2, <1>3, NextSteps

(* A stop takes effect at once, whatever was in the Face or at the validator: for a
   name whose watch does not run no packet is stored and no Interest is sent, other
   than by a new start. *)
THEOREM StopIsImmediate == Spec => StoppedIsQuiet
<1> DEFINE Quiet(n) == ~Running(n) /\ reply' # 100 =>
             /\ {p \in stored' : p[1] = n} = {p \in stored : p[1] = n}
             /\ history'.of[n].sent = history.of[n].sent
<1>1. Shape /\ [Next]_vars => [\A n \in Watched : Quiet(n)]_vars
  BY QuietSteps
<1> QED
  BY <1>1, ShapeInvariant, PTL DEF Spec, StoppedIsQuiet

-----------------------------------------------------------------------------
(* With one start there is one chain, and before it nothing. *)
OneChain ==
  /\ history.starts = 0 => Busy = {} /\ stored = {}
  /\ history.starts <= 1 => \A c, d \in Busy : c = d
  /\ StoredIsExcluded

(* Every step keeps the single chain and what it excludes. *)
LEMMA OneChainKept ==
  ASSUME Shape, OneChain, [Next]_vars
  PROVE  OneChain'
<1>0. history.starts \in Nat
  BY DEF Shape
<1>1. CASE Begins
  <2>1. PICK command \in Command, c \in Chain : Start(command, c)
    BY <1>1 DEF Begins
  <2>2. /\ Busy' = Busy \cup {c} /\ stored' = stored
        /\ history'.starts = history.starts + 1
    BY <2>1, StartOK
  <2>3. history'.starts # 0 /\ (history'.starts <= 1 => history.starts = 0)
    BY <1>0, <2>2
  <2> QED
    BY <2>2, <2>3 DEF OneChain, StoredIsExcluded
<1>2. CASE SendsNext
  <2>0. PICK c \in Busy : \E excl :
          /\ FetchNext(c, excl) /\ chain[c].excl \subseteq excl
          /\ \/ stored' = stored
             \/ \E v \in Packet : v \in excl /\ stored' = stored \cup {<<chain[c].name, v>>}
    BY <1>2 DEF SendsNext
  <2>1. PICK excl :
          /\ FetchNext(c, excl) /\ chain[c].excl \subseteq excl
          /\ \/ stored' = stored
             \/ \E v \in Packet : v \in excl /\ stored' = stored \cup {<<chain[c].name, v>>}
    BY <2>0
  <2>2. /\ Busy' = Busy /\ chain'[c].name = chain[c].name /\ chain'[c].excl = excl
        /\ history'.starts = history.starts
    BY <2>1, FetchNextOK
  <2>3. history.starts # 0 /\ (history.starts <= 1 => Busy = {c})
    BY DEF OneChain
  <2>4. history.starts <= 1 => \A v \in Packet : <<chain[c].name, v>> \in stored' => v \in excl
    BY <2>1 DEF OneChain, StoredIsExcluded
  <2> QED
    BY <2>2, <2>3, <2>4 DEF OneChain, StoredIsExcluded
<1>3. CASE Rests
  <2>1. /\ Busy' \subseteq Busy /\ history'.starts = history.starts
        /\ \A d \in Busy' : chain'[d].name = chain[d].name /\ chain'[d].excl = chain[d].excl
    BY <1>3 DEF Rests
  <2>2. CASE stored' = stored
    BY <2>1, <2>2 DEF OneChain, StoredIsExcluded
  <2>3. CASE \E c \in Busy : Busy' = Busy \ {c}
    <3>1. history.starts # 0 /\ (history.starts <= 1 => Busy' = {})
      BY <2>3 DEF OneChain
    <3> QED
      BY <2>1, <3>1 DEF OneChain, StoredIsExcluded
  <2> QED
    BY <1>3, <2>2, <2>3 DEF Rests
<1> QED
  BY <1>1, <1>2, <1>3, NextSteps

(* Until a second start, every packet that the watch stored is excluded by the Interest
   in the Face, so insertData never throws on a packet the watch itself stored. *)
THEOREM ExcludesWhatItStored == Spec => []StoredIsExcluded
<1>1. Init => OneChain
  BY DEF Init, OneChain, StoredIsExcluded, Busy, Empty
<1>2. OneChain => StoredIsExcluded
  BY DEF OneChain
<1> QED
  BY <1>1, <1>2, OneChainKept, ShapeInvariant, PTL DEF Spec

-----------------------------------------------------------------------------
(* The shared counter of a watch that is left alone follows what it sent, up to the
   largest number a count is compared with. *)
Follows(n) ==
  LET h == history.of[n] IN
  history.named = {n} /\ Running(n) =>
    /\ max = h.max /\ h.max <= MaxCount
    /\ h.max # 0 => h.sent <= 1 \/ h.sent <= h.max
    /\ h.sent <= interestNum \/ MaxCount <= interestNum

Alone ==
  /\ \A c \in Busy : chain[c].name \in history.named
  /\ \A n \in Watched : Running(n) => n \in history.named
  /\ \A n \in Watched : Follows(n)

(* Every step keeps the shared counter of a watch that is left alone. *)
LEMMA AloneKept ==
  ASSUME IsFiniteSet(Command), Shape, Alone, [Next]_vars
  PROVE  Alone'
<1>0. MaxCount \in Nat /\ \A c \in Command : AsInt64(c.max) <= MaxCount
  BY MaxCountIsLargest
<1>1. CASE Begins
  <2>1. PICK command \in Command, c \in Chain : Start(command, c)
    BY <1>1 DEF Begins
  <2>2. PICK n : n = command.name
    OBVIOUS
  <2>3. /\ n \in Watched
        /\ Busy' = Busy \cup {c} /\ chain'[c] = [name |-> n, excl |-> {}, at |-> Face]
        /\ \A d \in Busy : chain'[d] = chain[d]
        /\ \A m : m # n => (Running(m)' <=> Running(m))
        /\ max' = AsInt64(command.max) /\ interestNum' = PlusOne(interestNum)
        /\ history'.named = history.named \cup {n}
        /\ history'.of[n].max = AsInt64(command.max) /\ history'.of[n].sent = 1
    BY <2>1, <2>2, StartOK
  <2>4. \A d \in Busy' : chain'[d].name \in history'.named
    BY <2>3 DEF Alone
  <2>5. \A m \in Watched : Running(m)' => m \in history'.named
    BY <2>3 DEF Alone
  <2>6. interestNum \in Nat
    BY DEF Shape
  <2>7. Follows(n)'
    <3>1. history'.of[n].max = max' /\ history'.of[n].sent = 1 /\ max' <= MaxCount
      BY <1>0, <2>3
    <3>2. 1 <= PlusOne(interestNum) \/ MaxCount <= PlusOne(interestNum)
      BY <1>0, <2>6 DEF PlusOne
    <3> QED
      BY <2>3, <3>1, <3>2 DEF Follows
  <2>8. \A m \in Watched : m # n => history'.named # {m}
    BY <2>3
  <2> QED
    BY <2>4, <2>5, <2>7, <2>8 DEF Alone, Follows
<1>2. CASE SendsNext
  <2>0. PICK c \in Busy : \E excl :
          /\ FetchNext(c, excl) /\ Running(chain[c].name) /\ ~OverLimit /\ max' = max
    BY <1>2 DEF SendsNext
  <2>1. PICK excl :
          /\ FetchNext(c, excl) /\ Running(chain[c].name) /\ ~OverLimit /\ max' = max
    BY <2>0
  <2>2. PICK n : n = chain[c].name
    OBVIOUS
  <2>3. /\ Busy' = Busy /\ \A d \in Busy : chain'[d].name = chain[d].name
        /\ interestNum' = PlusOne(interestNum)
        /\ history'.named = history.named
        /\ history'.of[n].max = history.of[n].max
        /\ history'.of[n].sent = SentPlusOne(history.of[n].sent)
    BY <2>1, <2>2, FetchNextOK
  <2>4. \A m \in Watched : Running(m)' <=> Running(m)
    BY <1>2 DEF SendsNext
  <2>5. n \in Watched /\ n \in history.named
    BY <2>2 DEF Alone, Shape, LinkOK
  <2>6. Follows(n)'
    <3> SUFFICES ASSUME history.named = {n}, Running(n)
                 PROVE  LET sent == SentPlusOne(history.of[n].sent)
                            h == history.of[n]
                        IN  /\ max = h.max /\ h.max <= MaxCount
                            /\ h.max # 0 => sent <= 1 \/ sent <= h.max
                            /\ sent <= PlusOne(interestNum) \/ MaxCount <= PlusOne(interestNum)
      BY <2>1, <2>3, <2>4, <2>5 DEF Follows
    <3> DEFINE h == history.of[n]
    <3>1. /\ max = h.max /\ h.max <= MaxCount /\ (h.max # 0 => h.sent <= 1 \/ h.sent <= h.max)
          /\ h.sent <= interestNum \/ MaxCount <= interestNum
      BY <2>5 DEF Alone, Follows
    <3>2. h.max \in Int /\ h.sent \in Nat /\ interestNum \in Nat
      BY <2>5 DEF Shape
    <3>3. max # 0 => interestNum < max
      BY <2>1, <3>1, <3>2 DEF OverLimit
    <3> HIDE DEF h
    <3>4. h.max # 0 => SentPlusOne(h.sent) <= 1 \/ SentPlusOne(h.sent) <= h.max
      BY <1>0, <3>1, <3>2, <3>3 DEF SentPlusOne
    <3>5. SentPlusOne(h.sent) <= PlusOne(interestNum) \/ MaxCount <= PlusOne(interestNum)
      BY <1>0, <3>1, <3>2 DEF SentPlusOne, PlusOne
    <3> QED
      BY <3>1, <3>4, <3>5 DEF h
  <2>7. \A m \in Watched : m # n => history'.named # {m}
    BY <2>3, <2>5
  <2> QED
    BY <2>3, <2>4, <2>6, <2>7 DEF Alone, Follows
<1>3. CASE Rests
  <2>1. /\ Busy' \subseteq Busy
        /\ \A d \in Busy' : chain'[d].name = chain[d].name
        /\ history'.of = history.of /\ history.named \subseteq history'.named
    BY <1>3 DEF Rests
  <2>0. \A n \in Watched : Running(n)' => Running(n)
    BY <1>3 DEF Rests
  <2>4. \/ max' = max /\ interestNum' = interestNum
        \/ \E n : /\ ~Running(n)'
                  /\ n \in history'.named \/ \E c \in Busy : chain[c].name = n
    BY <1>3 DEF Rests
  <2>2. ASSUME NEW n \in Watched, history'.named = {n}, Running(n)'
        PROVE  history.named = {n} /\ Running(n) /\ max' = max /\ interestNum' = interestNum
    <3>1. Running(n) /\ n \in history.named
      BY <2>0, <2>2 DEF Alone
    <3>2. history.named = {n}
      BY <2>1, <2>2, <3>1
    <3>3. \A m : m \in history'.named \/ (\E c \in Busy : chain[c].name = m) => m = n
      BY <2>2, <3>2 DEF Alone
    <3> QED
      BY <2>2, <2>4, <3>1, <3>2, <3>3
  <2>3. \A n \in Watched : Follows(n)'
    BY <2>1, <2>2 DEF Alone, Follows
  <2>5. \A n \in Watched : Running(n)' => n \in history'.named
    BY <2>0, <2>1 DEF Alone
  <2>6. \A c \in Busy' : chain'[c].name \in history'.named
    BY <2>1 DEF Alone
  <2> QED
    BY <2>3, <2>5, <2>6 DEF Alone
<1> QED
  BY <1>1, <1>2, <1>3, NextSteps

(* A watch that no command for another prefix disturbs keeps to the number of Interests
   of its command, through timeouts, refusals, restarts and stale deletions, for any
   finite set of commands that clients send. *)
THEOREM KeepsToItsNumber ==
  ASSUME IsFiniteSet(Command)
  PROVE  Spec => []AloneWithinMaxInterestNum
<1>1. Init => Alone
  BY DEF Init, Alone, Follows, Busy, Empty, Running, Known
<1>2. Alone => AloneWithinMaxInterestNum
  BY DEF Alone, Follows, AloneWithinMaxInterestNum
<1>3. Shape /\ Alone /\ [Next]_vars => Alone'
  BY AloneKept
<1> QED
  BY <1>1, <1>2, <1>3, ShapeInvariant, PTL DEF Spec

-----------------------------------------------------------------------------
(* What a setter leaves of an object's fields *)
LEMMA SetFieldIs ==
  ASSUME NEW o, NEW V, NEW t, NEW v \in V, o.fields \in [DOMAIN o.fields -> V]
  PROVE  LET s == SetField(o, t, v)
         IN  /\ DOMAIN s = {"fields", "wire"} /\ s.wire = NoWire
             /\ s.fields \in [DOMAIN s.fields -> V]
             /\ DOMAIN s.fields = DOMAIN o.fields \cup {t}
             /\ s.fields[t] = v
             /\ \A u \in DOMAIN o.fields : u # t => s.fields[u] = o.fields[u]
<1> DEFINE fields == [u \in DOMAIN o.fields \cup {t} |-> IF u = t THEN v ELSE o.fields[u]]
<1>1. SetField(o, t, v) = [fields |-> fields, wire |-> NoWire]
  BY DEF SetField
<1>2. /\ DOMAIN fields = DOMAIN o.fields \cup {t} /\ fields[t] = v
      /\ \A u \in DOMAIN o.fields : u # t => fields[u] = o.fields[u]
      /\ fields \in [DOMAIN o.fields \cup {t} -> V]
  OBVIOUS
<1> HIDE DEF fields
<1> QED
  BY <1>1, <1>2

(* A number of the command line arrives as it was given. *)
LEMMA Int64RoundTrip ==
  ASSUME NEW k \in Int64
  PROVE  AsInt64(AsWord(k)) = k /\ (AsWord(k) = 0 <=> k = 0)
<1>1. PICK h \in Nat : Word = 2 * h /\ Word \div 2 = h /\ h # 0
  BY WordAssumption, EvenWordAssumption
<1>2. k \in Int /\ -h <= k /\ k < h
  BY <1>1 DEF Int64
<1>3. CASE k >= 0
  <2>1. k % Word = k
    BY <1>1, <1>2, <1>3, WordAssumption
  <2> QED
    BY <1>1, <1>2, <1>3, <2>1 DEF AsInt64, AsWord
<1>4. CASE k < 0
  <2>1. k % Word = k + Word
    BY <1>1, <1>2, <1>4, WordAssumption
  <2> QED
    BY <1>1, <1>2, <1>4, <2>1 DEF AsInt64, AsWord
<1> QED
  BY <1>2, <1>3, <1>4

(* What is given, or 0 *)
LEMMA OptionsAreInt64 ==
  ASSUME wanted \in Wanted, NEW t
  PROVE  Option(wanted, t) \in Int64
<1>1. 0 \in Int64
  BY WordAssumption, EvenWordAssumption DEF Int64
<1> QED
  BY <1>1, WantedAssumption DEF Option

(* The parameters that the tool encodes for a verb *)
Parameters(verb) == IF verb = "start" THEN WithOptions(Named) ELSE Named

(* An option that is given becomes a field, one that is not is read as 0. *)
LEMMA WithOptionIs ==
  ASSUME NEW o, NEW V, NEW t, t \notin DOMAIN o.fields,
         AsWord(Option(wanted, t)) \in V,
         DOMAIN o = {"fields", "wire"}, o.wire = NoWire, o.fields \in [DOMAIN o.fields -> V]
  PROVE  LET s == WithOption(o, t)
         IN  /\ DOMAIN s = {"fields", "wire"} /\ s.wire = NoWire
             /\ s.fields \in [DOMAIN s.fields -> V]
             /\ DOMAIN s.fields = DOMAIN o.fields \cup ({t} \cap DOMAIN wanted.options)
             /\ \A u \in DOMAIN o.fields : s.fields[u] = o.fields[u]
             /\ OrZero(s.fields, t) = AsWord(Option(wanted, t))
<1>0. AsWord(0) = 0
  BY WordAssumption DEF AsWord
<1>1. CASE t \notin DOMAIN wanted.options
  BY <1>0, <1>1 DEF WithOption, OrZero, Option
<1>2. CASE t \in DOMAIN wanted.options
  <2>1. PICK v \in V : v = AsWord(wanted.options[t])
    BY <1>2 DEF Option
  <2>2. PICK s : s = SetField(o, t, v)
    OBVIOUS
  <2>3. /\ DOMAIN s = {"fields", "wire"} /\ s.wire = NoWire
        /\ s.fields \in [DOMAIN s.fields -> V]
        /\ DOMAIN s.fields = DOMAIN o.fields \cup {t} /\ s.fields[t] = v
        /\ \A u \in DOMAIN o.fields : u # t => s.fields[u] = o.fields[u]
    BY <2>2, SetFieldIs
  <2>4. WithOption(o, t) = s
    BY <1>2, <2>1, <2>2 DEF WithOption
  <2>5. OrZero(s.fields, t) = AsWord(Option(wanted, t))
    BY <1>2, <2>1, <2>3 DEF OrZero, Option
  <2> QED
    BY <1>2, <2>3, <2>4, <2>5
<1> QED
  BY <1>1, <1>2

(* The wire form that the tool sends decodes, in the repo, to the name and to the
   limits of the command line, and those of a start are a command of the repo. *)
LEMMA CommandReaches ==
  ASSUME wanted \in Wanted, NEW verb
  PROVE  LET p == DecodeParameter(EncodedParameter(Parameters(verb)).wire)
         IN  /\ p["Name"] = wanted.name /\ wanted.name \in Watched
             /\ verb = "start" /\ wanted.verb = "start" =>
                  AsCommand(p) \in Command /\ AsCommand(p) = Request(wanted)
<1> DEFINE V == {wanted.name, AsWord(Option(wanted, "MaxInterestNum")),
                 AsWord(Option(wanted, "WatchTimeout"))}
           o == Parameters(verb)
<1>0. /\ wanted.name \in Watched
      /\ wanted.verb = "start" => Request(wanted) \in Command
  BY WantedAssumption
<1>1. /\ Named.wire = NoWire /\ DOMAIN Named = {"fields", "wire"}
      /\ Named.fields \in [DOMAIN Named.fields -> V] /\ DOMAIN Named.fields = {"Name"}
      /\ Named.fields["Name"] = wanted.name
  <2>1. New.fields \in [DOMAIN New.fields -> V] /\ DOMAIN New.fields = {}
    BY DEF New
  <2>2. wanted.name \in V
    OBVIOUS
  <2> HIDE DEF V
  <2> QED
    BY <2>1, <2>2, SetFieldIs DEF Named
<1>2. PICK m : m = WithOption(Named, "MaxInterestNum")
  OBVIOUS
<1>3. /\ AsWord(Option(wanted, "MaxInterestNum")) \in V
      /\ AsWord(Option(wanted, "WatchTimeout")) \in V
  OBVIOUS
<1> HIDE DEF V
<1>4. /\ m.wire = NoWire /\ m.fields \in [DOMAIN m.fields -> V] /\ DOMAIN m = {"fields", "wire"}
      /\ DOMAIN m.fields = {"Name"} \cup ({"MaxInterestNum"} \cap DOMAIN wanted.options)
      /\ m.fields["Name"] = wanted.name
      /\ OrZero(m.fields, "MaxInterestNum") = AsWord(Option(wanted, "MaxInterestNum"))
  <2>1. "MaxInterestNum" \notin DOMAIN Named.fields
    BY <1>1
  <2> QED
    BY <1>1, <1>2, <1>3, <2>1, WithOptionIs
<1>5. PICK w : w = WithOption(m, "WatchTimeout")
  OBVIOUS
<1>6. /\ w.wire = NoWire /\ w.fields \in [DOMAIN w.fields -> V] /\ DOMAIN w = {"fields", "wire"}
      /\ DOMAIN w.fields = DOMAIN m.fields \cup ({"WatchTimeout"} \cap DOMAIN wanted.options)
      /\ \A u \in DOMAIN m.fields : w.fields[u] = m.fields[u]
      /\ OrZero(w.fields, "WatchTimeout") = AsWord(Option(wanted, "WatchTimeout"))
  <2>1. "WatchTimeout" \notin DOMAIN m.fields
    BY <1>4
  <2> QED
    BY <1>3, <1>4, <1>5, <2>1, WithOptionIs
<1>7. o = IF verb = "start" THEN w ELSE Named
  BY <1>2, <1>5 DEF Parameters, WithOptions
<1> HIDE DEF o
<1>8. /\ o.wire = NoWire /\ DOMAIN o = {"fields", "wire"} /\ o.fields \in [DOMAIN o.fields -> V]
      /\ DOMAIN o.fields \subseteq Parameter /\ "Name" \in DOMAIN o.fields
      /\ o.fields["Name"] = wanted.name
  BY <1>1, <1>4, <1>6, <1>7 DEF Parameter
<1>9. EncodedParameter(o).wire = EncodeParameter(o.fields)
  BY <1>8 DEF EncodedParameter
<1>10. DecodeParameter(EncodedParameter(o).wire) = o.fields
  BY <1>8, <1>9, ParameterRoundTrip
<1>11. ASSUME verb = "start" PROVE AsCommand(o.fields) = Request(wanted)
  <2>1. OrZero(w.fields, "MaxInterestNum") = OrZero(m.fields, "MaxInterestNum")
    BY <1>6 DEF OrZero
  <2> QED
    BY <1>4, <1>6, <1>7, <1>8, <1>11, <2>1 DEF AsCommand, Request
<1> QED
  BY <1>0, <1>8, <1>10, <1>11 DEF o

-----------------------------------------------------------------------------
(* The tool: what it has out is its command, encoded, and answered at most once. *)
ClientOK ==
  /\ wanted \in Wanted
  /\ depth \in Nat
  /\ tool = "new" => depth = 0 /\ interest = NoInterest /\ data = NoWire
  /\ tool # "new" => depth # 0
  /\ data # NoWire => tool = "waiting"
  /\ interest # NoInterest =>
       /\ interest.verb = "start" => wanted.verb = "start"
       /\ interest.depth = depth /\ (depth = 1 => interest.verb = wanted.verb)
       /\ interest.wire = EncodedParameter(Parameters(interest.verb)).wire
       /\ tool = "waiting"

(* The handlers of the tool and the network *)
ClientSteps ==
  \/ StartWatchCommand \/ StartCheckCommand \/ OnWatchCommandResponse
  \/ CommandTimesOut \/ StopProcess

(* The repo answers the command that is out. *)
Answers == \E wire : /\ Heard
                     /\ Reply(wire)
                     /\ UNCHANGED <<wanted, tool, depth>>

(* The first state of the tool *)
LEMMA ClientInit == WatchInit => ClientOK
BY DEF WatchInit, ClientOK

(* Every handler keeps the command that is out. *)
LEMMA ClientKept ==
  ASSUME ClientOK, ClientSteps \/ Answers \/ UNCHANGED client
  PROVE  ClientOK'
<1>1. ASSUME NEW verb, Express(verb, Parameters(verb)),
             \/ tool = "new" /\ verb = wanted.verb
             \/ tool = "pausing" /\ verb = "check",
             UNCHANGED <<wanted, data>>
      PROVE  ClientOK'
  <2> DEFINE next == [verb |-> verb, depth |-> depth + 1,
                      wire |-> EncodedParameter(Parameters(verb)).wire]
  <2>1. depth' = depth + 1 /\ interest' = next /\ tool' = "waiting"
    BY <1>1 DEF Express
  <2>2. depth + 1 \in Nat /\ depth + 1 # 0 /\ (depth + 1 = 1 => tool = "new")
    BY <1>1 DEF ClientOK
  <2>4. /\ next.verb = verb /\ next.depth = depth + 1
        /\ next.wire = EncodedParameter(Parameters(verb)).wire
    OBVIOUS
  <2> HIDE DEF next
  <2>5. (interest.wire = EncodedParameter(Parameters(interest.verb)).wire)'
    BY <1>1, <2>1, <2>4 DEF Parameters, WithOptions, WithOption, Named
  <2>6. /\ interest'.verb = "start" => wanted'.verb = "start"
        /\ interest'.depth = depth' /\ (depth' = 1 => interest'.verb = wanted'.verb)
    BY <1>1, <2>1, <2>2, <2>4
  <2>7. wanted' \in Wanted
    BY <1>1 DEF ClientOK
  <2> QED
    BY <1>1, <2>1, <2>2, <2>5, <2>6, <2>7 DEF ClientOK
<1>2. CASE StartWatchCommand
  <2>1. /\ Express(wanted.verb, Parameters(wanted.verb)) /\ tool = "new"
        /\ UNCHANGED <<wanted, data>>
    BY <1>2 DEF StartWatchCommand, Parameters
  <2>2. PICK verb : verb = wanted.verb
    OBVIOUS
  <2> QED
    BY <1>1, <2>1, <2>2
<1>3. CASE StartCheckCommand
  <2>1. Express("check", Parameters("check")) /\ tool = "pausing" /\ UNCHANGED <<wanted, data>>
    BY <1>3 DEF StartCheckCommand, Parameters
  <2> QED
    BY <1>1, <2>1
<1>4. CASE OnWatchCommandResponse \/ CommandTimesOut \/ StopProcess
  <2>1. /\ tool \in {"waiting", "pausing"} /\ tool' \in {"ended", "failed", "pausing"}
        /\ interest' = NoInterest /\ data' = NoWire /\ UNCHANGED <<wanted, depth>>
    BY <1>4 DEF OnWatchCommandResponse, CommandTimesOut, StopProcess
  <2> QED
    BY <2>1 DEF ClientOK
<1>5. CASE Answers
  <2>1. interest # NoInterest /\ interest' = NoInterest /\ UNCHANGED <<wanted, tool, depth>>
    BY <1>5 DEF Answers, Reply, Heard
  <2> QED
    BY <2>1 DEF ClientOK
<1>6. CASE UNCHANGED client
  BY <1>6 DEF client, ClientOK, Parameters, WithOptions, WithOption, Named
<1> QED
  BY <1>2, <1>3, <1>4, <1>5, <1>6 DEF ClientSteps

(* What the repo hears is the name and, in a start, the limits of the command line. *)
LEMMA Hears ==
  ASSUME ClientOK, Heard
  PROVE  LET p == DecodeParameter(interest.wire)
         IN  /\ p["Name"] = wanted.name /\ wanted.name \in Watched
             /\ interest.verb = wanted.verb
             /\ interest.verb = "start" =>
                  AsCommand(p) \in Command /\ AsCommand(p) = Request(wanted)
<1>1. /\ interest.verb = wanted.verb
      /\ interest.wire = EncodedParameter(Parameters(interest.verb)).wire
  BY DEF ClientOK, Heard
<1>2. PICK verb : verb = interest.verb
  OBVIOUS
<1> QED
  BY <1>1, <1>2, CommandReaches DEF ClientOK

-----------------------------------------------------------------------------
(* Every step of the composition is a step of WatchHandle or leaves it alone. *)
LEMMA WatchNextIsNext ==
  ASSUME ClientOK, [WatchNext]_all
  PROVE  [Next]_vars
<1>1. CASE ClientSteps
  BY <1>1 DEF ClientSteps, StartWatchCommand, StartCheckCommand, OnWatchCommandResponse,
              CommandTimesOut, StopProcess
<1>2. CASE \E c \in Chain : RepoStarts(c)
  <2>1. PICK c \in Chain : RepoStarts(c)
    BY <1>2
  <2>2. AsCommand(DecodeParameter(interest.wire)) \in Command
    BY <2>1, Hears DEF RepoStarts
  <2> QED
    BY <2>1, <2>2 DEF RepoStarts, Next
<1>3. CASE RepoStops
  <2>1. DecodeParameter(interest.wire)["Name"] \in Watched
    BY <1>3, Hears DEF RepoStops
  <2> QED
    BY <1>3, <2>1 DEF RepoStops, Next
<1>4. CASE RepoChecks
  <2>1. DecodeParameter(interest.wire)["Name"] \in Watched
    BY <1>4, Hears DEF RepoChecks
  <2> QED
    BY <1>4, <2>1 DEF RepoChecks, Next
<1>5. CASE RepoRefuses
  BY <1>5 DEF RepoRefuses, Next
<1>6. CASE \E c \in Chain : RepoGoesOn(Progress(c)) \/ \E command \in Command : OtherStarts(command, c)
  BY <1>6 DEF RepoGoesOn, Progress, OtherStarts, Next
<1>7. CASE \E n \in Watched : RepoGoesOn(Stop(n)) \/ RepoGoesOn(DeleteProcess(n)) \/ OtherChecks(n)
  BY <1>7 DEF RepoGoesOn, OtherChecks, Next
<1>8. CASE RepoGoesOn(WatchTimePasses) \/ RepoGoesOn(MalformedCommand)
  BY <1>8 DEF RepoGoesOn, Next
<1>9. CASE UNCHANGED all
  BY <1>9 DEF all
<1> QED
  BY <1>1, <1>2, <1>3, <1>4, <1>5, <1>6, <1>7, <1>8, <1>9 DEF WatchNext, ClientSteps

(* Every step of the composition keeps the command that is out. *)
LEMMA ClientNext ==
  ASSUME ClientOK, [WatchNext]_all
  PROVE  ClientOK'
<1>1. CASE (\E c \in Chain : RepoStarts(c)) \/ RepoStops \/ RepoChecks \/ RepoRefuses
  <2>1. Answers
    BY <1>1 DEF Answers, RepoStarts, RepoStops, RepoChecks, RepoRefuses
  <2> QED
    BY <2>1, ClientKept
<1>2. CASE ClientSteps
  BY <1>2, ClientKept
<1>3. CASE UNCHANGED client
  BY <1>3, ClientKept
<1> QED
  BY <1>1, <1>2, <1>3 DEF WatchNext, ClientSteps, RepoGoesOn, OtherStarts, OtherChecks, all

(* The repo under the tool's commands is the repo: what ndnrepowatch sends decodes to
   commands that WatchHandle knows, so everything proved of the one holds of the other. *)
THEOREM WatchImplementsHandle == WatchSpec => Spec
<1>1. WatchInit => Init
  BY DEF WatchInit
<1> QED
  BY <1>1, ClientInit, ClientNext, WatchNextIsNext, PTL DEF WatchSpec, Spec

-----------------------------------------------------------------------------
(* An object of the repo: its fields, and the wire form of these or none *)
IsObject(o) ==
  /\ DOMAIN o = {"fields", "wire"}
  /\ o.fields \in [DOMAIN o.fields -> Nat] /\ DOMAIN o.fields \subseteq {"StatusCode", "InsertNum"}
  /\ o.wire \in {NoWire, EncodeResponse(o.fields)}

(* A new object is one. *)
LEMMA NewIsObject == IsObject(New) /\ DOMAIN New.fields = {}
BY DEF IsObject, New

(* Setters keep it one. *)
LEMMA SettersKeepObject ==
  ASSUME NEW o, NEW t \in {"StatusCode", "InsertNum"}, NEW v \in Nat, IsObject(o)
  PROVE  LET s == SetField(o, t, v)
         IN  /\ IsObject(s)
             /\ DOMAIN s.fields = DOMAIN o.fields \cup {t} /\ s.fields[t] = v
             /\ \A u \in DOMAIN o.fields : u # t => s.fields[u] = o.fields[u]
<1> DEFINE s == SetField(o, t, v)
<1>1. /\ DOMAIN s = {"fields", "wire"} /\ s.wire = NoWire
      /\ s.fields \in [DOMAIN s.fields -> Nat]
      /\ DOMAIN s.fields = DOMAIN o.fields \cup {t}
      /\ s.fields[t] = v
      /\ \A u \in DOMAIN o.fields : u # t => s.fields[u] = o.fields[u]
  BY SetFieldIs DEF IsObject
<1> HIDE DEF s
<1> QED
  BY <1>1 DEF IsObject, s

(* Encoding leaves the fields, and with a status what is sent decodes to them. *)
LEMMA ObjectsAreEncoded ==
  ASSUME NEW o, IsObject(o)
  PROVE  LET e == EncodedResponse(o)
         IN  /\ IsObject(e) /\ e.fields = o.fields
             /\ "StatusCode" \in DOMAIN o.fields => DecodeResponse(e.wire) = o.fields
<1> DEFINE e == EncodedResponse(o)
<1>1. /\ DOMAIN e = {"fields", "wire"} /\ e.fields = o.fields
      /\ e.wire = EncodeResponse(o.fields)
  <2>1. CASE o.wire # NoWire
    BY <2>1 DEF IsObject, EncodedResponse
  <2>2. CASE o.wire = NoWire
    BY <2>2 DEF IsObject, EncodedResponse
  <2> QED
    BY <2>1, <2>2
<1> HIDE DEF e
<1>2. IsObject(e)
  BY <1>1 DEF IsObject
<1>3. ASSUME "StatusCode" \in DOMAIN o.fields PROVE DecodeResponse(e.wire) = o.fields
  <2>1. PICK D : D = DOMAIN o.fields
    OBVIOUS
  <2>2. D \in SUBSET Response /\ o.fields \in [D -> Nat] /\ CanEncode(o.fields)
    BY <1>3, <2>1 DEF IsObject, Response, CanEncode
  <2> QED
    BY <1>1, <2>2, ResponseRoundTrip
<1> QED
  BY <1>1, <1>2, <1>3 DEF e

(* The status that a reply of one field says *)
LEMMA StatusIs ==
  ASSUME NEW code \in Nat
  PROVE  LET o == Status(code)
         IN  /\ IsObject(o) /\ DOMAIN o.fields = {"StatusCode"} /\ o.fields["StatusCode"] = code
             /\ DecodeResponse(EncodedResponse(o).wire) = o.fields
<1> DEFINE o == Status(code)
<1>1. /\ IsObject(o) /\ DOMAIN o.fields = {"StatusCode"} /\ o.fields["StatusCode"] = code
  BY NewIsObject, SettersKeepObject DEF Status
<1> HIDE DEF o
<1> QED
  BY <1>1, ObjectsAreEncoded DEF o

-----------------------------------------------------------------------------
(* The object of a name says what m_processes holds for it; a watch that runs is 300. *)
ObjectOK(n) ==
  LET o == object[n] IN
  /\ IsObject(o)
  /\ n \notin Known => o = New
  /\ Running(n) => /\ processes[n].status = 300
                   /\ "StatusCode" \in DOMAIN o.fields /\ o.fields["StatusCode"] = 300
  /\ n \in Known /\ "InsertNum" \in DOMAIN o.fields =>
       o.fields["InsertNum"] = processes[n].insertNum

ObjectsOK == DOMAIN object = Watched /\ \A n \in Watched : ObjectOK(n)

(* No step but a start makes a watch run or changes the status of one that runs. *)
StatusKept ==
  \A n \in Watched : Running(n)' => Running(n) /\ processes'[n].status = processes[n].status

LEMMA StepsKeepStatus ==
  ASSUME Shape,
         \/ \E c \in Chain : Progress(c)
         \/ \E n \in Watched : Stop(n) \/ DeleteProcess(n)
         \/ WatchTimePasses
         \/ MalformedCommand
         \/ UNCHANGED processes
  PROVE  StatusKept
<1>1. ASSUME NEW n, NEW entry, EntryOK(entry), SetProcess(n, entry),
             entry.running => Running(n) /\ entry.status = processes[n].status
      PROVE  StatusKept
  <2>1. /\ \A m : m # n => (Running(m)' <=> Running(m))
        /\ Running(n)' <=> entry.running
        /\ processes'[n] = entry
    BY <1>1, SetProcessOK
  <2>2. \A m \in Known' : m # n => processes'[m] = processes[m]
    BY <1>1 DEF SetProcess, Known
  <2>3. \A m : Running(m)' => m \in Known'
    BY DEF Running
  <2>4. ASSUME NEW m \in Watched, Running(m)'
        PROVE  Running(m) /\ processes'[m].status = processes[m].status
    <3>1. CASE m = n
      BY <1>1, <2>1, <2>4, <3>1
    <3>2. CASE m # n
      BY <2>1, <2>2, <2>3, <2>4, <3>2
    <3> QED
      BY <3>1, <3>2
  <2> QED
    BY <2>4 DEF StatusKept
<1>2. ASSUME NEW n, WatchStop(n) PROVE StatusKept
  <2> DEFINE entry == [Entry(n) EXCEPT !.running = FALSE]
  <2>1. EntryOK(entry) /\ ~entry.running
    BY EntryIsOK DEF EntryOK
  <2>2. SetProcess(n, entry)
    BY <1>2 DEF WatchStop
  <2> HIDE DEF entry
  <2> QED
    BY <1>1, <2>1, <2>2
<1>3. ASSUME UNCHANGED processes PROVE StatusKept
  BY <1>3 DEF StatusKept, Running, Known
<1>4. ASSUME NEW c, StopAtLimit(c) PROVE StatusKept
  <2>1. PICK n : n = chain[c].name
    OBVIOUS
  <2> QED
    BY <1>2, <1>4, <2>1 DEF StopAtLimit
<1>5. ASSUME NEW c, NotRunning(c) PROVE StatusKept
  <2>1. PICK n : n = chain[c].name
    OBVIOUS
  <2>2. SetProcess(n, Entry(n)) /\ ~Entry(n).running
    BY <1>5, <2>1 DEF NotRunning
  <2>3. PICK entry : entry = Entry(n)
    OBVIOUS
  <2>4. EntryOK(entry) /\ ~entry.running
    BY <2>2, <2>3, EntryIsOK
  <2> QED
    BY <1>1, <2>2, <2>3, <2>4
<1>6. ASSUME Exit PROVE StatusKept
  BY <1>6 DEF Exit, Empty, StatusKept, Running, Known
<1>7. ASSUME NEW c, NEW v, DataValidated(c, v) PROVE StatusKept
  <2>1. PICK n : n = chain[c].name
    OBVIOUS
  <2>2. CASE StopAtLimit(c)
    BY <1>4, <2>2
  <2>3. CASE size' = size + 1 /\ SetProcess(n, [processes[n] EXCEPT !.insertNum = size'])
    <3>1. PICK k : k = size'
      OBVIOUS
    <3> DEFINE entry == [processes[n] EXCEPT !.insertNum = k]
    <3>2. Running(n) /\ EntryOK(processes[n]) /\ k \in Nat
      BY <1>7, <2>1, <2>3, <3>1, EntryIsOK DEF DataValidated, Shape, Running
    <3>4. EntryOK(entry) /\ entry.status = processes[n].status
      BY <3>2 DEF EntryOK
    <3>5. SetProcess(n, entry)
      BY <2>3, <3>1
    <3> HIDE DEF entry
    <3> QED
      BY <1>1, <3>2, <3>4, <3>5
  <2> QED
    BY <1>7, <2>1, <2>2, <2>3 DEF DataValidated
<1>8. ASSUME NEW c, NEW v, Refused(c, v) \/ Timeout(c) \/ Deliver(c, v) PROVE StatusKept
  BY <1>3, <1>4, <1>8 DEF Refused, Timeout, Deliver
<1>9. ASSUME NEW n, DeleteProcess(n) PROVE StatusKept
  <2>1. /\ Known' = Known \ {n}
        /\ \A m \in Known \ {n} : processes'[m] = processes[m]
    BY <1>9 DEF DeleteProcess, Known
  <2> QED
    BY <2>1 DEF StatusKept, Running
<1>10. ASSUME NEW c \in Chain, Progress(c) PROVE StatusKept
  <2>1. \/ NotRunning(c) \/ Timeout(c)
        \/ \E v \in Packet : DataThrows(c, v) \/ DataValidated(c, v) \/ Refused(c, v) \/ Deliver(c, v)
    BY <1>10 DEF Progress, Callback
  <2> QED
    BY <1>5, <1>6, <1>7, <1>8, <2>1 DEF DataThrows
<1> QED
  BY <1>2, <1>3, <1>6, <1>9, <1>10 DEF Stop, WatchTimePasses, MalformedCommand

(* What Objects does follows m_processes. *)
LEMMA ObjectsFollow ==
  ASSUME Shape', ObjectsOK, Objects, StatusKept
  PROVE  ObjectsOK'
<1>1. DOMAIN object' = Watched
  BY DEF Objects
<1>2. ASSUME NEW n \in Watched PROVE ObjectOK(n)'
  <2> DEFINE o == object[n]
             new == object'[n]
  <2>1. /\ IsObject(o) /\ (n \notin Known => o = New)
        /\ Running(n) => /\ processes[n].status = 300
                         /\ "StatusCode" \in DOMAIN o.fields /\ o.fields["StatusCode"] = 300
        /\ n \in Known /\ "InsertNum" \in DOMAIN o.fields =>
             o.fields["InsertNum"] = processes[n].insertNum
    BY DEF ObjectsOK, ObjectOK
  <2>2. new = IF n \notin Known' THEN New
              ELSE IF n \in Known /\ processes'[n].insertNum # processes[n].insertNum
                THEN SetField(o, "InsertNum", processes'[n].insertNum)
              ELSE o
    BY DEF Objects, Known
  <2>3. Running(n)' => Running(n) /\ processes'[n].status = 300
    BY <2>1 DEF StatusKept
  <2>4. Running(n)' => n \in Known'
    BY DEF Running
  <2>5. n \in Known' => processes'[n].insertNum \in Nat
    BY DEF Shape, EntryOK
  <2> SUFFICES /\ IsObject(new)
               /\ n \notin Known' => new = New
               /\ Running(n)' => "StatusCode" \in DOMAIN new.fields /\ new.fields["StatusCode"] = 300
               /\ n \in Known' /\ "InsertNum" \in DOMAIN new.fields =>
                    new.fields["InsertNum"] = processes'[n].insertNum
    BY <2>3 DEF ObjectOK
  <2> HIDE DEF o, new
  <2>6. CASE n \notin Known'
    BY <2>2, <2>4, <2>6, NewIsObject
  <2>7. CASE n \in Known' /\ n \in Known /\ processes'[n].insertNum # processes[n].insertNum
    <3>1. PICK k \in Nat : k = processes'[n].insertNum
      BY <2>5, <2>7
    <3>3. new = SetField(o, "InsertNum", k)
      BY <2>2, <2>7, <3>1
    <3>2. /\ IsObject(new) /\ new.fields["InsertNum"] = k
          /\ DOMAIN new.fields = DOMAIN o.fields \cup {"InsertNum"}
          /\ \A u \in DOMAIN o.fields : u # "InsertNum" => new.fields[u] = o.fields[u]
      BY <2>1, <3>3, SettersKeepObject
    <3> QED
      BY <2>1, <2>3, <2>7, <3>1, <3>2
  <2>8. CASE n \in Known' /\ n \in Known /\ processes'[n].insertNum = processes[n].insertNum
    BY <2>1, <2>2, <2>3, <2>8
  <2>9. CASE n \in Known' /\ n \notin Known
    <3>1. ~Running(n)'
      BY <2>3, <2>9 DEF Running
    <3> QED
      BY <2>1, <2>2, <2>9, <3>1, NewIsObject
  <2> QED
    BY <2>6, <2>7, <2>8, <2>9
<1> QED
  BY <1>1, <1>2 DEF ObjectsOK

(* A start makes a new object for its name. *)
LEMMA StartsObject ==
  ASSUME Shape, ObjectsOK, NEW command \in Command, NEW c \in Chain, Start(command, c),
         object' = [object EXCEPT ![command.name] = Status(300)]
  PROVE  ObjectsOK'
<1>1. PICK n : n = command.name
  OBVIOUS
<1>2. PICK o : o = Status(300)
  OBVIOUS
<1> DEFINE entry == [status |-> 300, insertNum |-> 0, running |-> TRUE]
<1>3. n \in Watched /\ SetProcess(n, entry) /\ object' = [object EXCEPT ![n] = o]
  BY <1>1, <1>2, CommandAssumption DEF Start
<1>4. EntryOK(entry) /\ entry.status = 300
  BY DEF EntryOK
<1>5. IsObject(o) /\ DOMAIN o.fields = {"StatusCode"} /\ o.fields["StatusCode"] = 300
  BY <1>2, StatusIs
<1> HIDE DEF entry
<1>6. /\ processes'[n] = entry /\ Known' = Known \cup {n}
      /\ \A m : m # n => (Running(m)' <=> Running(m))
  BY <1>3, <1>4, SetProcessOK
<1>7. \A m \in Known : m # n => processes'[m] = processes[m]
  BY <1>3 DEF SetProcess, Known
<1>8. DOMAIN object' = Watched /\ object'[n] = o /\ \A m \in Watched : m # n => object'[m] = object[m]
  BY <1>3 DEF ObjectsOK
<1>9. ObjectOK(n)'
  BY <1>4, <1>5, <1>6, <1>8 DEF ObjectOK
<1>10. ASSUME NEW m \in Watched, m # n PROVE ObjectOK(m)'
  <2>1. ObjectOK(m)
    BY DEF ObjectsOK
  <2>2. object'[m] = object[m] /\ (Running(m)' <=> Running(m)) /\ (m \in Known' <=> m \in Known)
        /\ (m \in Known => processes'[m] = processes[m])
    BY <1>6, <1>7, <1>8, <1>10
  <2>3. Running(m) => m \in Known
    BY DEF Running
  <2> QED
    BY <2>1, <2>2, <2>3 DEF ObjectOK
<1> QED
  BY <1>8, <1>9, <1>10 DEF ObjectsOK

(* What the repo sends for a check of a watch it knows, and keeps as the object *)
LEMMA CheckedIs ==
  ASSUME Shape, ObjectsOK, NEW n \in Watched, n \in Known
  PROVE  LET o == Checked(n)
             r == DecodeResponse(o.wire)
         IN  /\ IsObject(o) /\ r = o.fields /\ "StatusCode" \in DOMAIN o.fields
             /\ o.fields["StatusCode"] = IF Running(n) THEN 300 ELSE 101
             /\ "InsertNum" \in DOMAIN o.fields =>
                  o.fields["InsertNum"] = processes[n].insertNum
<1> DEFINE o == object[n]
           s == SetField(o, "StatusCode", 101)
<1>1. /\ IsObject(o)
      /\ Running(n) => "StatusCode" \in DOMAIN o.fields /\ o.fields["StatusCode"] = 300
      /\ "InsertNum" \in DOMAIN o.fields => o.fields["InsertNum"] = processes[n].insertNum
  BY DEF ObjectsOK, ObjectOK
<1> HIDE DEF o
<1>2. /\ IsObject(s) /\ DOMAIN s.fields = DOMAIN o.fields \cup {"StatusCode"}
      /\ s.fields["StatusCode"] = 101
      /\ \A u \in DOMAIN o.fields : u # "StatusCode" => s.fields[u] = o.fields[u]
  BY <1>1, SettersKeepObject
<1> HIDE DEF s
<1>3. CASE Running(n)
  <2>1. Checked(n) = EncodedResponse(o)
    BY <1>3 DEF Checked, Running, o
  <2> QED
    BY <1>1, <1>3, <2>1, ObjectsAreEncoded
<1>4. CASE ~Running(n)
  <2>1. Checked(n) = EncodedResponse(s)
    BY <1>4 DEF Checked, Running, o, s
  <2>2. "InsertNum" \in DOMAIN s.fields => s.fields["InsertNum"] = processes[n].insertNum
    BY <1>1, <1>2
  <2> QED
    BY <1>2, <1>4, <2>1, <2>2, ObjectsAreEncoded
<1> QED
  BY <1>3, <1>4

(* A check changes at most the status of a watch that does not run. *)
LEMMA ChecksObject ==
  ASSUME Shape, ObjectsOK, NEW n \in Watched, Check(n), KeepWire(n)
  PROVE  /\ ObjectsOK'
         /\ n \in Known' <=> n \in Known
         /\ Running(n)' <=> Running(n)
         /\ n \in Known => processes'[n].insertNum = processes[n].insertNum
         /\ n \in Known => reply' = IF Running(n) THEN 300 ELSE 101
         /\ n \notin Known => reply' = 404
<1>1. /\ Known' = Known /\ \A m : Running(m)' <=> Running(m)
      /\ \A m \in Known : processes'[m].insertNum = processes[m].insertNum
      /\ \A m : Running(m) => processes'[m].status = processes[m].status
  <2>1. CASE UNCHANGED processes
    BY <2>1 DEF Running, Known
  <2>2. CASE n \in Known /\ ~processes[n].running
             /\ SetProcess(n, [processes[n] EXCEPT !.status = 101])
    <3> DEFINE entry == [processes[n] EXCEPT !.status = 101]
    <3>1. EntryOK(entry) /\ ~entry.running /\ entry.insertNum = processes[n].insertNum
      BY <2>2 DEF Shape, EntryOK
    <3>2. SetProcess(n, entry)
      BY <2>2
    <3> HIDE DEF entry
    <3>3. /\ Known' = Known \cup {n} /\ processes'[n] = entry
          /\ \A m : m # n => (Running(m)' <=> Running(m))
          /\ ~Running(n)'
      BY <3>1, <3>2, SetProcessOK
    <3>4. \A m \in Known : m # n => processes'[m] = processes[m]
      BY <3>2 DEF SetProcess, Known
    <3>5. ~Running(n) /\ \A m : Running(m) => m \in Known
      BY <2>2 DEF Running
    <3>6. \A m : Running(m)' <=> Running(m)
      BY <3>3, <3>5
    <3>7. \A m : Running(m) => processes'[m].status = processes[m].status
      BY <3>4, <3>5
    <3>8. Known' = Known
      BY <2>2, <3>3
    <3>9. \A m \in Known : processes'[m].insertNum = processes[m].insertNum
      BY <3>1, <3>3, <3>4
    <3> QED
      BY <3>6, <3>7, <3>8, <3>9
  <2> QED
    BY <2>1, <2>2 DEF Check
<1>2. n \in Known => reply' = IF Running(n) THEN 300 ELSE 101
  BY DEF Check, Running, ObjectsOK, ObjectOK
<1>3. n \notin Known => reply' = 404
  BY DEF Check
<1>4. ObjectsOK'
  <2>1. DOMAIN object' = Watched /\ \A m \in Watched : m # n => object'[m] = object[m]
    BY DEF KeepWire, ObjectsOK
  <2>2. ASSUME NEW m \in Watched, object'[m] = object[m] PROVE ObjectOK(m)'
    <3>1. ObjectOK(m)
      BY DEF ObjectsOK
    <3>2. Running(m) => m \in Known
      BY DEF Running
    <3> QED
      BY <1>1, <2>2, <3>1, <3>2 DEF ObjectOK
  <2>3. CASE n \in Known
    <3>1. object'[n] = Checked(n)
      BY <2>3 DEF KeepWire, ObjectsOK
    <3>2. PICK o : o = Checked(n)
      OBVIOUS
    <3>3. /\ IsObject(o) /\ "StatusCode" \in DOMAIN o.fields
          /\ Running(n) => o.fields["StatusCode"] = 300
          /\ "InsertNum" \in DOMAIN o.fields => o.fields["InsertNum"] = processes[n].insertNum
      BY <2>3, <3>2, CheckedIs
    <3>4. Running(n) => processes[n].status = 300
      BY DEF ObjectsOK, ObjectOK
    <3>5. ObjectOK(n)'
      BY <1>1, <2>3, <3>1, <3>2, <3>3, <3>4 DEF ObjectOK
    <3> QED
      BY <2>1, <2>2, <3>5 DEF ObjectsOK
  <2>4. CASE n \notin Known
    BY <2>1, <2>2, <2>4 DEF KeepWire, ObjectsOK
  <2> QED
    BY <2>3, <2>4
<1> QED
  BY <1>1, <1>2, <1>3, <1>4

-----------------------------------------------------------------------------
(* A reply that says the status of this step, and the number of packets inserted. *)
LEMMA Replies ==
  ASSUME NEW wire, Reply(wire), wanted' = wanted,
         LET r == DecodeResponse(wire) IN
         /\ r["StatusCode"] = reply'
         /\ "InsertNum" \in DOMAIN r =>
              /\ wanted.name \in Known'
              /\ r["InsertNum"] = processes'[wanted.name].insertNum
         /\ interest.verb \in {"stop", "check"} /\ r["StatusCode"] = 101 =>
              ~Running(wanted.name)'
  PROVE  ReplyIsTheState'
<1>1. PICK r : r = DecodeResponse(wire)
  OBVIOUS
<1>2. /\ data' = wire /\ seen'.verb = interest.verb /\ seen'.status = reply'
      /\ wanted.name \in Known' => seen'.insertNum = processes'[wanted.name].insertNum
      /\ ~Running(wanted.name)' => ~seen'.running
  BY DEF Reply, Known, Running
<1>3. DecodeResponse(data') = r
  BY <1>1, <1>2
<1> QED
  BY <1>1, <1>2, <1>3 DEF ReplyIsTheState

(* Every step keeps the objects, and every reply says what m_processes holds. *)
LEMMA ReplyKept ==
  ASSUME Shape, Shape', ClientOK, ObjectsOK, ReplyIsTheState, [WatchNext]_all
  PROVE  ObjectsOK' /\ ReplyIsTheState'
<1>1. ASSUME UNCHANGED <<vars, object>> PROVE ObjectsOK'
  BY <1>1 DEF vars, ObjectsOK, ObjectOK, Running, Known
<1>2. ASSUME UNCHANGED <<data, seen>> PROVE ReplyIsTheState'
  BY <1>2 DEF ReplyIsTheState
<1>3. CASE ClientSteps
  <2>1. UNCHANGED <<vars, object>> /\ (data' = NoWire \/ UNCHANGED <<data, seen>>)
    BY <1>3 DEF ClientSteps, StartWatchCommand, StartCheckCommand, OnWatchCommandResponse,
                CommandTimesOut, StopProcess
  <2> QED
    BY <1>1, <1>2, <2>1 DEF ReplyIsTheState
<1>4. ASSUME NEW c \in Chain, RepoStarts(c) PROVE ObjectsOK' /\ ReplyIsTheState'
  <2>0. PICK command : command = AsCommand(DecodeParameter(interest.wire))
    OBVIOUS
  <2>1. /\ command \in Command /\ command.name = DecodeParameter(interest.wire)["Name"]
        /\ interest.verb = "start"
    BY <1>4, <2>0, Hears DEF RepoStarts, Request
  <2>2. /\ Start(command, c) /\ object' = [object EXCEPT ![command.name] = Status(300)]
        /\ wanted' = wanted
    BY <1>4, <2>0, <2>1 DEF RepoStarts
  <2>3. ObjectsOK'
    BY <2>1, <2>2, StartsObject
  <2>4. PICK wire : wire = EncodedResponse(Status(100)).wire
    OBVIOUS
  <2>5. DOMAIN DecodeResponse(wire) = {"StatusCode"} /\ DecodeResponse(wire)["StatusCode"] = 100
    BY <2>4, StatusIs
  <2>6. Reply(wire) /\ reply' = 100
    BY <1>4, <2>2, <2>4 DEF RepoStarts, Start
  <2>7. ReplyIsTheState'
    BY <2>1, <2>2, <2>5, <2>6, Replies
  <2> QED
    BY <2>3, <2>7
<1>5. CASE RepoStops
  <2>0. PICK n : n = wanted.name
    OBVIOUS
  <2>1. n \in Watched /\ Stop(n) /\ Objects /\ wanted' = wanted
    BY <1>5, <2>0, Hears DEF RepoStops
  <2>2. ObjectsOK'
    BY <2>1, StepsKeepStatus, ObjectsFollow
  <2>3. PICK wire : wire = EncodedResponse(Status(101)).wire
    OBVIOUS
  <2>4. DOMAIN DecodeResponse(wire) = {"StatusCode"} /\ DecodeResponse(wire)["StatusCode"] = 101
    BY <2>3, StatusIs
  <2>5. Reply(wire) /\ reply' = 101
    BY <1>5, <2>1, <2>3 DEF RepoStops, Stop
  <2>6. ~Running(n)'
    BY <2>1, WatchStopOK DEF Stop
  <2>7. ~Running(wanted.name)'
    BY <2>0, <2>1, <2>6
  <2>8. ReplyIsTheState'
    BY <2>1, <2>4, <2>5, <2>0, <2>6, Replies
  <2> QED
    BY <2>2, <2>8
<1>6. CASE RepoChecks
  <2>0. PICK n : n = wanted.name
    OBVIOUS
  <2>1. n \in Watched /\ Check(n) /\ KeepWire(n) /\ wanted' = wanted
    BY <1>6, <2>0, Hears DEF RepoChecks
  <2>2. /\ ObjectsOK' /\ (n \in Known' <=> n \in Known) /\ (Running(n)' <=> Running(n))
        /\ n \in Known => processes'[n].insertNum = processes[n].insertNum
        /\ n \in Known => reply' = IF Running(n) THEN 300 ELSE 101
        /\ n \notin Known => reply' = 404
    BY <2>1, ChecksObject
  <2>3. PICK wire : wire = IF n \in Known THEN Checked(n).wire ELSE EncodedResponse(Status(404)).wire
    OBVIOUS
  <2>4. Reply(wire)
    BY <1>6, <2>0, <2>3, Hears DEF RepoChecks
  <2>5. PICK r : r = DecodeResponse(wire)
    OBVIOUS
  <2>6. /\ r["StatusCode"] = reply'
        /\ "InsertNum" \in DOMAIN r => n \in Known' /\ r["InsertNum"] = processes'[n].insertNum
        /\ r["StatusCode"] = 101 => ~Running(n)'
    <3>1. CASE n \in Known
      BY <2>1, <2>2, <2>3, <2>5, <3>1, CheckedIs
    <3>2. CASE n \notin Known
      <4>1. DOMAIN r = {"StatusCode"} /\ r["StatusCode"] = 404
        BY <2>3, <2>5, <3>2, StatusIs
      <4> QED
        BY <2>2, <3>2, <4>1
    <3> QED
      BY <3>1, <3>2
  <2>7. ReplyIsTheState'
    BY <2>0, <2>1, <2>4, <2>5, <2>6, Replies
  <2> QED
    BY <2>2, <2>7
<1>7. CASE RepoRefuses
  <2>1. UNCHANGED <<processes, object, wanted>> /\ reply' \in {401, 403}
    BY <1>7 DEF RepoRefuses, RejectCommand
  <2>2. ObjectsOK'
    BY <2>1 DEF ObjectsOK, ObjectOK, Running, Known
  <2>3. PICK code \in {401, 403} : code = reply'
    BY <2>1
  <2>4. PICK wire : wire = EncodedResponse(Status(code)).wire
    OBVIOUS
  <2>5. DOMAIN DecodeResponse(wire) = {"StatusCode"} /\ DecodeResponse(wire)["StatusCode"] = code
    BY <2>4, StatusIs
  <2>6. Reply(wire)
    BY <1>7, <2>3, <2>4 DEF RepoRefuses
  <2>7. ReplyIsTheState'
    BY <2>1, <2>3, <2>5, <2>6, Replies
  <2> QED
    BY <2>2, <2>7
<1>8. ASSUME Objects, UNCHANGED <<client, seen>>, StatusKept
      PROVE  ObjectsOK' /\ ReplyIsTheState'
  BY <1>2, <1>8, ObjectsFollow DEF client
<1>9. ASSUME NEW c \in Chain, RepoGoesOn(Progress(c)) PROVE ObjectsOK' /\ ReplyIsTheState'
  BY <1>8, <1>9, StepsKeepStatus DEF RepoGoesOn
<1>10. ASSUME NEW n \in Watched, RepoGoesOn(Stop(n)) \/ RepoGoesOn(DeleteProcess(n))
       PROVE  ObjectsOK' /\ ReplyIsTheState'
  BY <1>8, <1>10, StepsKeepStatus DEF RepoGoesOn
<1>11. CASE RepoGoesOn(WatchTimePasses)
  BY <1>8, <1>11, StepsKeepStatus DEF RepoGoesOn
<1>15. CASE RepoGoesOn(MalformedCommand)
  BY <1>8, <1>15, StepsKeepStatus DEF RepoGoesOn
<1>12. ASSUME NEW c \in Chain, NEW command \in Command, OtherStarts(command, c)
       PROVE  ObjectsOK' /\ ReplyIsTheState'
  BY <1>2, <1>12, StartsObject DEF OtherStarts, client
<1>13. ASSUME NEW n \in Watched, OtherChecks(n) PROVE ObjectsOK' /\ ReplyIsTheState'
  BY <1>2, <1>13, ChecksObject DEF OtherChecks, client
<1>14. CASE UNCHANGED all
  BY <1>1, <1>2, <1>14 DEF all, client
<1> QED
  BY <1>3, <1>4, <1>5, <1>6, <1>7, <1>9, <1>10, <1>11, <1>12, <1>13, <1>14, <1>15
     DEF WatchNext, ClientSteps

(* The invariants of the composition that each step needs of the others *)
LEMMA WatchInvariant == WatchSpec => [](Shape /\ ClientOK)
<1>1. WatchInit => Shape /\ ClientOK
  BY ClientInit, InitShape DEF WatchInit
<1>2. Shape /\ ClientOK /\ [WatchNext]_all => (Shape /\ ClientOK)'
  BY ClientNext, WatchNextIsNext, NextSteps
<1> QED
  BY <1>1, <1>2, PTL DEF WatchSpec

(* The reply that the tool reads says what m_processes held when it was sent: the
   status and the number of packets inserted, although the repo keeps the object and
   its wire form between checks and other users start, stop and check the same name. *)
THEOREM RepliesAreTheState == WatchSpec => []ReplyIsTheState
<1>1. WatchInit => ObjectsOK /\ ReplyIsTheState
  BY NewIsObject DEF WatchInit, Init, Empty, ObjectsOK, ObjectOK, Running, Known, ReplyIsTheState
<1>2. (Shape /\ ClientOK) /\ (Shape /\ ClientOK)' /\ ObjectsOK /\ ReplyIsTheState /\ [WatchNext]_all
        => (ObjectsOK /\ ReplyIsTheState)'
  BY ReplyKept
<1> QED
  BY <1>1, <1>2, WatchInvariant, PTL DEF WatchSpec

-----------------------------------------------------------------------------
(* A start happened, and if it was the only one the limits are the command line's. *)
Reached ==
  /\ history.starts # 0
  /\ history.starts = 1 =>
       /\ history.of[wanted.name].max = Option(wanted, "MaxInterestNum")
       /\ history.of[wanted.name].timed <=> Option(wanted, "WatchTimeout") # 0

(* What the repo does later leaves the limits of the last start. *)
LEMMA ReachedKept ==
  ASSUME Shape, Reached, [Next]_vars, wanted' = wanted, wanted.name \in Watched
  PROVE  Reached'
<1>1. CASE Begins
  <2>1. PICK command \in Command, c \in Chain : Start(command, c)
    BY <1>1 DEF Begins
  <2>2. history'.starts = history.starts + 1 /\ history.starts \in Nat
    BY <2>1, StartOK DEF Shape
  <2> QED
    BY <2>2 DEF Reached
<1>2. CASE SendsNext
  <2>1. PICK c \in Busy : \E excl : FetchNext(c, excl)
    BY <1>2 DEF SendsNext
  <2>2. PICK n \in Watched : n = wanted.name
    OBVIOUS
  <2>3. history'.starts = history.starts
    BY <2>1, FetchNextOK
  <2>4. history'.of[n].max = history.of[n].max /\ history'.of[n].timed = history.of[n].timed
    <3>1. CASE n = chain[c].name
      BY <2>1, <3>1, FetchNextOK
    <3>2. CASE n # chain[c].name
      BY <2>1, <3>2, FetchNextOK
    <3> QED
      BY <3>1, <3>2
  <2> QED
    BY <2>2, <2>3, <2>4 DEF Reached
<1>3. CASE Rests
  BY <1>3 DEF Rests, Reached
<1> QED
  BY <1>1, <1>2, <1>3, NextSteps

(* From the reply to the tool's first command on, until the tool asks again *)
Told ==
  wanted.verb = "start" /\ depth = 1
    /\ (tool = "pausing" \/ (data # NoWire /\ DecodeResponse(data)["StatusCode"] \in {100, 300}))
  => Reached

(* Every step keeps it. *)
LEMMA ToldKept ==
  ASSUME Shape, ClientOK, Told, [WatchNext]_all
  PROVE  Told'
<1>0. [Next]_vars /\ wanted.name \in Watched /\ wanted' = wanted
  <2>1. wanted' = wanted
    BY DEF WatchNext, StartWatchCommand, StartCheckCommand, OnWatchCommandResponse,
           CommandTimesOut, StopProcess, RepoStarts, RepoStops, RepoChecks, RepoRefuses,
           RepoGoesOn, OtherStarts, OtherChecks, client, all
  <2> QED
    BY <2>1, WatchNextIsNext, WantedAssumption DEF ClientOK
<1>1. Reached => Reached'
  BY <1>0, ReachedKept
<1>2. ASSUME UNCHANGED client PROVE Told'
  BY <1>1, <1>2 DEF Told, client
<1>3. CASE StartWatchCommand \/ StartCheckCommand
  <2>1. /\ data' = data /\ tool' = "waiting" /\ depth' = depth + 1 /\ tool \in {"new", "pausing"}
    BY <1>3 DEF StartWatchCommand, StartCheckCommand, Express
  <2>2. data' = NoWire
    BY <2>1 DEF ClientOK
  <2> QED
    BY <2>1, <2>2 DEF Told
<1>4. CASE OnWatchCommandResponse
  <2>1. /\ data # NoWire /\ data' = NoWire /\ depth' = depth
        /\ tool' = "pausing" => DecodeResponse(data)["StatusCode"] \in {100, 300}
    BY <1>4 DEF OnWatchCommandResponse
  <2> QED
    BY <1>0, <1>1, <2>1 DEF Told
<1>5. CASE CommandTimesOut \/ StopProcess
  BY <1>5 DEF CommandTimesOut, StopProcess, Told
<1>6. ASSUME NEW c \in Chain, RepoStarts(c) PROVE Told'
  <2>0. PICK n : n = wanted.name
    OBVIOUS
  <2>1. PICK command : command = AsCommand(DecodeParameter(interest.wire))
    OBVIOUS
  <2>2. /\ command \in Command /\ Start(command, c)
        /\ command = Request(wanted) /\ command.name = n
    BY <1>6, <2>0, <2>1, Hears DEF RepoStarts, Request
  <2>3. /\ history'.starts = history.starts + 1 /\ history.starts \in Nat
        /\ history'.of[n].max = AsInt64(command.max)
        /\ history'.of[n].timed = (Clock(command.timeout) # "off")
    BY <2>2, StartOK DEF Shape
  <2>6. \A t \in {"MaxInterestNum", "WatchTimeout"} : Option(wanted, t) \in Int64
    BY OptionsAreInt64 DEF ClientOK
  <2>7. /\ command.max = AsWord(Option(wanted, "MaxInterestNum"))
        /\ command.timeout = AsWord(Option(wanted, "WatchTimeout"))
    BY <2>2 DEF Request
  <2>8. Clock(command.timeout) # "off" <=> command.timeout # 0
    BY DEF Clock
  <2>4. /\ history'.of[n].max = Option(wanted, "MaxInterestNum")
        /\ history'.of[n].timed <=> Option(wanted, "WatchTimeout") # 0
    BY <2>3, <2>6, <2>7, <2>8, Int64RoundTrip
  <2>5. Reached'
    BY <1>0, <2>0, <2>3, <2>4 DEF Reached
  <2> QED
    BY <2>5 DEF Told
<1>7. CASE RepoStops \/ RepoChecks
  <2>1. interest.verb \in {"stop", "check"} /\ UNCHANGED <<wanted, tool, depth>> /\ Heard
    BY <1>7 DEF RepoStops, RepoChecks
  <2>2. wanted.verb # "start"
    BY <2>1, Hears
  <2> QED
    BY <2>1, <2>2 DEF Told
<1>8. CASE RepoRefuses
  <2>1. PICK code \in {401, 403} : code = reply'
    BY <1>8 DEF RepoRefuses, RejectCommand
  <2>2. /\ data' = EncodedResponse(Status(code)).wire /\ UNCHANGED <<wanted, tool, depth>>
        /\ Heard
    BY <1>8, <2>1 DEF RepoRefuses, Reply
  <2>3. DecodeResponse(data')["StatusCode"] = code
    BY <2>2, StatusIs
  <2>4. tool = "waiting"
    BY <2>2 DEF ClientOK, Heard
  <2> QED
    BY <2>1, <2>2, <2>3, <2>4 DEF Told
<1>9. CASE UNCHANGED all
  BY <1>2, <1>9 DEF all
<1> QED
  BY <1>2, <1>3, <1>4, <1>5, <1>6, <1>7, <1>8, <1>9
     DEF WatchNext, RepoGoesOn, OtherStarts, OtherChecks

(* Whatever options the tool was run with, once it has read that the watch starts and
   while nobody else started one, the repo watches under the limits of the options. *)
THEOREM OptionsAreKept == WatchSpec => []OptionsReachTheRepo
<1>1. WatchInit => Told
  BY DEF WatchInit, Told
<1>2. (Shape /\ ClientOK) /\ Told /\ [WatchNext]_all => Told'
  BY ToldKept
<1>3. Told => OptionsReachTheRepo
  BY DEF Told, Reached, OptionsReachTheRepo
<1> QED
  BY <1>1, <1>2, <1>3, WatchInvariant, PTL DEF WatchSpec
=============================================================================
