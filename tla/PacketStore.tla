----------------------------- MODULE PacketStore -----------------------------
(***************************************************************************)
(* What the repository's packet store promises its handlers: a set of     *)
(* packets, each identified by its full name, that survives the process.  *)
(* RepoStorage (index in memory + rows in SQLite) is shown to implement    *)
(* this module when the capacity is not exceeded and SQLite does not lose  *)
(* a write silently.                                                       *)
(***************************************************************************)
EXTENDS Integers, FiniteSets

CONSTANTS
  Name,      \* full names of packets
  Nameless,  \* the full names of packets whose Data name is empty
  Asked      \* the sets of names that a delete or a read may ask for

VARIABLES
  stored,    \* the packets the store holds
  up,        \* the repo process is running
  reply      \* what the last operation returned to its handler

vars == <<stored, up, reply>>

NoReply     == [op |-> "none"]
Threw       == [op |-> "threw"]
Inserted(b) == [op |-> "insert", ok |-> b]
Deleted(k)  == [op |-> "delete", count |-> k]
ReadHit(n)  == [op |-> "read", hit |-> {n}]
ReadMiss    == [op |-> "read", hit |-> {}]

Init ==
  /\ stored = {}
  /\ up = FALSE
  /\ reply = NoReply

(* Insert a packet: stored exactly when the caller is told so. *)
Insert(n) ==
  /\ up
  /\ n \in Name \ (stored \cup Nameless)
  /\ stored' = stored \cup {n}
  /\ reply' = Inserted(TRUE)
  /\ UNCHANGED up

(* A packet whose Data name is empty is refused without an exception. *)
Refuse(n) ==
  /\ up
  /\ n \in Nameless \ stored
  /\ reply' = Inserted(FALSE)
  /\ UNCHANGED <<stored, up>>

(* An insert that throws stores nothing; its exception is swallowed (TCP bulk
   insert) or ends the process (every other handler). *)
FailInsert ==
  /\ up
  /\ reply' = Threw
  /\ up' \in BOOLEAN
  /\ UNCHANGED stored

(* A delete removes every packet asked for and says how many there were. *)
Delete(names) ==
  /\ up
  /\ stored' = stored \ names
  /\ reply' = Deleted(Cardinality(stored \cap names))
  /\ UNCHANGED up

(* A delete cut short by a database error removed a part, and ends the process. *)
FailDelete(names) ==
  /\ up
  /\ \E part \in SUBSET (stored \cap names) : stored' = stored \ part
  /\ up' = FALSE
  /\ reply' = Threw

(* A read answers with a packet that was asked for, if there is one. *)
Read(names) ==
  /\ up
  /\ \/ \E n \in stored \cap names : reply' = ReadHit(n)
     \/ stored \cap names = {} /\ reply' = ReadMiss
  /\ UNCHANGED <<stored, up>>

(* A read that meets a database error ends the process. *)
FailRead ==
  /\ up
  /\ up' = FALSE
  /\ reply' = Threw
  /\ UNCHANGED stored

(* The process ends and starts again: nothing is lost, nothing comes back. *)
Stop ==
  /\ up
  /\ up' = FALSE
  /\ reply' = NoReply
  /\ UNCHANGED stored

Start ==
  /\ ~up
  /\ up' = TRUE
  /\ reply' = NoReply
  /\ UNCHANGED stored

FailStart ==
  /\ ~up
  /\ reply' = Threw
  /\ UNCHANGED <<stored, up>>

Next ==
  \/ \E n \in Name : Insert(n) \/ Refuse(n)
  \/ FailInsert \/ FailRead
  \/ \E names \in Asked : Delete(names) \/ FailDelete(names) \/ Read(names)
  \/ Stop
  \/ Start \/ FailStart

Spec == Init /\ [][Next]_vars
=============================================================================
