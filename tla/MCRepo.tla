------------------------------- MODULE MCRepo -------------------------------
(* TLC instance of Repo: two packets of one name, segments 1 and 2 of a space of
   three segment numbers, and one connection. *)
EXTENDS Repo

MCName == 1..2   \* the packet of segment i is i
None == {}

Del(names, keyed, selects, s, e, id) ==
  [query |-> [names |-> names, keyed |-> keyed], selects |-> selects,
   start |-> s, end |-> e, processId |-> id]

MCDelete ==
  { Del(MCName, FALSE, FALSE, NoBlock, NoBlock, TRUE),  \* all under the name
    Del({2}, TRUE, TRUE, NoBlock, NoBlock, FALSE),      \* by selectors, without ProcessId
    Del({}, FALSE, FALSE, NoBlock, 1, TRUE),            \* segments 0 and 1: one is there
    Del({}, FALSE, FALSE, 1, 2, TRUE),                  \* up to the last number
    Del({}, FALSE, TRUE, 1, 0, FALSE),                  \* refused
    Del({}, FALSE, FALSE, 1, NoBlock, TRUE) }           \* without EndBlockId

MCSegments == [c \in MCDelete |-> [i \in SegmentNo |-> {i} \cap MCName]]

MCRead == {[names |-> MCName, keyed |-> FALSE]}

MCSent == [c \in Conn |-> 5]

El(f, t, k) == [from |-> f, to |-> t, kind |-> k]
\* in a buffer of 2 bytes: a packet of two, an element that is no Data, one that does
\* not fit
MCElement == [c \in Conn |-> {El(1, 2, 1), El(3, 3, Other), El(4, 6, 2)}]
=============================================================================
