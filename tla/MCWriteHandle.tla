---------------------------- MODULE MCWriteHandle ----------------------------
(* TLC instances of WriteHandle: a few segment numbers, a window of 2. *)
EXTENDS WriteHandle, TLC

CONSTANT a

Cmd(n, s, e) == [name |-> n, start |-> s, end |-> e]

\* one name: the whole Data, a range, a range with no start, a range with no end
EveryCommand == {Cmd(a, NoBlock, NoBlock), Cmd(a, 1, 2), Cmd(a, NoBlock, 2), Cmd(a, 0, NoBlock)}
\* ranges of one name that meet, the second with an end beyond the last segment
Ranges       == {Cmd(a, 0, 1), Cmd(a, 1, 3)}

Segments(n) == (0..n) \cup {Whole}

Env(available, final, lossy, unverified, storageFails) ==
  [available |-> available, final |-> final, lossy |-> lossy,
   unverified |-> unverified, storageFails |-> storageFails]

\* everything may fail and FinalBlockIds differ
Hostile  == Env(Segments(2), {NoBlock, NoSegment, 1, 2}, TRUE, TRUE, TRUE)
\* Interests are lost, the validator accepts
Lossy    == Env(Segments(2), {NoBlock, 2}, TRUE, FALSE, FALSE)
Faithful == Env(Segments(2), {NoBlock, 2}, FALSE, FALSE, FALSE)
\* Interests are lost, Data refused, but the FinalBlockId is one
OneFinal == Env(Segments(2), {NoBlock, 2}, TRUE, TRUE, FALSE)

Everything  == {Hostile, Lossy, Faithful}
OneFinalOnly == {OneFinal}

Perms == Permutations(Proc)
=============================================================================
