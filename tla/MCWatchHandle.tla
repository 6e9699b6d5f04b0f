---------------------------- MODULE MCWatchHandle ----------------------------
(* TLC instances of WatchHandle: two packets under two prefixes. *)
EXTENDS WatchHandle, TLC

CONSTANTS a, b

Cmd(n, m, t) == [name |-> n, max |-> m, timeout |-> t]

TwoPackets == 0..1

\* on two names: no limit, two Interests, more than int64_t holds, a timeout
TwoNames  == {Cmd(a, 0, 0), Cmd(a, 2, 0), Cmd(a, Word - 1, 0), Cmd(b, 0, 1)}

Perms == Permutations(Chain)
=============================================================================
