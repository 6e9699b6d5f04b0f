----------------------------- MODULE MCRepoWatch -----------------------------
(* TLC instance of RepoWatch: one name, two packets, every verb and limit. *)
EXTENDS RepoWatch, TLC

CONSTANT a

TwoPackets == 0..1
Cmd(m, t) == [name |-> a, max |-> m, timeout |-> t]
\* no limit, both limits, and a negative number that arrives as a large one
Commands  == {Cmd(0, 0), Cmd(2, 5), Cmd(Word - 3, 0)}

Want(verb, options) == [verb |-> verb, name |-> a, options |-> options]
None == [t \in {} |-> 0]
Wants == {Want("start", "MaxInterestNum" :> 2 @@ "WatchTimeout" :> 5),
          Want("start", "MaxInterestNum" :> -3 @@ "WatchTimeout" :> 0),
          Want("start", None), Want("stop", None), Want("check", None)}
=============================================================================
