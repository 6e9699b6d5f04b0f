---------------------------- MODULE MCRepoStorage ----------------------------
(* TLC instances of RepoStorage: three packets 1, 2, 3 in canonical order, and
   packet 0 with an empty Data name. *)
EXTENDS RepoStorage

Names     == 0..3
NoName    == {0}

(* A prefix of everything, one of two siblings, exact names; the keyed query is
   the Interest that names the signing key. *)
PlainQueries == [names : {{1, 2, 3}, {1, 2}, {2}, {3}}, keyed : {FALSE}]
AllQueries   == PlainQueries \cup [names : {{1, 3}}, keyed : {TRUE}]
=============================================================================
