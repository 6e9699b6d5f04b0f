------------------------------ MODULE MCPutFile ------------------------------
(* TLC instances of GetFile over PutFile: a window of 2 at the repo, two segments
   prepared ahead, files of up to 4 blocks. *)
EXTENDS GetFile

CONSTANT a

Commands == {InsertCommand(b) : b \in BOOLEAN}

\* what the tool answers is decided in PutFile; here everything is possible
Env(verifies, fails) ==
  [available |-> (0..3) \cup {Whole}, final |-> (0..3) \cup {NoBlock}, lossy |-> TRUE,
   unverified |-> verifies, storageFails |-> fails]
Environments == {Env(FALSE, FALSE), Env(TRUE, FALSE), Env(FALSE, TRUE)}
Plain == {Env(FALSE, FALSE)}

Upload(n, single, lossy, asked) ==
  [length |-> n, isSingle |-> single, lossy |-> lossy, asked |-> asked]
Prompt(n)       == Upload(n, FALSE, FALSE, FALSE)
PromptSingle(n) == Upload(n, TRUE, FALSE, FALSE)

Options(versioned, single, below) ==
  [runs |-> TRUE, versioned |-> versioned, single |-> single, below |-> below]
NoReader == [runs |-> FALSE, versioned |-> TRUE, single |-> TRUE, below |-> 1]

\* uploads alone, with everything that may go wrong for two blocks
Uploads == {Prompt(0), Prompt(4), PromptSingle(2), Upload(2, FALSE, TRUE, TRUE)} \X {NoReader}
\* readers of segments, with the name's version and without, and with wrong options
Segmented == {Prompt(3)} \X {Options(TRUE, FALSE, 1), Options(FALSE, FALSE, 2)} \cup
             {Prompt(2)} \X {Options(FALSE, FALSE, 1), Options(TRUE, TRUE, 1)}
\* readers of a single packet; a link that loses
Single == {PromptSingle(1), Upload(1, TRUE, TRUE, TRUE)}
            \X {Options(TRUE, TRUE, 0), Options(TRUE, FALSE, 0), Options(FALSE, TRUE, 1),
                Options(TRUE, FALSE, 1)}

Sessions == Uploads \cup Segmented \cup Single
Scenes == {r[1] : r \in Sessions}

OneSingle == {<<PromptSingle(1), NoReader>>}
OneScene  == {r[1] : r \in OneSingle}
=============================================================================
