---------------------------- MODULE MCLogDispatch ----------------------------
(* Loggers and statements for TLC: net is not registered at first, and     *)
(* ghost never, for its id is not valid.                                   *)
EXTENDS LogDispatch

\* The file of default is shared with quiet, which takes no Info.
MCFileOf == [l \in Loggers |-> IF l = "net" THEN "net.log" ELSE "main.log"]
MCThreshold == [l \in Loggers |-> IF l = "default" THEN 2 ELSE 0]
MCEnabled == (Loggers \X Levels) \ {<<"quiet", "Info">>}

Statement(kind, gate, n, level, ids) ==
  [kind |-> kind, gate |-> gate, n |-> n, level |-> level, ids |-> ids]

MCStatements == {
  Statement("macro", "every", 2, "Info", <<"net", "default">>),
  Statement("macro", "after", 1, "Info", <<"quiet", "ghost", "net", "ghost">>),
  Statement("macro", "times", 1, "Fatal", <<"net", "quiet">>),
  Statement("format", "always", 0, "Info", <<"default">>),
  Statement("surplus", "always", 0, "Info", <<"quiet">>)}

=============================================================================
