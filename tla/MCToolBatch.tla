---------------------------- MODULE MCToolBatch ----------------------------
(***************************************************************************)
(* ToolBatch on one workspace: two directories' worth of files, a symbolic *)
(* link, and one request of every class the classifier distinguishes.      *)
(***************************************************************************)
EXTENDS ToolBatch

MCRequest == {"read", "grep", "write", "writeLink", "writeOther", "unknown", "bash"}

MCParallelSafe == {"read", "grep"}
MCPathScoped == {"read", "write", "writeLink", "writeOther"}
MCNeverParallel == {"bash"}

MCFiles == {<<>>, <<"d", "f">>, <<"d", "g">>, <<"link">>}

\* "grep", "unknown" and "bash" name no file_path.
MCPath == [r \in MCRequest |->
    CASE r \in {"read", "write"} -> <<"d", "f">>
      [] r = "writeLink"         -> <<"link">>
      [] r = "writeOther"        -> <<"d", "g">>
      [] OTHER                   -> <<>>]

MCExisting == {<<"d", "f">>, <<"link">>}

MCRealPath == [p \in MCFiles |-> IF p = <<"link">> THEN <<"d", "f">> ELSE p]
=============================================================================
