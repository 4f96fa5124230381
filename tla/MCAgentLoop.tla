---------------------------- MODULE MCAgentLoop ----------------------------
(***************************************************************************)
(* AgentLoop with three calls, one whose arguments do not parse and one    *)
(* whose tool fails, and responses that reach every stop condition.        *)
(***************************************************************************)
EXTENDS AgentLoop

MCCall == {"read", "edit", "garbled"}
MCMalformed == {"garbled"}
MCFailingTool == {"edit"}

Reply(calls, content, cost) == [calls |-> calls, content |-> content, tokens |-> cost]

MCResponse == {
    Reply(<<>>, "done", 1),
    Reply(<<"read", "edit">>, "working", 1),
    Reply(<<"edit", "edit">>, "", 3),
    Reply(<<"garbled", "read">>, "", 1)}

=============================================================================
