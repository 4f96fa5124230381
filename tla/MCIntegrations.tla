-------------------------- MODULE MCIntegrations --------------------------
(***************************************************************************)
(* The two components that speak to the outside: the API server and the    *)
(* MCP client.  They share no state, so a behaviour exercises one of them: *)
(* two runs beside a cap of one, two streams and one action in flight; one *)
(* MCP server of each transport and one whose configuration is incomplete. *)
(***************************************************************************)
EXTENDS ApiServer, McpClient

VARIABLE component  \* the one this behaviour exercises

MCConfigs == <<"broken", "files", "search">>
MCTransport == [s \in {"broken", "files", "search"} |-> IF s = "search" THEN "http" ELSE "stdio"]

Init ==
    /\ component \in {"api", "mcp"}
    /\ ApiInit
    /\ McpInit

vars == <<component, ApiVars, McpVars>>
OnlyApi == component = "api" /\ UNCHANGED <<component, McpVars>>
OnlyMcp == component = "mcp" /\ UNCHANGED <<component, ApiVars>>

Next ==
    \/ OnlyApi /\ ApiNext
    \/ OnlyMcp /\ McpNext

\* ApiFairness and McpFairness, as steps of the composition.
Fairness ==
    /\ WF_vars(OnlyApi /\ \E r \in Run : RunStep(r))
    /\ WF_vars(OnlyMcp /\ ConnectNext)
    /\ WF_vars(OnlyMcp /\ Fetches)
    /\ WF_vars(OnlyMcp /\ TimersFire)

Spec == Init /\ [][Next]_vars /\ Fairness

-----------------------------------------------------------------------------

\* Both components stay within their types.
TypeOK == ApiTypeOK /\ McpTypeOK

\* Neither a run of the API server nor the connecting of servers nor a call
\* hangs: each of them comes to its end whatever clients and servers do.
EverythingSettles == RunsSettle /\ NothingHangs
=============================================================================
