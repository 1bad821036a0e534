--------------------------- MODULE MCAgentRuntime ---------------------------
(***************************************************************************)
(* Small instances of AgentRuntime.                                        *)
(***************************************************************************)
EXTENDS AgentRuntime, TLC

CONSTANTS id1, id2, s1, s2

\* Every Session object has an ID of its own; with a single ID the second
\* object can only be registered after the first has left the map.
DistinctIds == (s1 :> id1) @@ (s2 :> id2)
SharedId    == (s1 :> id1) @@ (s2 :> id1)
OneSession  == (s1 :> id1)

\* Bound for the run about waiting for capacity: the host, which need not call
\* Agent.Close, does not.
AgentStaysOpen == ~agentClosed'
=============================================================================
