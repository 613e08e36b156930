--------------------------- MODULE MCAgentRuntime ---------------------------
(***************************************************************************)
(* Instances of AgentRuntime for TLC: up to three sessions, two of the     *)
(* same guild, so that a guild can be full while another is not.           *)
(***************************************************************************)
EXTENDS AgentRuntime

CONSTANTS g1, g2, s1, s2, s3

MCSessions == {s1, s2, s3}
MCGuilds == {g1, g2}
MCGuildOf == [s \in MCSessions |-> IF s = s3 THEN g2 ELSE g1]

\* Two sessions of one guild, with retries and liveness.
MCPair == {s1, s2}
MCOneGuild == {g1}
MCPairInOneGuild == [s \in MCPair |-> g1]

\* The two sessions of g1 are interchangeable (used by the safety run only).
MCSymmetry == Permutations({s1, s2})
=============================================================================
