---------------------------- MODULE MCAgentConfig ----------------------------
(* Constants for TLC: updates and requests of one agent, an update of another. *)
EXTENDS AgentConfig

CONSTANTS budget, itinerary, u1, u2, u3

\* u3 is of another agent, whose configuration shares the tag.
OfAgents == [x \in Updates \cup Requests |-> IF x = u3 THEN itinerary ELSE budget]

=============================================================================
