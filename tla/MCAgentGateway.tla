--------------------------- MODULE MCAgentGateway ---------------------------
(* A small instance of AgentGateway.  The first connection is always that of machine
   m1 to process w1; the second is a newer one of the same machine, to the same process
   or to another, or that of a second machine to the same process, whose remote may
   claim the agent id of the first.  m1 is deleted in w1, the process the request is made
   to; a connection in w2 is then one that this process cannot revoke. *)
EXTENDS AgentGateway, TLC

CONSTANTS c1, c2, w1, w2, m1, m2, a1, a2

MCAttachable == {<<c1, w1, m1>>, <<c2, w1, m1>>, <<c2, w2, m1>>, <<c2, w1, m2>>}
MCClaims == {<<m1, a1>>, <<m2, a1>>, <<m2, a2>>}
MCTargets == {<<w1, a1, m1>>}
MCTouchable == {<<w1, m1>>}
=============================================================================
