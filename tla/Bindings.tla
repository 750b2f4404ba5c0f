-------------------------------- MODULE Bindings --------------------------------
(***************************************************************************)
(* What the table host_agents promises: each host has at most one agent and  *)
(* each agent at most one host, and neither changes hands: a host is taken   *)
(* by an agent only while it has none.                                       *)
(***************************************************************************)
CONSTANTS HostId, AgentId, None

VARIABLE owner  \* the agent of each host, or None

Init == owner = [h \in HostId |-> None]

Take(h, a) ==
  /\ owner[h] = None
  /\ \A g \in HostId : owner[g] # a
  /\ owner' = [owner EXCEPT ![h] = a]

\* An unbind, a deletion, or an import, which empties the table.
Release(freed) == owner' = [h \in HostId |-> IF h \in freed THEN None ELSE owner[h]]

Next ==
  \/ \E h \in HostId, a \in AgentId : Take(h, a)
  \/ \E freed \in SUBSET HostId : Release(freed)

Spec == Init /\ [][Next]_owner
=============================================================================
