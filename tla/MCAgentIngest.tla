----------------------------- MODULE MCAgentIngest -----------------------------
EXTENDS AgentIngest, TLC

CONSTANTS m1, m2, x, y, z, h1, h2, n1, n2, c1, c2, a1, r1, r2

TwoMachines == {m1, m2}
Ids == {x, y, z}
Hosts == {h1, h2}
Names == {n1, n2}
Cards == {c1, c2}
Addresses == {a1}
TwoRuns == {r1, r2}

\* Two machines with nothing in common but perhaps an id.
Apart == [m \in Machine |-> IF m = m1 THEN [name |-> n1, macs |-> {c1}, ips |-> {a1}]
                            ELSE [name |-> n2, macs |-> {c2}, ips |-> {}]]
\* Two changes, or one change and a fault.
FewAtOnce == changes + faults <= 2

Symmetry == Permutations(Ids) \cup Permutations(Hosts) \cup Permutations(TwoRuns)
=============================================================================
