--------------------------- MODULE MCPairPortLinks ---------------------------
(* Every file of up to MaxPorts ports, in every order, with every choice of  *)
(* peers, including one id that no file contains.                            *)
EXTENDS PairPortLinks

CONSTANTS MaxPorts, h1, w1

MCPortId == 1 .. (MaxPorts + 1)     \* the last id is in no file
MCHosts == {h1}
MCHardware == {w1}

FilesOn(S) ==
  { [ports |-> S, owner |-> [p \in S |-> w1], nic |-> [p \in S |-> None],
     peer |-> peer, pos |-> pos, nicHost |-> <<>>] :
      peer \in [S -> MCPortId \cup {None}], pos \in Orders(S) }

MCFiles ==
  {f \in UNION {FilesOn(S) : S \in SUBSET (1 .. MaxPorts)} : ValidPorts(f)}
=============================================================================
