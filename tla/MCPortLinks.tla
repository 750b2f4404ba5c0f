----------------------------- MODULE MCPortLinks -----------------------------
EXTENDS PortLinks

CONSTANTS h1, h2, w1, n1

TwoHosts == {h1, h2}
Switch == {w1}
OneNIC == {n1}

\* Files: links written on one end only, a dangling link that is cleared, one
\* that fails the import because of the order, two ports naming one peer; and
\* attributions to a NIC of the owner, of another host and to an absent one.
File(owners, nicIds, peers, cards) ==
  [ports |-> DOMAIN owners, owner |-> owners, nic |-> nicIds, peer |-> peers,
   pos |-> [p \in DOMAIN owners |-> p], nicHost |-> cards]

Card == [n \in {n1} |-> h1]
NoCards == <<>>

CableFiles ==
  { File([p \in DOMAIN peers |-> h1], [p \in DOMAIN peers |-> None], peers, NoCards) :
      peers \in { <<>>, <<2, None>>, <<None, 3, None>>, <<4, 1>>,
                  <<2, 4>>, <<3, 3, None>>, <<4, 3, 2, 1>> } }

NICFiles ==
  { File(owners, nicIds, <<None, None>>, cards) :
      owners \in {<<h1, h2>>, <<w1, h1>>}, cards \in {Card, NoCards},
      nicIds \in {<<None, None>>, <<n1, None>>, <<None, n1>>, <<n1, n1>>} }

AllFiles == CableFiles \cup NICFiles
=============================================================================
