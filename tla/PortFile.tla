------------------------------ MODULE PortFile ------------------------------
(***************************************************************************)
(* The NIC and port lists of a snapshot file, as store.Import reads them:   *)
(* which files it accepts and what it makes of their links.                 *)
(*                                                                          *)
(* A file is a record                                                       *)
(*   ports    the ids of its port records                                   *)
(*   owner    their owner, a host or a hardware item                        *)
(*   nic      their nic_id, None for 0                                      *)
(*   peer     their peer_port_id, None for 0                                *)
(*   pos      their position in the file, which pairPortLinks depends on    *)
(*   nicHost  the host_id of each NIC record                                *)
(* nic and peer are whatever the file says: they may name records that it   *)
(* does not contain.                                                        *)
(***************************************************************************)
EXTENDS Naturals, FiniteSets

CONSTANTS
  PortId,      \* ids a port row can have
  NICId,       \* ids a NIC row can have
  Hosts,       \* hosts, as port owners (owner_type "host") and as NIC hosts
  Hardware,    \* hardware items, as port owners (owner_type "hardware")
  None         \* the 0 of a soft reference

ASSUME NoneAssumption == None \notin PortId \cup NICId
ASSUME OwnerAssumption == Hosts \cap Hardware = {}

Owner == Hosts \cup Hardware

\* The orders in which a file can list the ports of S.
Orders(S) ==
  {pos \in [S -> 1 .. Cardinality(S)] : \A p, q \in S : pos[p] = pos[q] => p = q}

IsFile(f) ==
  /\ f.ports \subseteq PortId
  /\ f.owner \in [f.ports -> Owner]
  /\ f.nic \in [f.ports -> NICId \cup {None}]
  /\ f.peer \in [f.ports -> PortId \cup {None}]
  /\ f.pos \in Orders(f.ports)
  /\ DOMAIN f.nicHost \subseteq NICId
  /\ f.nicHost \in [DOMAIN f.nicHost -> Hosts]

\* Port.Validate on the fields kept here. (Owner types are closed by Owner.)
ValidPort(p, owner, nic, peer) ==
  /\ nic # None => owner \in Hosts
  /\ peer # p

ValidPorts(f) ==
  \A p \in f.ports : ValidPort(p, f.owner[p], f.nic[p], f.peer[p])

\* A link the file records on either end.
Linked(f, p, q) == f.peer[p] = q \/ f.peer[q] = p

\* A link to a port that the file does not contain.
Dangling(f, p) == f.peer[p] # None /\ f.peer[p] \notin f.ports

(***************************************************************************)
(* What pairPortLinks accepts: the peer of a port names it back, names      *)
(* nothing, or named an absent port and was cleared by the time the loop    *)
(* reached the port; and nobody else names that peer.                       *)
(***************************************************************************)
Pairable(f) ==
  \A p, q \in f.ports :
    f.peer[p] = q =>
      /\ \/ f.peer[q] \in {p, None}
         \/ Dangling(f, q) /\ f.pos[q] < f.pos[p]
      /\ \A r \in f.ports : f.peer[r] = q => r = p

\* The peer_port_id column pairPortLinks returns for a pairable file.
Paired(f) ==
  [p \in f.ports |->
    IF \E q \in f.ports : Linked(f, p, q)
    THEN CHOOSE q \in f.ports : Linked(f, p, q)
    ELSE None]

\* checkPortNICs: an attribution to an absent NIC is cleared, one to another
\* host's NIC fails the import.
NICsAgree(f) ==
  \A p \in f.ports :
    f.nic[p] \in DOMAIN f.nicHost => f.nicHost[f.nic[p]] = f.owner[p]

Attributed(f) ==
  [p \in f.ports |-> IF f.nic[p] \in DOMAIN f.nicHost THEN f.nic[p] ELSE None]

\* Import goes on to replace the tables.
Accepted(f) == ValidPorts(f) /\ Pairable(f) /\ NICsAgree(f)
=============================================================================
