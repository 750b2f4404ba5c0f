------------------------------ MODULE PortLinks ------------------------------
(***************************************************************************)
(* The ports and nics tables (internal/store/port_repo.go, nic_repo.go) and *)
(* the statements that write them. Every action is one write transaction:   *)
(* BEGIN IMMEDIATE (store.Open) lets one run at a time, and one that        *)
(* returns an error is rolled back, so it is an action that does not occur. *)
(*                                                                          *)
(* A link is stored on both ports, so a statement about one row has to keep *)
(* another row true. The unique index on peer_port_id is not a guard here:  *)
(* LinkSymmetry implies it, so the statements never run into it.            *)
(*                                                                          *)
(* A row keeps the columns the properties read. The functions are total:    *)
(* the columns of an id without a row are None.                             *)
(***************************************************************************)
EXTENDS PortFile

CONSTANT Files   \* the files an import may upload

ASSUME FilesAssumption == \A f \in Files : IsFile(f)

VARIABLES
  ports,     \* ids in the ports table
  owner,     \* owner_type and owner_id
  nicOf,     \* nic_id
  peer,      \* peer_port_id
  nics,      \* ids in the nics table
  nicHost,   \* host_id of a NIC
  used,      \* port ids ever used: AUTOINCREMENT gives none of them out again
  usedNICs   \* the same for NICs

portVars == <<ports, owner, nicOf, peer, used>>
nicVars == <<nics, nicHost, usedNICs>>
vars == <<portVars, nicVars>>

Init ==
  /\ ports = {}
  /\ owner = [p \in PortId |-> None]
  /\ nicOf = [p \in PortId |-> None]
  /\ peer = [p \in PortId |-> None]
  /\ nics = {}
  /\ nicHost = [n \in NICId |-> None]
  /\ used = {} /\ usedNICs = {}

-----------------------------------------------------------------------------
\* checkNIC: a port can only sit on a card of the machine that owns it.
NICAllowed(o, n) == n # None => n \in nics /\ nicHost[n] = o

\* Faulty: any existing port can be named.
ConnectableToAny(p, q) ==
  /\ q # p
  /\ q # None => q \in ports

\* connect's refusals, for the existing or just inserted port p.
Connectable(p, q) ==
  /\ q # p
  /\ q # None => q \in ports /\ peer[q] \in {None, p}

\* Faulty: the old peer keeps its end of the pulled cable.
ConnectKeepsOldPeer(p, q) ==
  peer' = [r \in PortId |-> IF r = p THEN q ELSE IF r = q THEN p ELSE peer[r]]

\* connect's updates: p and its old peer are disconnected, then p and q linked.
Connect(p, q) ==
  peer' = [r \in PortId |->
             IF r = p THEN q
             ELSE IF r = q THEN p
             ELSE IF peer[r] = p THEN None
             ELSE peer[r]]

CreatePort(p, o, n, q) ==
  /\ p \notin used
  /\ ValidPort(p, o, n, q)
  /\ NICAllowed(o, n)
  /\ Connectable(p, q)
  /\ ports' = ports \cup {p}
  /\ used' = used \cup {p}
  /\ owner' = [owner EXCEPT ![p] = o]
  /\ nicOf' = [nicOf EXCEPT ![p] = n]
  /\ Connect(p, q)
  /\ UNCHANGED nicVars

\* The new-port page fills in a switch: a batch of unlinked ports.
GeneratePorts(P, o) ==
  /\ P \cap used = {}
  /\ ports' = ports \cup P
  /\ used' = used \cup P
  /\ owner' = [p \in PortId |-> IF p \in P THEN o ELSE owner[p]]
  /\ UNCHANGED <<nicOf, peer, nicVars>>

\* Faulty: a port in use is taken over, its old peer properly disconnected.
UpdatePortTakesOver(p, o, n, q) ==
  /\ p \in ports
  /\ ValidPort(p, o, n, q)
  /\ NICAllowed(o, n)
  /\ q # None => q \in ports
  /\ owner' = [owner EXCEPT ![p] = o]
  /\ nicOf' = [nicOf EXCEPT ![p] = n]
  /\ peer' = [r \in PortId |-> IF r = p THEN q
                              ELSE IF r = q THEN p
                              ELSE IF peer[r] \in {p, q} THEN None
                              ELSE peer[r]]
  /\ UNCHANGED <<ports, used, nicVars>>

UpdatePort(p, o, n, q) ==
  /\ p \in ports
  /\ ValidPort(p, o, n, q)
  /\ NICAllowed(o, n)
  /\ Connectable(p, q)
  /\ owner' = [owner EXCEPT ![p] = o]
  /\ nicOf' = [nicOf EXCEPT ![p] = n]
  /\ Connect(p, q)
  /\ UNCHANGED <<ports, used, nicVars>>

DeletePort(p) ==
  /\ p \in ports
  /\ ports' = ports \ {p}
  /\ owner' = [owner EXCEPT ![p] = None]
  /\ nicOf' = [nicOf EXCEPT ![p] = None]
  /\ peer' = [r \in PortId |-> IF r = p \/ peer[r] = p THEN None ELSE peer[r]]
  /\ UNCHANGED <<used, nicVars>>

CreateNIC(n, h) ==
  /\ n \notin usedNICs
  /\ nics' = nics \cup {n}
  /\ usedNICs' = usedNICs \cup {n}
  /\ nicHost' = [nicHost EXCEPT ![n] = h]
  /\ UNCHANGED portVars

\* Moving a NIC leaves the old host's ports where they are, unattributed.
UpdateNIC(n, h) ==
  /\ n \in nics
  /\ nicHost' = [nicHost EXCEPT ![n] = h]
  /\ nicOf' = [p \in PortId |->
                 IF nicOf[p] = n /\ owner[p] # h THEN None ELSE nicOf[p]]
  /\ UNCHANGED <<nics, usedNICs, ports, owner, peer, used>>

\* Faulty: ports keep naming the deleted card.
DeleteNICOnly(n) ==
  /\ n \in nics
  /\ nics' = nics \ {n}
  /\ nicHost' = [nicHost EXCEPT ![n] = None]
  /\ UNCHANGED <<usedNICs, portVars>>

DeleteNIC(n) ==
  /\ n \in nics
  /\ nics' = nics \ {n}
  /\ nicHost' = [nicHost EXCEPT ![n] = None]
  /\ nicOf' = [p \in PortId |-> IF nicOf[p] = n THEN None ELSE nicOf[p]]
  /\ UNCHANGED <<usedNICs, ports, owner, peer, used>>

\* A column of the file's rows, None for the ids it does not contain.
Column(Id, col) == [i \in Id |-> IF i \in DOMAIN col THEN col[i] ELSE None]

\* The tables are emptied and refilled with the file's rows.
Import(f) ==
  /\ Accepted(f)
  /\ ports' = f.ports
  /\ owner' = Column(PortId, f.owner)
  /\ nicOf' = Column(PortId, Attributed(f))
  /\ peer' = Column(PortId, Paired(f))
  /\ nics' = DOMAIN f.nicHost
  /\ nicHost' = Column(NICId, f.nicHost)
  /\ used' = used \cup f.ports
  /\ usedNICs' = usedNICs \cup DOMAIN f.nicHost

PortStep ==
  \E p \in PortId :
    \/ DeletePort(p)
    \/ \E o \in Owner, n \in NICId \cup {None}, q \in PortId \cup {None} :
         CreatePort(p, o, n, q) \/ UpdatePort(p, o, n, q)

NICStep ==
  \E n \in NICId :
    \/ DeleteNIC(n)
    \/ \E h \in Hosts : CreateNIC(n, h) \/ UpdateNIC(n, h)

Next ==
  \/ PortStep
  \/ NICStep
  \/ \E P \in SUBSET PortId, o \in Owner : GeneratePorts(P, o)
  \/ \E f \in Files : Import(f)

Spec == Init /\ [][Next]_vars

-----------------------------------------------------------------------------
TypeOK ==
  /\ ports \in SUBSET PortId
  /\ owner \in [PortId -> Owner \cup {None}]
  /\ nicOf \in [PortId -> NICId \cup {None}]
  /\ peer \in [PortId -> PortId \cup {None}]
  /\ nics \in SUBSET NICId
  /\ nicHost \in [NICId -> Hosts \cup {None}]
  /\ used \in SUBSET PortId /\ ports \subseteq used
  /\ usedNICs \in SUBSET NICId /\ nics \subseteq usedNICs

(***************************************************************************)
(* Whatever rows were written, moved, deleted or imported, a port's peer    *)
(* exists, is another port and names it back (Port.PeerPortID: "The link is *)
(* stored on both ports: each one's PeerPortID names the other"). Hence no  *)
(* two ports name one peer, which is what the unique index demands.         *)
(***************************************************************************)
LinkSymmetry ==
  \A p \in ports :
    peer[p] # None =>
      /\ peer[p] \in ports \ {p}
      /\ peer[peer[p]] = p

(***************************************************************************)
(* A port's NIC exists and is in the machine that owns the port, although   *)
(* nic_id, the port's owner and the NIC's host are edited independently     *)
(* ("a port can only sit on a card of the machine that owns it").           *)
(***************************************************************************)
NICInOwnersMachine ==
  \A p \in ports :
    nicOf[p] # None => nicOf[p] \in nics /\ nicHost[nicOf[p]] = owner[p]

(***************************************************************************)
(* The two tables are consistent after every statement that commits: typed   *)
(* columns, links that hold on both ends, and NICs in the machine that owns  *)
(* the port. The three are what the forms, the API and Import each promise   *)
(* the others.                                                               *)
(***************************************************************************)
TablesConsistent == TypeOK /\ LinkSymmetry /\ NICInOwnersMachine

NewCableEndsFree ==
  (~\E f \in Files : Import(f)) =>
    \A p, q \in PortId :
      peer'[p] = q /\ peer[p] # q => peer[p] = None \/ peer[q] = None

(***************************************************************************)
(* Outside an import, a cable that a write creates ends at a port that was  *)
(* free before it: connect refuses "to silently re-cable" a port that is in *)
(* use elsewhere.                                                           *)
(***************************************************************************)
NeverRecabled == [][NewCableEndsFree]_vars

(***************************************************************************)
(* The file that Export would write of the current tables, whatever the     *)
(* order of its ports, is accepted by Import, which puts back the same      *)
(* links and attributions: docs/export-import.md, "The whole inventory      *)
(* round-trips".                                                            *)
(***************************************************************************)
ExportOf(pos) ==
  [ports |-> ports,
   owner |-> [p \in ports |-> owner[p]],
   nic |-> [p \in ports |-> nicOf[p]],
   peer |-> [p \in ports |-> peer[p]],
   pos |-> pos,
   nicHost |-> [n \in nics |-> nicHost[n]]]

RoundTrips(f) ==
  /\ Accepted(f)
  /\ Column(PortId, f.owner) = owner
  /\ Column(PortId, Attributed(f)) = nicOf
  /\ Column(PortId, Paired(f)) = peer
  /\ Column(NICId, f.nicHost) = nicHost

ExportRoundTrips ==
  \A pos \in Orders(ports) : RoundTrips(ExportOf(pos))

(***************************************************************************)
(* The tables implement the abstract plant of ports and cables: a write     *)
(* pulls and plugs cables of the port it names and leaves every other cable *)
(* where it is, also one that it could take over and mend behind it; and an *)
(* import, which nothing else may act as, ends in exactly the cables that   *)
(* the rows of its file name on either end.                                 *)
(***************************************************************************)
Cables == {{p, peer[p]} : p \in {q \in ports : peer[q] # None}}

FilePlant(f) ==
  [ends |-> f.ports,
   cables |-> {c \in SUBSET f.ports : \E p, q \in f.ports : Linked(f, p, q) /\ c = {p, q}}]

FilePlants == {FilePlant(f) : f \in {g \in Files : Accepted(g)}}

Plant == INSTANCE Cabling WITH ends <- ports, cables <- Cables, Plants <- FilePlants

OthersCablesStay == (~\E f \in Files : Import(f)) => Plant!Write

CablingSpec == Plant!Spec /\ [][OthersCablesStay]_<<ports, Cables>>
=============================================================================
