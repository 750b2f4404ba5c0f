--------------------------- MODULE PortLinksProofs ---------------------------
(***************************************************************************)
(* Proofs about PortLinks, for every set of ports, NICs, hosts, hardware    *)
(* items and importable files.                                              *)
(***************************************************************************)
EXTENDS PortLinks, TLAPS

-----------------------------------------------------------------------------
(* What an import makes of a file. *)

\* In a pairable file a port is linked to at most one other.
LEMMA LinkIsUnique ==
  ASSUME NEW f, IsFile(f), Pairable(f),
         NEW p \in f.ports, NEW q \in f.ports, NEW r \in f.ports,
         Linked(f, p, q), Linked(f, q, r)
  PROVE  r = p
<1>1. None \notin f.ports
  BY NoneAssumption DEF IsFile
<1>2. CASE f.peer[q] = p
  <2>1. CASE f.peer[q] = r
    BY <1>2, <2>1
  <2>2. CASE f.peer[r] = q
    BY <1>1, <1>2, <2>2 DEF Pairable, Dangling
  <2>. QED  BY <2>1, <2>2 DEF Linked
<1>3. CASE f.peer[p] = q
  <2>1. CASE f.peer[q] = r
    BY <1>1, <1>3, <2>1 DEF Pairable, Dangling
  <2>2. CASE f.peer[r] = q
    BY <1>3, <2>2 DEF Pairable
  <2>. QED  BY <2>1, <2>2 DEF Linked
<1>. QED  BY <1>2, <1>3 DEF Linked

\* Two ports of a pairable file are paired exactly if either names the other.
LEMMA PairedIsLinked ==
  ASSUME NEW f, IsFile(f), Pairable(f),
         NEW p \in f.ports, NEW q \in f.ports
  PROVE  Paired(f)[p] = q <=> Linked(f, p, q)
<1>1. \/ Paired(f)[p] = None /\ ~\E r \in f.ports : Linked(f, p, r)
      \/ Paired(f)[p] \in f.ports /\ Linked(f, p, Paired(f)[p])
  BY DEF Paired
<1>2. None \notin f.ports
  BY NoneAssumption DEF IsFile
<1>3. ASSUME Linked(f, p, q)
      PROVE  Paired(f)[p] = q
  <2>1. Linked(f, q, p)
    BY <1>3 DEF Linked
  <2>2. Paired(f)[p] \in f.ports /\ Linked(f, p, Paired(f)[p])
    BY <1>1, <1>3
  <2>. QED  BY <2>1, <2>2, LinkIsUnique
<1>. QED  BY <1>1, <1>2, <1>3

\* The peers that an import writes exist, differ from the port and name it back.
LEMMA PairedIsSymmetric ==
  ASSUME NEW f, IsFile(f), ValidPorts(f), Pairable(f)
  PROVE  /\ Paired(f) \in [f.ports -> f.ports \cup {None}]
         /\ \A p \in f.ports :
              Paired(f)[p] # None =>
                Paired(f)[p] # p /\ Paired(f)[Paired(f)[p]] = p
<1>1. \A p \in f.ports :
        \/ Paired(f)[p] = None /\ ~\E q \in f.ports : Linked(f, p, q)
        \/ Paired(f)[p] \in f.ports /\ Linked(f, p, Paired(f)[p])
  BY DEF Paired
<1>2. Paired(f) \in [f.ports -> f.ports \cup {None}]
  BY <1>1 DEF Paired
<1>3. ASSUME NEW p \in f.ports, Paired(f)[p] # None
      PROVE  Paired(f)[p] # p /\ Paired(f)[Paired(f)[p]] = p
  <2>. DEFINE q == Paired(f)[p]
            r == Paired(f)[q]
  <2>1. q \in f.ports /\ Linked(f, p, q)
    BY <1>1, <1>3
  <2>2. q # p
    BY <2>1 DEF Linked, ValidPorts, ValidPort
  <2>3. Linked(f, q, p)
    BY <2>1 DEF Linked
  <2>4. r \in f.ports /\ Linked(f, q, r)
    BY <1>1, <2>1, <2>3
  <2>5. r = p
    BY <2>1, <2>4, LinkIsUnique
  <2>. QED  BY <2>2, <2>5
<1>. QED  BY <1>2, <1>3

\* The attributions that an import writes are to NICs of the file in the
\* machine that owns the port.
LEMMA AttributedAgrees ==
  ASSUME NEW f, IsFile(f), NICsAgree(f)
  PROVE  /\ Attributed(f) \in [f.ports -> DOMAIN f.nicHost \cup {None}]
         /\ \A p \in f.ports :
              Attributed(f)[p] # None =>
                f.nicHost[Attributed(f)[p]] = f.owner[p]
BY DEF Attributed, NICsAgree, IsFile

-----------------------------------------------------------------------------
(***************************************************************************)
(* The inductive invariant. LinkSymmetry and NICInOwnersMachine are not     *)
(* inductive alone: the statements that clear "WHERE peer_port_id = id" act *)
(* on every row, so an id without a row must have no columns left, and an   *)
(* insert must find its id without a row, so rows only have used ids.       *)
(***************************************************************************)
RowsOnly ==
  /\ ports \subseteq used
  /\ nics \subseteq usedNICs
  /\ \A p \in PortId \ ports : peer[p] = None /\ nicOf[p] = None /\ owner[p] = None
  /\ \A p \in ports : owner[p] \in Owner
  /\ \A n \in nics : nicHost[n] \in Hosts
  /\ \A n \in NICId \ nics : nicHost[n] = None

Symmetric ==
  \A p \in PortId :
    peer[p] # None => p \in ports /\ peer[p] # p /\ peer[peer[p]] = p

IInv == TypeOK /\ RowsOnly /\ Symmetric /\ NICInOwnersMachine

USE DEF Owner

LEMMA InitIInv == Init => IInv
BY DEF Init, IInv, TypeOK, RowsOnly, Symmetric, NICInOwnersMachine

\* connect leaves every link stored on both of its ends.
LEMMA ConnectKeepsSymmetry ==
  ASSUME TypeOK, Symmetric,
         NEW p \in PortId, NEW q \in PortId \cup {None},
         ports' \in SUBSET PortId, ports \cup {p} \subseteq ports',
         Connectable(p, q), Connect(p, q)
  PROVE  Symmetric' /\ peer' \in [PortId -> PortId \cup {None}]
<1>1. peer' \in [PortId -> PortId \cup {None}]
  BY DEF Connect, TypeOK
<1>2. ASSUME NEW r \in PortId, peer'[r] # None
      PROVE  r \in ports' /\ peer'[r] # r /\ peer'[peer'[r]] = r
  BY <1>2, NoneAssumption DEF Connect, Connectable, Symmetric, TypeOK
<1>. QED  BY <1>1, <1>2 DEF Symmetric

LEMMA CreatePortIInv ==
  ASSUME IInv, NEW p \in PortId, NEW o \in Owner, NEW n \in NICId \cup {None},
         NEW q \in PortId \cup {None}, CreatePort(p, o, n, q)
  PROVE  IInv'
<1>. USE DEF CreatePort, nicVars
<1>1. Symmetric' /\ peer' \in [PortId -> PortId \cup {None}]
  BY ConnectKeepsSymmetry DEF IInv, TypeOK
<1>2. TypeOK'
  BY <1>1 DEF IInv, TypeOK
<1>3. RowsOnly'
  BY NoneAssumption DEF IInv, TypeOK, RowsOnly, Connect, Connectable, Symmetric
<1>4. NICInOwnersMachine'
  BY DEF IInv, TypeOK, RowsOnly, NICInOwnersMachine, NICAllowed
<1>. QED  BY <1>1, <1>2, <1>3, <1>4 DEF IInv

LEMMA GeneratePortsIInv ==
  ASSUME IInv, NEW P \in SUBSET PortId, NEW o \in Owner, GeneratePorts(P, o)
  PROVE  IInv'
BY DEF IInv, TypeOK, RowsOnly, Symmetric, NICInOwnersMachine, GeneratePorts, nicVars

LEMMA UpdatePortIInv ==
  ASSUME IInv, NEW p \in PortId, NEW o \in Owner, NEW n \in NICId \cup {None},
         NEW q \in PortId \cup {None}, UpdatePort(p, o, n, q)
  PROVE  IInv'
<1>. USE DEF UpdatePort, nicVars
<1>1. Symmetric' /\ peer' \in [PortId -> PortId \cup {None}]
  BY ConnectKeepsSymmetry DEF IInv, TypeOK
<1>2. TypeOK'
  BY <1>1 DEF IInv, TypeOK
<1>3. RowsOnly'
  BY NoneAssumption DEF IInv, TypeOK, RowsOnly, Connect, Connectable, Symmetric
<1>4. NICInOwnersMachine'
  BY DEF IInv, TypeOK, NICInOwnersMachine, NICAllowed
<1>. QED  BY <1>1, <1>2, <1>3, <1>4 DEF IInv

LEMMA DeletePortIInv ==
  ASSUME IInv, NEW p \in PortId, DeletePort(p)
  PROVE  IInv'
<1>. USE DEF DeletePort, nicVars
<1>1. TypeOK'
  BY DEF IInv, TypeOK
<1>2. RowsOnly'
  BY DEF IInv, TypeOK, RowsOnly
<1>3. Symmetric'
  BY NoneAssumption DEF IInv, TypeOK, Symmetric
<1>4. NICInOwnersMachine'
  BY DEF IInv, TypeOK, NICInOwnersMachine
<1>. QED  BY <1>1, <1>2, <1>3, <1>4 DEF IInv

LEMMA NICStepIInv ==
  ASSUME IInv, NICStep
  PROVE  IInv'
<1>1. PICK n \in NICId :
        DeleteNIC(n) \/ \E h \in Hosts : CreateNIC(n, h) \/ UpdateNIC(n, h)
  BY DEF NICStep
<1>2. CASE DeleteNIC(n)
  BY <1>2, NoneAssumption
  DEF IInv, TypeOK, RowsOnly, Symmetric, NICInOwnersMachine, DeleteNIC
<1>3. ASSUME NEW h \in Hosts, CreateNIC(n, h)
      PROVE  IInv'
  BY <1>3, NoneAssumption
  DEF IInv, TypeOK, RowsOnly, Symmetric, NICInOwnersMachine, CreateNIC, portVars
<1>4. ASSUME NEW h \in Hosts, UpdateNIC(n, h)
      PROVE  IInv'
  BY <1>4, NoneAssumption
  DEF IInv, TypeOK, RowsOnly, Symmetric, NICInOwnersMachine, UpdateNIC
<1>. QED  BY <1>1, <1>2, <1>3, <1>4

LEMMA ImportIInv ==
  ASSUME IInv, NEW f \in Files, Import(f)
  PROVE  IInv'
<1>. DEFINE pr == Paired(f)
            at == Attributed(f)
<1>1. IsFile(f) /\ ValidPorts(f) /\ Pairable(f) /\ NICsAgree(f)
  BY FilesAssumption DEF Import, Accepted
<1>2. /\ pr \in [f.ports -> f.ports \cup {None}]
      /\ \A p \in f.ports : pr[p] # None => pr[p] # p /\ pr[pr[p]] = p
  BY <1>1, PairedIsSymmetric
<1>3. /\ at \in [f.ports -> DOMAIN f.nicHost \cup {None}]
      /\ \A p \in f.ports : at[p] # None => f.nicHost[at[p]] = f.owner[p]
  BY <1>1, AttributedAgrees
<1>4. /\ f.ports \subseteq PortId /\ DOMAIN f.nicHost \subseteq NICId
      /\ f.owner \in [f.ports -> Owner]
      /\ f.nicHost \in [DOMAIN f.nicHost -> Hosts]
  BY <1>1 DEF IsFile
<1>5. /\ ports' = f.ports
      /\ peer' = [p \in PortId |-> IF p \in f.ports THEN pr[p] ELSE None]
      /\ owner' = [p \in PortId |-> IF p \in f.ports THEN f.owner[p] ELSE None]
      /\ nicOf' = [p \in PortId |-> IF p \in f.ports THEN at[p] ELSE None]
      /\ nics' = DOMAIN f.nicHost
      /\ nicHost' = [n \in NICId |->
                       IF n \in DOMAIN f.nicHost THEN f.nicHost[n] ELSE None]
      /\ used' = used \cup f.ports
      /\ usedNICs' = usedNICs \cup DOMAIN f.nicHost
  BY <1>2, <1>3, <1>4 DEF Import, Column
<1>. HIDE DEF pr, at
<1>6. TypeOK'
  BY <1>2, <1>3, <1>4, <1>5 DEF IInv, TypeOK
<1>7. RowsOnly'
  BY <1>4, <1>5 DEF RowsOnly
<1>8. Symmetric'
  BY <1>2, <1>4, <1>5, NoneAssumption DEF Symmetric
<1>9. NICInOwnersMachine'
  BY <1>3, <1>4, <1>5 DEF NICInOwnersMachine
<1>. QED  BY <1>6, <1>7, <1>8, <1>9 DEF IInv

LEMMA NextIInv == IInv /\ [Next]_vars => IInv'
<1>. SUFFICES ASSUME IInv, [Next]_vars PROVE IInv'
  OBVIOUS
<1>1. CASE PortStep
  BY <1>1, CreatePortIInv, UpdatePortIInv, DeletePortIInv DEF PortStep
<1>2. CASE NICStep
  BY <1>2, NICStepIInv
<1>3. CASE \E P \in SUBSET PortId, o \in Owner : GeneratePorts(P, o)
  BY <1>3, GeneratePortsIInv
<1>4. CASE \E f \in Files : Import(f)
  BY <1>4, ImportIInv
<1>5. CASE UNCHANGED vars
  BY <1>5 DEF IInv, TypeOK, RowsOnly, Symmetric, NICInOwnersMachine,
              vars, portVars, nicVars
<1>. QED  BY <1>1, <1>2, <1>3, <1>4, <1>5 DEF Next

LEMMA Invariance == Spec => []IInv
BY InitIInv, NextIInv, PTL DEF Spec

(* The variables of PortLinks keep their types. *)
THEOREM TypeCorrect == Spec => []TypeOK
BY Invariance, PTL DEF IInv

(* Every link is stored on both of its ends, after any sequence of port and *)
(* NIC writes and imports.                                                  *)
THEOREM LinksAreSymmetric == Spec => []LinkSymmetry
<1>1. IInv => LinkSymmetry
  BY NoneAssumption DEF IInv, TypeOK, Symmetric, LinkSymmetry
<1>. QED  BY Invariance, <1>1, PTL

(* A port is only ever attributed to a NIC of the machine that owns it. *)
THEOREM NICsAreInOwnersMachine == Spec => []NICInOwnersMachine
BY Invariance, PTL DEF IInv

(* Outside an import, no write takes a cable away from two ports at once to *)
(* connect them to each other: a new cable ends at a port that was free.    *)
THEOREM CablesAreNotStolen == Spec => NeverRecabled
<1>1. ASSUME IInv, [Next]_vars
      PROVE  [NewCableEndsFree]_vars
  <2>. SUFFICES ASSUME Next, ~\E f \in Files : Import(f),
                       NEW a \in PortId, NEW b \in PortId,
                       peer'[a] = b, peer[a] # b
                PROVE  peer[a] = None \/ peer[b] = None
    BY <1>1 DEF NewCableEndsFree
  <2>1. ASSUME NEW p \in PortId, NEW q \in PortId \cup {None},
               Connectable(p, q), Connect(p, q)
        PROVE  peer[a] = None \/ peer[b] = None
    BY <1>1, <2>1, NoneAssumption DEF IInv, TypeOK, Symmetric, Connectable, Connect
  <2>2. CASE PortStep
    BY <1>1, <2>1, <2>2, NoneAssumption
    DEF PortStep, CreatePort, UpdatePort, DeletePort, IInv, TypeOK
  <2>3. CASE NICStep
    BY <2>3 DEF NICStep, CreateNIC, UpdateNIC, DeleteNIC, portVars
  <2>4. CASE \E P \in SUBSET PortId, o \in Owner : GeneratePorts(P, o)
    BY <2>4 DEF GeneratePorts
  <2>. QED  BY <2>2, <2>3, <2>4 DEF Next
<1>. QED  BY <1>1, Invariance, PTL DEF Spec, NeverRecabled

-----------------------------------------------------------------------------
(* The tables implement Cabling. *)

LEMMA CablesMatch == TypeOK /\ Symmetric => Plant!IsMatching(ports, Cables)
<1>. SUFFICES ASSUME TypeOK, Symmetric PROVE Plant!IsMatching(ports, Cables)
  OBVIOUS
<1>1. \A c \in Cables : \E p \in ports : peer[p] # None /\ c = {p, peer[p]}
  BY DEF Cables
<1>2. ASSUME NEW c \in Cables
      PROVE  \E p, q \in ports : p # q /\ c = {p, q}
  <2>1. PICK p \in ports : peer[p] # None /\ c = {p, peer[p]}
    BY <1>1, <1>2
  <2>2. peer[p] \in ports /\ peer[p] # p
    BY <2>1, NoneAssumption DEF TypeOK, Symmetric
  <2>. QED  BY <2>1, <2>2
<1>3. ASSUME NEW c \in Cables, NEW d \in Cables, c \cap d # {}
      PROVE  c = d
  <2>1. PICK p \in ports : peer[p] # None /\ c = {p, peer[p]}
    BY <1>1, <1>3
  <2>2. PICK r \in ports : peer[r] # None /\ d = {r, peer[r]}
    BY <1>1, <1>3
  <2>3. peer[peer[p]] = p /\ peer[peer[r]] = r
    BY <2>1, <2>2 DEF TypeOK, Symmetric
  <2>4. p = r \/ p = peer[r] \/ peer[p] = r \/ peer[p] = peer[r]
    BY <1>3, <2>1, <2>2
  <2>5. p = r \/ (p = peer[r] /\ r = peer[p])
    BY <2>3, <2>4
  <2>. QED  BY <2>1, <2>2, <2>5
<1>. QED  BY <1>2, <1>3 DEF Plant!IsMatching

\* Connecting p to q is plugging a cable, or pulling one when q is None.
LEMMA ConnectIsPlug ==
  ASSUME TypeOK, Symmetric, NEW p \in PortId, NEW q \in PortId \cup {None},
         ports' = ports \cup {p}, Connectable(p, q), Connect(p, q)
  PROVE  /\ q # None => Plant!Plug(p, q)
         /\ q = None => Cables' = Plant!Uncabled(p)
<1>1. /\ peer \in [PortId -> PortId \cup {None}]
      /\ peer' \in [PortId -> PortId \cup {None}]
      /\ None \notin PortId
  BY NoneAssumption DEF TypeOK, Connect
<1>2. \A c : c \in Plant!Uncabled(p) <=>
        \E r \in ports : /\ r # p /\ peer[r] # p /\ peer[r] # None
                         /\ c = {r, peer[r]}
  BY DEF Plant!Uncabled, Cables
<1>3. \A c : c \in Cables' <=>
        \E r \in ports \cup {p} : peer'[r] # None /\ c = {r, peer'[r]}
  BY DEF Cables
<1>4. ASSUME NEW r \in PortId, r # p, r # q
      PROVE  /\ peer'[r] # None <=> peer[r] \notin {p, None}
             /\ peer[r] # p => peer'[r] = peer[r]
  BY <1>1, <1>4 DEF Connect
<1>5. CASE q = None
  <2>1. peer'[p] = None
    BY <1>5 DEF Connect
  <2>2. \A c : c \in Cables' <=> c \in Plant!Uncabled(p)
    BY <1>1, <1>2, <1>3, <1>4, <1>5, <2>1 DEF TypeOK
  <2>. QED  BY <1>5, <2>2
<1>6. CASE q # None
  <2>1. /\ q \in ports \ {p} /\ peer[q] \in {None, p}
        /\ peer'[p] = q /\ peer'[q] = p
    BY <1>1, <1>6 DEF Connectable, Connect
  <2>2. \A c : c \in Cables' <=> c \in Plant!Uncabled(p) \cup {{p, q}}
    <3>1. ASSUME NEW c, c \in Cables'
          PROVE  c \in Plant!Uncabled(p) \cup {{p, q}}
      <4>1. PICK r \in ports \cup {p} : peer'[r] # None /\ c = {r, peer'[r]}
        BY <1>3, <3>1
      <4>2. CASE r = p \/ r = q
        BY <2>1, <4>1, <4>2
      <4>3. CASE r # p /\ r # q
        BY <1>2, <1>4, <4>1, <4>3 DEF TypeOK
      <4>. QED  BY <4>2, <4>3
    <3>2. ASSUME NEW c, c \in Plant!Uncabled(p)
          PROVE  c \in Cables'
      <4>1. PICK r \in ports : /\ r # p /\ peer[r] # p /\ peer[r] # None
                               /\ c = {r, peer[r]}
        BY <1>2, <3>2
      <4>2. r # q
        BY <2>1, <4>1
      <4>. QED  BY <1>3, <1>4, <4>1, <4>2 DEF TypeOK
    <3>3. {p, q} \in Cables'
      BY <1>1, <1>3, <1>6, <2>1
    <3>. QED  BY <3>1, <3>2, <3>3
  <2>3. ASSUME NEW c \in Cables, q \in c
        PROVE  c = {p, q}
    <3>1. PICK r \in ports : peer[r] # None /\ c = {r, peer[r]}
      BY <2>3 DEF Cables
    <3>2. CASE q = r
      BY <2>1, <3>1, <3>2
    <3>3. CASE q = peer[r]
      BY <1>1, <2>1, <3>1, <3>3 DEF Symmetric, TypeOK
    <3>. QED  BY <2>3, <3>1, <3>2, <3>3
  <2>. QED  BY <1>6, <2>1, <2>2, <2>3 DEF Plant!Plug
<1>. QED  BY <1>5, <1>6

\* A port that is not in the table is on no cable.
LEMMA AbsentIsUncabled ==
  ASSUME TypeOK, Symmetric, NEW p \in PortId \ ports
  PROVE  Plant!Uncabled(p) = Cables
<1>1. \A r \in ports : peer[r] # p
  BY NoneAssumption DEF TypeOK, Symmetric
<1>. QED  BY <1>1 DEF Plant!Uncabled, Cables

\* The cables after an import are those that the rows of the file name.
LEMMA ImportIsReplace ==
  ASSUME IInv, IInv', NEW f \in Files, Import(f)
  PROVE  FilePlant(f) \in FilePlants /\ Plant!Replace(FilePlant(f))
<1>1. IsFile(f) /\ Accepted(f) /\ Pairable(f) /\ ValidPorts(f)
  BY FilesAssumption DEF Import, Accepted
<1>2. f.ports \subseteq PortId /\ None \notin f.ports
  BY <1>1, NoneAssumption DEF IsFile
<1>3. Paired(f) \in [f.ports -> f.ports \cup {None}]
  BY <1>1, PairedIsSymmetric
<1>4. ports' = f.ports /\ \A p \in f.ports : peer'[p] = Paired(f)[p]
  BY <1>2, <1>3 DEF Import, Column
<1>5. \A p, q \in f.ports : Paired(f)[p] = q <=> Linked(f, p, q)
  BY <1>1, PairedIsLinked
<1>6. \A c : c \in Cables' <=> \E p \in f.ports : peer'[p] # None /\ c = {p, peer'[p]}
  BY <1>4 DEF Cables
<1>7. \A c : c \in FilePlant(f).cables <=>
                \E p, q \in f.ports : Linked(f, p, q) /\ c = {p, q}
  BY DEF FilePlant
<1>8. \A c : c \in Cables' <=> c \in FilePlant(f).cables
  <2>1. ASSUME NEW c, c \in Cables'
        PROVE  c \in FilePlant(f).cables
    <3>1. PICK p \in f.ports : peer'[p] # None /\ c = {p, peer'[p]}
      BY <1>6, <2>1
    <3>2. peer'[p] \in f.ports /\ Linked(f, p, peer'[p])
      BY <1>3, <1>4, <1>5, <3>1
    <3>. QED  BY <1>7, <3>1, <3>2
  <2>2. ASSUME NEW c, c \in FilePlant(f).cables
        PROVE  c \in Cables'
    <3>1. PICK p \in f.ports, q \in f.ports : Linked(f, p, q) /\ c = {p, q}
      BY <1>7, <2>2
    <3>2. peer'[p] = q
      BY <1>4, <1>5, <3>1
    <3>. QED  BY <1>2, <1>6, <3>1, <3>2
  <2>. QED  BY <2>1, <2>2
<1>9. FilePlant(f).ends = f.ports /\ FilePlant(f).cables = Cables'
  <2>1. FilePlant(f).cables = Cables'
    BY <1>8
  <2>. QED  BY <2>1 DEF FilePlant
<1>10. (TypeOK /\ Symmetric => Plant!IsMatching(ports, Cables))'
  BY CablesMatch, PTL
<1>11. Plant!IsMatching(ports', Cables')
  BY <1>10 DEF IInv, Plant!IsMatching
<1>12. FilePlant(f) \in FilePlants
  BY <1>1 DEF FilePlants
<1>. QED  BY <1>4, <1>9, <1>11, <1>12 DEF Plant!Replace

\* A write acts on the cables of its own port, an import as its file says.
LEMMA PlantStep ==
  ASSUME IInv, IInv', [Next]_vars
  PROVE  /\ [Plant!Next]_<<ports, Cables>>
         /\ [OthersCablesStay]_<<ports, Cables>>
<1>. USE DEF IInv
<1>1. ASSUME ports' = ports, peer' = peer
      PROVE  UNCHANGED <<ports, Cables>>
  BY <1>1 DEF Cables
<1>2. ASSUME NEW p \in PortId, NEW o \in Owner, NEW n \in NICId \cup {None},
             NEW q \in PortId \cup {None}, CreatePort(p, o, n, q)
      PROVE  Plant!Write
  <2>1. /\ q # None => Plant!Plug(p, q)
        /\ q = None => Cables' = Plant!Uncabled(p)
    BY <1>2, ConnectIsPlug DEF CreatePort
  <2>2. p \notin ports /\ ports' = ports \cup {p}
    BY <1>2 DEF CreatePort, RowsOnly
  <2>3. CASE q = None
    <3>1. Cables' = Cables
      BY <2>1, <2>2, <2>3, AbsentIsUncabled
    <3>2. Plant!Install({p})
      BY <2>2, <3>1 DEF Plant!Install
    <3>. QED  BY <3>2 DEF Plant!Write
  <2>4. CASE q # None
    BY <2>1, <2>4 DEF Plant!Write
  <2>. QED  BY <2>3, <2>4
<1>3. ASSUME NEW p \in PortId, NEW o \in Owner, NEW n \in NICId \cup {None},
             NEW q \in PortId \cup {None}, UpdatePort(p, o, n, q)
      PROVE  Plant!Write
  <2>1. p \in ports /\ ports' = ports /\ ports' = ports \cup {p}
    BY <1>3 DEF UpdatePort
  <2>2. /\ q # None => Plant!Plug(p, q)
        /\ q = None => Cables' = Plant!Uncabled(p)
    BY <1>3, <2>1, ConnectIsPlug DEF UpdatePort
  <2>3. CASE q = None
    BY <2>1, <2>2, <2>3 DEF Plant!Write, Plant!Unplug
  <2>4. CASE q # None
    BY <2>2, <2>4 DEF Plant!Write
  <2>. QED  BY <2>3, <2>4
<1>4. ASSUME NEW p \in PortId, DeletePort(p)
      PROVE  Plant!Write
  <2>1. \A r \in PortId :
          /\ peer'[r] # None <=> r # p /\ peer[r] # p /\ peer[r] # None
          /\ peer'[r] # None => peer'[r] = peer[r]
    BY <1>4 DEF DeletePort, TypeOK
  <2>2. ports \subseteq PortId /\ p \in ports /\ ports' = ports \ {p}
    BY <1>4 DEF DeletePort, TypeOK
  <2>3. \A c : c \in Plant!Uncabled(p) <=>
          \E r \in ports : /\ r # p /\ peer[r] # p /\ peer[r] # None
                           /\ c = {r, peer[r]}
    BY DEF Plant!Uncabled, Cables
  <2>4. \A c : c \in Cables' <=>
          \E r \in ports \ {p} : peer'[r] # None /\ c = {r, peer'[r]}
    BY <2>2 DEF Cables
  <2>5. \A c : c \in Cables' <=> c \in Plant!Uncabled(p)
    BY <2>1, <2>2, <2>3, <2>4
  <2>6. Plant!Remove(p)
    BY <2>2, <2>5 DEF Plant!Remove
  <2>. QED  BY <2>2, <2>6 DEF Plant!Write
<1>5. CASE NICStep
  BY <1>1, <1>5 DEF NICStep, CreateNIC, UpdateNIC, DeleteNIC, portVars
<1>6. ASSUME NEW P \in SUBSET PortId, NEW o \in Owner, GeneratePorts(P, o)
      PROVE  Plant!Write
  <2>1. ports' = ports \cup P /\ P \subseteq PortId \ ports /\ peer' = peer
    BY <1>6 DEF GeneratePorts, RowsOnly
  <2>2. \A p \in P : peer[p] = None
    BY <2>1 DEF RowsOnly
  <2>3. Cables' = Cables
    BY <2>1, <2>2 DEF Cables
  <2>. QED  BY <2>1, <2>3 DEF Plant!Write, Plant!Install
<1>7. CASE \E f \in Files : Import(f)
  <2>1. Plant!Next
    BY <1>7, ImportIsReplace DEF Plant!Next
  <2>. QED  BY <1>7, <2>1 DEF OthersCablesStay
<1>8. CASE UNCHANGED vars
  BY <1>1, <1>8 DEF vars, portVars
<1>9. Plant!Write => Plant!Next /\ OthersCablesStay
  BY DEF Plant!Next, OthersCablesStay
<1>. QED
  BY <1>2, <1>3, <1>4, <1>5, <1>6, <1>7, <1>8, <1>9 DEF Next, PortStep

(***************************************************************************)
(* Every behaviour of the tables is one of the plant, for whatever files    *)
(* there are: a step that is not an import moves cables of the port it      *)
(* names to a free one and leaves the others where they are, and an import  *)
(* ends in the cables that its file's rows name.                            *)
(***************************************************************************)
THEOREM TablesImplementCabling == Spec => CablingSpec
<1>1. Init => Plant!Init
  BY DEF Init, Plant!Init, Cables
<1>. QED
  BY <1>1, Invariance, PlantStep, PTL DEF Spec, CablingSpec, Plant!Spec

-----------------------------------------------------------------------------
(* In every reachable state the export can be imported and gives the same   *)
(* links and attributions back.                                             *)
THEOREM ExportsRoundTrip == Spec => []ExportRoundTrips
<1>1. ASSUME IInv, NEW pos \in Orders(ports)
      PROVE  RoundTrips(ExportOf(pos))
  <2>. DEFINE e == ExportOf(pos)
  <2>1. /\ e.ports = ports /\ e.pos = pos
        /\ e.owner = [p \in ports |-> owner[p]]
        /\ e.nic = [p \in ports |-> nicOf[p]]
        /\ e.peer = [p \in ports |-> peer[p]]
        /\ e.nicHost = [n \in nics |-> nicHost[n]]
    BY DEF ExportOf
  <2>. HIDE DEF e
  <2>. USE <1>1, NoneAssumption, OwnerAssumption DEF IInv, TypeOK
  <2>2. \A p, q \in ports : Linked(e, p, q) <=> peer[p] = q
    BY <2>1 DEF Linked, Symmetric
  <2>3. Pairable(e)
    BY <2>1 DEF Pairable, Symmetric
  <2>4. Paired(e) = [p \in ports |-> peer[p]]
    <3>1. ASSUME NEW p \in ports
          PROVE  (IF \E q \in ports : Linked(e, p, q)
                  THEN CHOOSE q \in ports : Linked(e, p, q)
                  ELSE None) = peer[p]
      BY <2>2, <3>1 DEF Symmetric
    <3>. QED  BY <2>1, <3>1 DEF Paired
  <2>5. NICsAgree(e) /\ Attributed(e) = [p \in ports |-> nicOf[p]]
    BY <2>1 DEF NICsAgree, Attributed, NICInOwnersMachine
  <2>6. ValidPorts(e)
    BY <2>1 DEF ValidPorts, ValidPort, Symmetric, NICInOwnersMachine, RowsOnly
  <2>7. /\ Column(PortId, e.owner) = owner
        /\ Column(PortId, Attributed(e)) = nicOf
        /\ Column(PortId, Paired(e)) = peer
        /\ Column(NICId, e.nicHost) = nicHost
    BY <2>1, <2>4, <2>5 DEF Column, RowsOnly
  <2>. QED  BY <2>3, <2>5, <2>6, <2>7 DEF RoundTrips, Accepted, e
<1>2. IInv => ExportRoundTrips
  BY <1>1 DEF ExportRoundTrips
<1>. QED  BY Invariance, <1>2, PTL

(***************************************************************************)
(* After any sequence of writes and imports both tables are consistent:     *)
(* links hold on both ends and NICs are in the machine that owns the port.  *)
(***************************************************************************)
THEOREM TablesAreConsistent == Spec => []TablesConsistent
<1>1. TypeOK /\ LinkSymmetry /\ NICInOwnersMachine => TablesConsistent
  BY DEF TablesConsistent
<1>. QED  BY <1>1, TypeCorrect, LinksAreSymmetric, NICsAreInOwnersMachine, PTL
=============================================================================
