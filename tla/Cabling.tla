------------------------------- MODULE Cabling -------------------------------
(***************************************************************************)
(* What the port table promises, without its columns: a set of port ends    *)
(* and a set of cables, each joining two of them, no end with two cables.   *)
(* (docs/inventory-model.md: "A port has one cable".) A write touches the   *)
(* cables of the port it is about and no other; only an import replaces the *)
(* plant, by one of those that files describe. PortLinks implements it: see *)
(* CablingSpec there.                                                       *)
(***************************************************************************)
CONSTANTS
  PortId,
  Plants    \* what files describe: records of ends and cables

VARIABLES
  ends,     \* ports that exist
  cables    \* set of two-element sets of ports

IsMatching(E, C) ==
  /\ \A c \in C : \E p, q \in E : p # q /\ c = {p, q}
  /\ \A c, d \in C : c \cap d # {} => c = d

Init == ends = {} /\ cables = {}

Uncabled(p) == {c \in cables : p \notin c}

\* Ports appear without a cable.
Install(E) ==
  /\ ends' = ends \cup E
  /\ E \subseteq PortId \ ends
  /\ UNCHANGED cables

\* A new or an existing port p is cabled to q, which is free or already
\* cabled to p. p's previous cable is gone, and no other.
Plug(p, q) ==
  /\ q \in ends \ {p}
  /\ \A c \in cables : q \in c => c = {p, q}
  /\ ends' = ends \cup {p}
  /\ cables' = Uncabled(p) \cup {{p, q}}

Unplug(p) ==
  /\ cables' = Uncabled(p)
  /\ UNCHANGED ends

Remove(p) ==
  /\ ends' = ends \ {p}
  /\ cables' = Uncabled(p)

\* A request about one port, or a batch of new ones.
Write ==
  \/ \E E \in SUBSET PortId : Install(E)
  \/ \E p, q \in PortId : Plug(p, q)
  \/ \E p \in ends : Unplug(p) \/ Remove(p)

\* An import puts the plant of its file in place, cable for cable.
Replace(plant) ==
  /\ IsMatching(plant.ends, plant.cables)
  /\ ends' = plant.ends
  /\ cables' = plant.cables

Next == Write \/ \E plant \in Plants : Replace(plant)

Spec == Init /\ [][Next]_<<ends, cables>>
=============================================================================
