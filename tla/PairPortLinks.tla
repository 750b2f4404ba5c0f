---------------------------- MODULE PairPortLinks ----------------------------
(***************************************************************************)
(* The loop of pairPortLinks (internal/store/portability.go), one step per  *)
(* port of the file. The loop reads and writes both ends of a link while it *)
(* walks the file once, so what a step sees of the other end depends on     *)
(* which of the two the file lists first.                                   *)
(***************************************************************************)
EXTENDS PortFile

CONSTANT Files   \* the files the loop is run on

ASSUME FilesAssumption == \A f \in Files : IsFile(f) /\ ValidPorts(f)

VARIABLES
  file,     \* the file, as read (validateAll has passed)
  out,      \* peer_port_id of the copy the loop edits
  todo,     \* ports the loop has not reached yet
  cleared,  \* links cleared so far
  failed    \* the loop returned an error

vars == <<file, out, todo, cleared, failed>>

Init ==
  /\ file \in Files
  /\ out = file.peer
  /\ todo = file.ports
  /\ cleared = 0
  /\ failed = FALSE

IsNext(p) == p \in todo /\ \A q \in todo : file.pos[p] <= file.pos[q]

\* The port has no peer, or its peer already names it back.
Keep(p) ==
  /\ IsNext(p) /\ ~failed
  /\ \/ out[p] = None
     \/ out[p] \in file.ports /\ out[out[p]] = p
  /\ todo' = todo \ {p}
  /\ UNCHANGED <<file, out, cleared, failed>>

Clear(p) ==
  /\ IsNext(p) /\ ~failed
  /\ out[p] # None /\ out[p] \notin file.ports
  /\ out' = [out EXCEPT ![p] = None]
  /\ cleared' = cleared + 1
  /\ todo' = todo \ {p}
  /\ UNCHANGED <<file, failed>>

\* Faulty: the other end is not written.
CompleteNothing(p) ==
  /\ IsNext(p) /\ ~failed
  /\ out[p] \in file.ports /\ out[out[p]] = None
  /\ todo' = todo \ {p}
  /\ UNCHANGED <<file, out, cleared, failed>>

\* Faulty: the other end is overwritten whatever it names.
CompleteAnyway(p) ==
  /\ IsNext(p) /\ ~failed
  /\ out[p] \in file.ports /\ out[out[p]] # p
  /\ out' = [out EXCEPT ![out[p]] = p]
  /\ todo' = todo \ {p}
  /\ UNCHANGED <<file, cleared, failed>>

Complete(p) ==
  /\ IsNext(p) /\ ~failed
  /\ out[p] \in file.ports /\ out[out[p]] = None
  /\ out' = [out EXCEPT ![out[p]] = p]
  /\ todo' = todo \ {p}
  /\ UNCHANGED <<file, cleared, failed>>

Fail(p) ==
  /\ IsNext(p) /\ ~failed
  /\ out[p] \in file.ports /\ out[out[p]] \notin {p, None}
  /\ failed' = TRUE
  /\ UNCHANGED <<file, out, todo, cleared>>

Step(p) == Keep(p) \/ Clear(p) \/ Complete(p) \/ Fail(p)

Next == \E p \in file.ports : Step(p)

Spec == Init /\ [][Next]_vars

Returned == failed \/ todo = {}

-----------------------------------------------------------------------------
TypeOK ==
  /\ IsFile(file)
  /\ out \in [file.ports -> PortId \cup {None}]
  /\ todo \in SUBSET file.ports
  /\ cleared \in Nat
  /\ failed \in BOOLEAN

(***************************************************************************)
(* Every port the loop has passed is unlinked or linked on both ends,       *)
(* whatever later iterations write: the promise of the comment on           *)
(* pairPortLinks, "every link is stored on both ends".                      *)
(***************************************************************************)
PassedPortsPaired ==
  \A p \in file.ports \ todo :
    out[p] # None => out[p] \in file.ports /\ out[out[p]] = p

\* The loop computes what PortFile states without a loop: it fails on exactly
\* the files that are not pairable, and returns Paired on the others.
LoopMeetsReference ==
  Returned =>
    /\ failed <=> ~Pairable(file)
    /\ ~failed => out = Paired(file)

\* The count reported in the import's changelog row is the number of links to
\* ports the file lacks; a completed link is never counted.
ClearedAreDangling ==
  Returned /\ ~failed =>
    cleared = Cardinality({p \in file.ports : Dangling(file, p)})

(***************************************************************************)
(* The loop does to a file what the reference says, and reports what it      *)
(* did: the same failure, the same links, the right count.                   *)
(***************************************************************************)
LoopMeetsItsReference == TypeOK /\ LoopMeetsReference /\ ClearedAreDangling

(***************************************************************************)
(* docs/export-import.md: a port's connection to something the file does    *)
(* not contain "is cleared and counted", and it is "two ports connected to  *)
(* the same port" that fail the import. So a failure needs a port that two  *)
(* others are linked to.                                                    *)
(***************************************************************************)
FailsOnlyOnSharedPeer ==
  failed =>
    \E p, q, r \in file.ports :
      q # r /\ Linked(file, p, q) /\ Linked(file, p, r)
=============================================================================
