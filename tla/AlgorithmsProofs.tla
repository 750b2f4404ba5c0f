-------------------------- MODULE AlgorithmsProofs --------------------------
(***************************************************************************)
(* Proofs about the parts of Algorithms: the loop of pairPortLinks, for     *)
(* every set of files; Migrate, for any number of processes and of starts   *)
(* of any releases that die at any moment; the scan of a network, for any   *)
(* number of workers and addresses; the gates of a request, for every       *)
(* request; manual discovery, for any number of tabs and any cluster; and   *)
(* what the pages and reports show, for every content of the tables:        *)
(* address management, elevations, impact, duplicates and lists.            *)
(*                                                                          *)
(* The recursive functions (Size, the walk of Impact, the list of           *)
(* FilterSort) are shown to be defined from the numbers being well founded, *)
(* and what is true at each step of them by looking at the least step that  *)
(* would be wrong.                                                          *)
(***************************************************************************)
EXTENDS Algorithms, FiniteSetTheorems, WellFoundedInduction, TLAPS

-----------------------------------------------------------------------------
(* pairPortLinks (PairPortLinks)                                             *)

LEMMA PairsInitOK == Init => TypeOK /\ PassedPortsPaired
<1>. SUFFICES ASSUME Init PROVE TypeOK /\ PassedPortsPaired
  OBVIOUS
<1>1. IsFile(file)
  BY FilesAssumption DEF Init
<1>2. file.peer \in [file.ports -> PortId \cup {None}]
  BY <1>1 DEF IsFile
<1>. QED  BY <1>1, <1>2 DEF Init, TypeOK, PassedPortsPaired

LEMMA PairsStepOK ==
  ASSUME TypeOK, PassedPortsPaired, NEW p \in file.ports, Step(p)
  PROVE  TypeOK' /\ PassedPortsPaired'
<1>. USE DEF TypeOK
<1>1. None \notin file.ports /\ file.ports \subseteq PortId
  BY NoneAssumption DEF IsFile
<1>2. CASE Keep(p)
  BY <1>2 DEF Keep, PassedPortsPaired
<1>3. CASE Clear(p)
  \* No passed port is linked to p: p's peer would be a port of the file.
  <2>1. \A r \in file.ports \ todo : out[r] # p
    BY <1>1, <1>3 DEF Clear, PassedPortsPaired
  <2>. QED  BY <1>3, <2>1 DEF Clear, PassedPortsPaired
<1>4. CASE Complete(p)
  \* No passed port is linked to p's peer, which was free.
  <2>1. \A r \in file.ports \ todo : out[r] # out[p]
    BY <1>1, <1>4 DEF Complete, PassedPortsPaired
  <2>2. out[p] # p
    BY <1>1, <1>4 DEF Complete
  <2>. QED  BY <1>1, <1>4, <2>1, <2>2 DEF Complete, PassedPortsPaired
<1>5. CASE Fail(p)
  BY <1>5 DEF Fail, PassedPortsPaired
<1>. QED  BY <1>2, <1>3, <1>4, <1>5 DEF Step

LEMMA PairsInvariance == Spec => [](TypeOK /\ PassedPortsPaired)
<1>1. TypeOK /\ PassedPortsPaired /\ [Next]_vars => (TypeOK /\ PassedPortsPaired)'
  <2>1. ASSUME TypeOK, PassedPortsPaired, UNCHANGED vars
        PROVE  TypeOK' /\ PassedPortsPaired'
    BY <2>1 DEF TypeOK, PassedPortsPaired, vars
  <2>. QED  BY PairsStepOK, <2>1 DEF Next
<1>. QED  BY PairsInitOK, <1>1, PTL DEF Spec

(* Whatever the file and its order, a port the loop has passed stays        *)
(* unlinked or linked on both ends; so when the loop returns without an     *)
(* error, so is every port of the file.                                     *)
THEOREM LoopPairsPassedPorts == Spec => []PassedPortsPaired
BY PairsInvariance, PTL
-----------------------------------------------------------------------------
(* The loop and the reference                                                *)

Done == file.ports \ todo

\* A peer is as the file has it, or was cleared, or was completed by a port
\* that the loop has passed.
AsRead(p) == out[p] = file.peer[p] /\ (p \in Done => ~Dangling(file, p))
Cut(p) == out[p] = None /\ Dangling(file, p) /\ p \in Done
Completed(p) ==
  /\ out[p] \in Done /\ file.peer[out[p]] = p
  /\ \/ file.peer[p] = None
     \/ Dangling(file, p) /\ file.pos[p] < file.pos[out[p]]

InOrder == \A p \in todo, q \in Done : file.pos[q] < file.pos[p]
Accounted == \A p \in file.ports : AsRead(p) \/ Cut(p) \/ Completed(p)
Kept == \A p \in Done : file.peer[p] \in file.ports =>
          out[p] = file.peer[p] /\ out[file.peer[p]] = p
Counted == cleared = Cardinality({p \in Done : Dangling(file, p)})

LoopInv ==
  /\ TypeOK /\ PassedPortsPaired
  /\ InOrder /\ Accounted /\ Kept /\ Counted
  /\ failed => ~Pairable(file)

\* What IsFile gives the steps below.
LEMMA FileFacts ==
  ASSUME TypeOK
  PROVE  /\ None \notin file.ports
         /\ file.pos \in [file.ports -> Int]
         /\ \A p, q \in file.ports : file.pos[p] = file.pos[q] => p = q
         /\ out \in [file.ports -> PortId \cup {None}]
         /\ file.peer \in [file.ports -> PortId \cup {None}]
         /\ todo \subseteq file.ports
<1>1. file.pos \in [file.ports -> 1 .. Cardinality(file.ports)]
  BY DEF TypeOK, IsFile, Orders
<1>. QED  BY <1>1, NoneAssumption DEF TypeOK, IsFile, Orders

\* The port the loop is at: what the passed ports can have written to it.
LEMMA NextPort ==
  ASSUME LoopInv, NEW p \in file.ports, IsNext(p)
  PROVE  /\ p \in todo
         /\ \A q \in Done : file.pos[q] < file.pos[p]
         /\ \A q \in file.ports : file.pos[q] < file.pos[p] => q \in Done
         /\ ~Cut(p)
         /\ Completed(p) => file.peer[p] = None /\ out[out[p]] = p
<1>. USE FileFacts DEF LoopInv
<1>1. p \in todo /\ p \notin Done
  BY DEF IsNext, Done
<1>2. \A q \in Done : file.pos[q] < file.pos[p]
  BY <1>1 DEF InOrder
<1>3. ASSUME NEW q \in file.ports, file.pos[q] < file.pos[p] PROVE q \in Done
  BY <1>3 DEF IsNext, Done
<1>4. ~Cut(p)
  BY <1>1 DEF Cut
<1>5. ASSUME Completed(p) PROVE file.peer[p] = None /\ out[out[p]] = p
  <2>. DEFINE q == out[p]
  <2>1. q \in Done /\ file.peer[q] = p /\ q \in file.ports
    BY <1>5 DEF Completed, Done
  <2>2. out[q] = p
    BY <2>1 DEF Kept
  <2>3. ~(file.pos[p] < file.pos[q])
    BY <1>2, <2>1
  <2>. QED  BY <1>5, <2>2, <2>3 DEF Completed
<1>. QED  BY <1>1, <1>2, <1>3, <1>4, <1>5 DEF Done

\* The count goes with the ports that are passed.
LEMMA PassCounts ==
  ASSUME LoopInv, IsFiniteSet(PortId), NEW p \in file.ports, p \in todo, file' = file,
         todo' = todo \ {p}, cleared' = cleared + (IF Dangling(file, p) THEN 1 ELSE 0)
  PROVE  Counted'
<1>. DEFINE C == {q \in Done : Dangling(file, q)}
<1>1. C \in SUBSET PortId /\ p \notin C
  BY DEF LoopInv, TypeOK, IsFile, Done
<1>2. IsFiniteSet(C) /\ Cardinality(C) \in Nat
  BY <1>1, FS_Subset, FS_CardinalityType
<1>3. {q \in Done : Dangling(file, q)}' = IF Dangling(file, p) THEN C \cup {p} ELSE C
  BY DEF Done, Dangling, LoopInv, TypeOK
<1>4. cleared = Cardinality(C)
  BY DEF LoopInv, Counted
<1>. HIDE DEF C
<1>5. Cardinality(C \cup {p}) = Cardinality(C) + 1
  BY <1>1, <1>2, FS_AddElement
<1>6. Counted' <=> cleared' = Cardinality(IF Dangling(file, p) THEN C \cup {p} ELSE C)
  BY <1>3 DEF Counted
<1>. QED  BY <1>2, <1>4, <1>5, <1>6

\* The loop goes on to the next port: the order stays.
LEMMA PassInOrder ==
  ASSUME LoopInv, NEW p \in file.ports, IsNext(p), file' = file, todo' = todo \ {p}
  PROVE  InOrder' /\ Done' = Done \cup {p}
<1>. USE FileFacts DEF LoopInv
<1>1. Done' = Done \cup {p}
  BY DEF Done, IsNext
<1>2. ASSUME NEW q \in todo \ {p} PROVE file.pos[p] < file.pos[q]
  BY <1>2 DEF IsNext
<1>. QED  BY <1>1, <1>2 DEF InOrder, Done

LEMMA KeepLoop ==
  ASSUME LoopInv, IsFiniteSet(PortId), NEW p \in file.ports, Keep(p)
  PROVE  InOrder' /\ Accounted' /\ Kept' /\ Counted'
<1>. USE FileFacts DEF LoopInv
<1>1. IsNext(p) /\ file' = file /\ out' = out /\ todo' = todo \ {p} /\ cleared' = cleared
  BY DEF Keep
<1>2. InOrder' /\ Done' = Done \cup {p}
  BY <1>1, PassInOrder
<1>3. AsRead(p) \/ (Completed(p) /\ file.peer[p] = None)
  <2>1. AsRead(p) \/ Cut(p) \/ Completed(p)
    BY DEF Accounted
  <2>2. ~Cut(p) /\ (Completed(p) => file.peer[p] = None)
    BY <1>1, NextPort
  <2>. QED  BY <2>1, <2>2, Zenon
<1>4. ~Dangling(file, p)
  BY <1>3 DEF Keep, AsRead, Dangling
<1>5. Accounted'
  BY <1>1, <1>2, <1>4 DEF Accounted, AsRead, Cut, Completed, Dangling
<1>6. Kept'
  BY <1>1, <1>2, <1>3 DEF Kept, Keep, AsRead
<1>7. cleared \in Nat /\ p \in todo
  BY <1>1 DEF TypeOK, IsNext
<1>8. Counted'
  BY <1>1, <1>4, <1>7, PassCounts
<1>. QED  BY <1>2, <1>5, <1>6, <1>8

LEMMA ClearLoop ==
  ASSUME LoopInv, IsFiniteSet(PortId), NEW p \in file.ports, Clear(p)
  PROVE  InOrder' /\ Accounted' /\ Kept' /\ Counted'
<1>. USE FileFacts DEF LoopInv
<1>1. /\ IsNext(p) /\ file' = file /\ out' = [out EXCEPT ![p] = None]
      /\ todo' = todo \ {p} /\ cleared' = cleared + 1
  BY DEF Clear
<1>2. InOrder' /\ Done' = Done \cup {p}
  BY <1>1, PassInOrder
<1>3. Dangling(file, p)
  BY <1>1, NextPort DEF Accounted, AsRead, Completed, Clear, Dangling, Done
<1>4. \A q \in file.ports \ {p} : out'[q] = out[q]
  BY <1>1
<1>5. \A q \in file.ports : out[q] = p => ~Completed(q)
  BY <1>1 DEF Completed, Done, IsNext
<1>6. Accounted'
  BY <1>1, <1>2, <1>3, <1>4, <1>5 DEF Accounted, AsRead, Cut, Completed, Dangling
<1>7. Kept'
  BY <1>1, <1>2, <1>3, <1>4 DEF Kept, Clear, Dangling, Done
<1>8. Counted'
  BY <1>1, <1>3, PassCounts DEF IsNext
<1>. QED  BY <1>2, <1>6, <1>7, <1>8

LEMMA CompleteLoop ==
  ASSUME LoopInv, IsFiniteSet(PortId), NEW p \in file.ports, Complete(p)
  PROVE  InOrder' /\ Accounted' /\ Kept' /\ Counted'
<1>. USE FileFacts DEF LoopInv
<1>0. PICK q \in file.ports : q = out[p]
  BY DEF Complete
<1>1. /\ IsNext(p) /\ file' = file /\ out' = [out EXCEPT ![q] = p]
      /\ todo' = todo \ {p} /\ cleared' = cleared /\ out[p] = q /\ out[q] = None
  BY <1>0 DEF Complete
<1>2. InOrder' /\ Done' = Done \cup {p}
  BY <1>1, PassInOrder
<1>3. file.peer[p] = q /\ q # p
  BY <1>1, NextPort DEF Accounted, AsRead
<1>4. ~Dangling(file, p)
  BY <1>1, <1>3 DEF Dangling
<1>5. file.peer[q] = None \/ (Dangling(file, q) /\ file.pos[q] < file.pos[p])
  <2>1. AsRead(q) \/ Cut(q) \/ Completed(q)
    BY DEF Accounted
  <2>2. ~Completed(q)
    BY <1>1 DEF Completed, Done
  <2>3. Cut(q) => q \in Done
    BY DEF Cut
  <2>4. \A r \in Done : file.pos[r] < file.pos[p]
    BY <1>1, NextPort
  <2>5. CASE AsRead(q)
    BY <1>1, <2>5 DEF AsRead
  <2>6. CASE Cut(q)
    BY <2>3, <2>4, <2>6 DEF Cut
  <2>. QED  BY <2>1, <2>2, <2>5, <2>6
<1>6. \A r \in file.ports \ {q} : out'[r] = out[r]
  BY <1>1
<1>7. out'[q] = p /\ out'[p] = q
  BY <1>1, <1>3, <1>6
<1>8. Accounted'
  <2>1. Completed(q)'
    BY <1>1, <1>2, <1>3, <1>5, <1>7 DEF Completed, Dangling
  <2>2. ASSUME NEW r \in file.ports \ {q} PROVE AsRead(r)' \/ Cut(r)' \/ Completed(r)'
    BY <1>1, <1>2, <1>4, <1>6 DEF Accounted, AsRead, Cut, Completed, Dangling
  <2>. QED  BY <1>1, <2>1, <2>2 DEF Accounted
<1>9. Kept'
  <2>1. ASSUME NEW r \in Done, file.peer[r] \in file.ports PROVE r # q /\ file.peer[r] # q
    BY <1>1, <2>1 DEF Kept, Done
  <2>. QED  BY <1>1, <1>2, <1>3, <1>6, <1>7, <2>1 DEF Kept, Done
<1>10. cleared \in Nat /\ p \in todo
  BY <1>1 DEF TypeOK, IsNext
<1>11. Counted'
  BY <1>1, <1>4, <1>10, PassCounts
<1>. QED  BY <1>2, <1>8, <1>9, <1>11

\* Where the loop fails, the file is not pairable.
LEMMA FailLoop ==
  ASSUME LoopInv, NEW p \in file.ports, Fail(p)
  PROVE  ~Pairable(file)
<1>. USE FileFacts DEF LoopInv
<1>. DEFINE q == out[p]
            x == out[q]
<1>1. IsNext(p) /\ q \in file.ports /\ x # p /\ x # None
  BY DEF Fail
<1>2. file.peer[p] = q
  BY <1>1, NextPort DEF Accounted, AsRead
<1>. HIDE DEF q
<1>3. SUFFICES ASSUME Pairable(file) PROVE FALSE
  OBVIOUS
<1>4. /\ file.peer[q] \in {p, None} \/ (Dangling(file, q) /\ file.pos[q] < file.pos[p])
      /\ \A r \in file.ports : file.peer[r] = q => r = p
  <2>. DEFINE P(a, b) ==
         file.peer[a] = b =>
           /\ \/ file.peer[b] \in {a, None}
              \/ Dangling(file, b) /\ file.pos[b] < file.pos[a]
           /\ \A r \in file.ports : file.peer[r] = b => r = a
  <2>1. P(p, q)
    BY <1>1, <1>3 DEF Pairable
  <2>2. \/ file.peer[q] \in {p, None}
        \/ Dangling(file, q) /\ file.pos[q] < file.pos[p]
    BY <1>2, <2>1
  <2>3. \A r \in file.ports : file.peer[r] = q => r = p
    BY <1>2, <2>1
  <2>. QED  BY <2>2, <2>3
<1>5. CASE AsRead(q)
  BY <1>1, <1>4, <1>5, NextPort DEF AsRead
<1>6. CASE Completed(q)
  BY <1>1, <1>4, <1>6 DEF Completed, Done
<1>7. ~Cut(q)
  BY <1>1 DEF Cut
<1>. QED  BY <1>1, <1>5, <1>6, <1>7 DEF Accounted

LEMMA LoopInitOK == ASSUME Init PROVE LoopInv
<1>1. TypeOK /\ PassedPortsPaired
  BY PairsInitOK
<1>2. Done = {} /\ {p \in Done : Dangling(file, p)} = {}
  BY DEF Init, Done
<1>3. Counted
  BY <1>2, FS_EmptySet DEF Init, Counted
<1>. QED  BY <1>1, <1>2, <1>3 DEF Init, LoopInv, InOrder, Accounted, AsRead, Kept

LEMMA LoopInductive ==
  ASSUME IsFiniteSet(PortId), LoopInv, [Next]_vars
  PROVE  LoopInv'
<1>1. ASSUME NEW p \in file.ports, Step(p) PROVE LoopInv'
  <2>1. TypeOK' /\ PassedPortsPaired'
    BY <1>1, PairsStepOK DEF LoopInv
  <2>2. CASE Keep(p)
    BY <1>1, <2>1, <2>2, KeepLoop DEF LoopInv, Keep
  <2>3. CASE Clear(p)
    BY <1>1, <2>1, <2>3, ClearLoop DEF LoopInv, Clear
  <2>4. CASE Complete(p)
    BY <1>1, <2>1, <2>4, CompleteLoop DEF LoopInv, Complete
  <2>5. CASE Fail(p)
    <3>1. ~Pairable(file)
      BY <2>5, FailLoop
    <3>. QED  BY <2>1, <2>5, <3>1
         DEF LoopInv, Fail, InOrder, Accounted, AsRead, Cut, Completed, Kept, Counted, Done
  <2>. QED  BY <1>1, <2>2, <2>3, <2>4, <2>5 DEF Step
<1>2. ASSUME UNCHANGED vars PROVE LoopInv'
  <2>1. TypeOK' /\ PassedPortsPaired'
    BY <1>2 DEF LoopInv, TypeOK, PassedPortsPaired, vars
  <2>. QED  BY <1>2, <2>1
       DEF LoopInv, InOrder, Accounted, AsRead, Cut, Completed, Kept, Counted, Done, vars
<1>. QED  BY <1>1, <1>2 DEF Next

\* When all ports are passed, the peers are the reference's.
LEMMA LoopEnds ==
  ASSUME LoopInv, todo = {}, ~failed
  PROVE  Pairable(file) /\ out = Paired(file) /\ ClearedAreDangling
<1>. USE FileFacts DEF LoopInv
<1>1. Done = file.ports
  BY DEF Done
<1>2. ASSUME NEW p \in file.ports, NEW q \in file.ports
      PROVE  Linked(file, p, q) <=> out[p] = q
  BY <1>1 DEF Linked, Kept, Accounted, AsRead, Cut, Completed, Dangling
<1>3. Pairable(file)
  <2>1. SUFFICES ASSUME NEW p \in file.ports, NEW q \in file.ports, file.peer[p] = q
                 PROVE  /\ file.peer[q] \in {p, None} \/ (Dangling(file, q) /\ file.pos[q] < file.pos[p])
                        /\ \A r \in file.ports : file.peer[r] = q => r = p
    BY DEF Pairable
  <2>2. out[q] = p
    BY <1>1, <2>1 DEF Kept
  <2>3. \A r \in file.ports : file.peer[r] = q => r = p
    BY <1>1, <2>2 DEF Kept
  <2>4. AsRead(q) \/ Cut(q) \/ Completed(q)
    BY DEF Accounted
  <2>5. file.peer[q] \in {p, None} \/ (Dangling(file, q) /\ file.pos[q] < file.pos[p])
    <3>1. CASE AsRead(q)
      BY <2>2, <3>1 DEF AsRead
    <3>2. CASE Cut(q)
      BY <2>2, <3>2 DEF Cut
    <3>3. CASE Completed(q)
      BY <2>2, <3>3 DEF Completed
    <3>. QED  BY <2>4, <3>1, <3>2, <3>3
  <2>. QED  BY <2>3, <2>5
<1>4. out = Paired(file)
  <2>1. ASSUME NEW p \in file.ports PROVE out[p] = Paired(file)[p]
    <3>1. CASE out[p] \in file.ports
      BY <1>2, <3>1 DEF Paired
    <3>2. CASE out[p] \notin file.ports
      <4>1. out[p] = None
        BY <1>1, <3>2 DEF PassedPortsPaired, Done
      <4>2. ~\E q \in file.ports : Linked(file, p, q)
        BY <1>2, <3>2
      <4>. QED  BY <4>1, <4>2 DEF Paired
    <3>. QED  BY <3>1, <3>2
  <2>2. out = [p \in file.ports |-> out[p]]
    OBVIOUS
  <2>. QED  BY <2>1, <2>2 DEF Paired
<1>5. ClearedAreDangling
  BY <1>1 DEF ClearedAreDangling, Counted
<1>. QED  BY <1>3, <1>4, <1>5

LEMMA LoopInvIsEnough == LoopInv => LoopMeetsItsReference
<1>. SUFFICES ASSUME LoopInv PROVE LoopMeetsItsReference
  OBVIOUS
<1>1. CASE todo = {} /\ ~failed
  BY <1>1, LoopEnds DEF LoopInv, LoopMeetsItsReference, LoopMeetsReference, Returned
<1>2. CASE failed
  BY <1>2 DEF LoopInv, LoopMeetsItsReference, LoopMeetsReference, Returned, ClearedAreDangling
<1>3. CASE todo # {} /\ ~failed
  BY <1>3 DEF LoopInv, LoopMeetsItsReference, LoopMeetsReference, Returned, ClearedAreDangling
<1>. QED  BY <1>1, <1>2, <1>3 DEF LoopInv, TypeOK

(* For every set of finite files: the loop, which reads and writes both     *)
(* ends of a link as it walks the file once, fails on the files that the    *)
(* reference calls unpairable and on no others, computes the peers that the *)
(* reference gives the others, and counts the links to absent ports.        *)
THEOREM LoopIsItsReference ==
  ASSUME IsFiniteSet(PortId) PROVE Spec => []LoopMeetsItsReference
<1>1. LoopInv /\ [Next]_vars => LoopInv'
  BY LoopInductive
<1>2. Init => LoopInv
  BY LoopInitOK
<1>. QED  BY <1>1, <1>2, LoopInvIsEnough, PTL DEF Spec
-----------------------------------------------------------------------------
(***************************************************************************)
(* Migrate (Migrations)                                                     *)
(*                                                                          *)
(* The safety properties are not inductive. What is missing is what a       *)
(* process knows of the others: its work list may be stale, but below the   *)
(* files on it there is nothing that is not applied (NothingBelow), and its *)
(* backup has nothing that is still to be done or that it did (OwnBackup).  *)
(***************************************************************************)

\* Below a pending file everything is applied or pending too.
NothingBelow ==
  \A p \in Starter : \A f \in run[p].pending :
    \A g \in 1 .. Releases : g < f => g \in recorded \/ g \in run[p].pending

\* A backup holds the first migrations of the schema, and what its process did
\* after it or has still to do is not in it.
OwnBackup ==
  \A p \in Starter :
    /\ run[p].at = "backup" => run[p].done = {}
    /\ run[p].at = "apply" => run[p].backup # {}
    /\ run[p].done # {} => run[p].backup # {}
    /\ \A b \in run[p].backup :
         /\ Len(b) <= Len(schema) /\ b = [i \in 1 .. Len(b) |-> i]
         /\ run[p].done \cap MG!ToSet(b) = {}

Process ==
  [at : {"down", "backup", "apply", "up"}, pending : SUBSET (1 .. Releases),
   backup : SUBSET Seq(1 .. Releases), done : SUBSET (1 .. Releases)]

StartInv == MG!TypeOK /\ MG!AppliedInOrder /\ NothingBelow /\ OwnBackup

\* What AppliedInOrder says of the numbers.
LEMMA RecordedIsPrefix ==
  ASSUME MG!TypeOK, MG!AppliedInOrder
  PROVE  Len(schema) \in Nat /\ recorded = 1 .. Len(schema) /\ MG!ToSet(schema) = recorded
<1>1. Len(schema) \in Nat /\ DOMAIN schema = 1 .. Len(schema)
  BY DEF MG!TypeOK
<1>2. \A i \in DOMAIN schema : schema[i] = i
  BY <1>1 DEF MG!AppliedInOrder
<1>3. MG!ToSet(schema) = 1 .. Len(schema)
  BY <1>1, <1>2 DEF MG!ToSet
<1>. QED  BY <1>1, <1>3 DEF MG!AppliedInOrder

LEMMA StartInitOK == MG!Init => StartInv
<1>. SUFFICES ASSUME MG!Init PROVE StartInv
  OBVIOUS
<1>1. MG!TypeOK
  BY DEF MG!Init, MG!Down, MG!TypeOK
<1>2. MG!AppliedInOrder
  <2>1. schema = <<>> /\ recorded = {} /\ Len(schema) = 0
    BY DEF MG!Init
  <2>2. schema = [i \in 1 .. Len(schema) |-> i]
    BY <2>1
  <2>3. MG!ToSet(schema) = {}
    BY <2>1 DEF MG!ToSet
  <2>. QED  BY <2>1, <2>2, <2>3 DEF MG!AppliedInOrder
<1>3. NothingBelow /\ OwnBackup
  BY DEF MG!Init, MG!Down, NothingBelow, OwnBackup
<1>. QED  BY <1>1, <1>2, <1>3 DEF StartInv

\* The next file of a list that is not stale is the one after the schema's last.
LEMMA NextIsSuccessor ==
  ASSUME Releases \in Nat, StartInv, NEW p \in Starter, NEW f \in run[p].pending, MG!Apply(p, f)
  PROVE  f = Len(schema) + 1
<1>1. recorded = 1 .. Len(schema) /\ Len(schema) \in Nat
  BY RecordedIsPrefix DEF StartInv
<1>2. f \in 1 .. Releases /\ f \notin recorded /\ \A g \in run[p].pending : f <= g
  BY DEF StartInv, MG!TypeOK, MG!Apply, MG!IsNextOf
<1>3. run[p].pending \subseteq 1 .. Releases
  BY DEF StartInv, MG!TypeOK
<1>4. f > Len(schema)
  BY <1>1, <1>2
<1>5. ASSUME Len(schema) + 1 < f PROVE FALSE
  <2>1. Len(schema) + 1 \in 1 .. Releases
    BY <1>1, <1>2, <1>5
  <2>2. Len(schema) + 1 \in run[p].pending
    BY <2>1, <1>5, <1>1 DEF StartInv, NothingBelow
  <2>. QED  BY <2>2, <1>2, <1>3, <1>1, <1>5
<1>. QED  BY <1>1, <1>2, <1>4, <1>5

LEMMA ApplyOK ==
  ASSUME Releases \in Nat, StartInv, NEW p \in Starter, NEW f \in run[p].pending, MG!Apply(p, f)
  PROVE  StartInv'
<1>. DEFINE n == Len(schema)
<1>1. n \in Nat /\ recorded = 1 .. n /\ MG!ToSet(schema) = 1 .. n /\ f = n + 1
  BY RecordedIsPrefix, NextIsSuccessor DEF StartInv
<1>2. f \in 1 .. Releases /\ schema \in Seq(1 .. Releases)
  BY DEF StartInv, MG!TypeOK
<1>3. /\ schema' = Append(schema, f) /\ recorded' = recorded \cup {f} /\ starts' = starts
      /\ run' = [run EXCEPT ![p] = [at |-> "apply", pending |-> run[p].pending \ {f},
                              backup |-> run[p].backup, done |-> run[p].done \cup {f}]]
      /\ run[p].at = "apply"
  BY DEF MG!Apply
<1>4. schema' \in Seq(1 .. Releases) /\ Len(schema') = n + 1
      /\ \A i \in 1 .. n + 1 : schema'[i] = IF i = n + 1 THEN f ELSE schema[i]
  BY <1>2, <1>3
<1>p. /\ run[p] \in Process /\ run' \in [Starter -> Process]
      /\ run'[p] = [at |-> "apply", pending |-> run[p].pending \ {f},
                    backup |-> run[p].backup, done |-> run[p].done \cup {f}]
      /\ \A q \in Starter : q # p => run'[q] = run[q]
  <2>1. run \in [Starter -> Process]
    BY DEF StartInv, MG!TypeOK, Process
  <2>2. run[p] \in Process
    BY <2>1
  <2>. DEFINE new == [at |-> "apply", pending |-> run[p].pending \ {f},
                     backup |-> run[p].backup, done |-> run[p].done \cup {f}]
  <2>3. new \in Process
    BY <2>2, <1>2 DEF Process
  <2>4. run' = [run EXCEPT ![p] = new]
    BY <1>3
  <2>. HIDE DEF new
  <2>5. run' \in [Starter -> Process] /\ run'[p] = new /\ \A q \in Starter : q # p => run'[q] = run[q]
    BY <2>1, <2>3, <2>4
  <2>. QED  BY <2>2, <2>5 DEF new
<1>5. MG!TypeOK'
  BY <1>2, <1>3, <1>4, <1>p DEF StartInv, MG!TypeOK, Process
<1>6. MG!AppliedInOrder'
  <2>1. \A i \in 1 .. n : schema[i] = i
    BY <1>1 DEF StartInv, MG!AppliedInOrder
  <2>2. \A i \in 1 .. n + 1 : schema'[i] = i
    BY <2>1, <1>1, <1>4
  <2>3. DOMAIN schema' = 1 .. n + 1 /\ schema' = [i \in DOMAIN schema' |-> schema'[i]]
    BY <1>2, <1>3, <1>1
  <2>4. schema' = [i \in 1 .. Len(schema') |-> i]
    BY <2>2, <2>3, <1>4
  <2>5. MG!ToSet(schema') = 1 .. n + 1
    BY <2>2, <2>3 DEF MG!ToSet
  <2>6. recorded' = 1 .. n + 1
    BY <1>1, <1>3
  <2>7. MG!ToSet(schema)' = MG!ToSet(schema')
    BY DEF MG!ToSet
  <2>. QED  BY <2>4, <2>5, <2>6, <2>7 DEF MG!AppliedInOrder
<1>7. NothingBelow'
  <2>. SUFFICES ASSUME NEW q \in Starter, NEW h \in run'[q].pending,
                       NEW g \in 1 .. Releases, g < h
                PROVE  g \in recorded' \/ g \in run'[q].pending
    BY DEF NothingBelow
  <2>1. h \in run[q].pending /\ run[q].pending \subseteq run'[q].pending \cup {f}
    BY <1>p
  <2>. QED  BY <2>1, <1>3 DEF StartInv, NothingBelow
<1>8. OwnBackup'
  <2>. SUFFICES ASSUME NEW q \in Starter
                PROVE  /\ run'[q].at = "backup" => run'[q].done = {}
                       /\ run'[q].at = "apply" => run'[q].backup # {}
                       /\ run'[q].done # {} => run'[q].backup # {}
                       /\ \A b \in run'[q].backup :
                            /\ Len(b) <= Len(schema') /\ b = [i \in 1 .. Len(b) |-> i]
                            /\ run'[q].done \cap MG!ToSet(b) = {}
    BY DEF OwnBackup, MG!ToSet
  <2>1. /\ run'[q].at = run[q].at /\ run'[q].backup = run[q].backup
        /\ run'[q].done = run[q].done \/ run'[q].done = run[q].done \cup {f}
    BY <1>p, <1>3
  <2>2. ASSUME NEW b \in run'[q].backup
        PROVE  Len(b) <= Len(schema') /\ b = [i \in 1 .. Len(b) |-> i] /\ f \notin MG!ToSet(b)
    <3>1. b \in Seq(1 .. Releases) /\ Len(b) <= n /\ b = [i \in 1 .. Len(b) |-> i]
      BY <2>1, <2>2 DEF StartInv, MG!TypeOK, OwnBackup
    <3>2. Len(b) \in Nat /\ DOMAIN b = 1 .. Len(b)
      BY <3>1
    <3>3. \A i \in DOMAIN b : b[i] = i
      BY <3>1, <3>2
    <3>4. f \notin MG!ToSet(b)
      BY <3>1, <3>2, <3>3, <1>1 DEF MG!ToSet
    <3>. QED  BY <3>1, <3>2, <3>4, <1>1, <1>4
  <2>3. \A b \in run'[q].backup : run[q].done \cap MG!ToSet(b) = {}
    BY <2>1 DEF StartInv, OwnBackup
  <2>. QED  BY <2>1, <2>2, <2>3, <1>3 DEF StartInv, OwnBackup
<1>. QED  BY <1>5, <1>6, <1>7, <1>8 DEF StartInv

\* What holds of one process's record.
ProcessOK(x) ==
  /\ x \in Process
  /\ \A f \in x.pending, g \in 1 .. Releases : g < f => g \in recorded \/ g \in x.pending
  /\ x.at = "backup" => x.done = {}
  /\ x.at = "apply" => x.backup # {}
  /\ x.done # {} => x.backup # {}
  /\ \A b \in x.backup :
       /\ Len(b) <= Len(schema) /\ b = [i \in 1 .. Len(b) |-> i]
       /\ x.done \cap MG!ToSet(b) = {}

\* A step of one process that leaves the database alone.
LEMMA ProcessStepOK ==
  ASSUME StartInv, NEW p \in Starter, NEW x, ProcessOK(x),
         run' = [run EXCEPT ![p] = x], UNCHANGED <<schema, recorded>>, starts' \in Nat
  PROVE  StartInv'
<1>1. run \in [Starter -> Process]
  BY DEF StartInv, MG!TypeOK, Process
<1>2. run' \in [Starter -> Process] /\ run'[p] = x /\ \A q \in Starter : q # p => run'[q] = run[q]
  BY <1>1 DEF ProcessOK
<1>3. MG!TypeOK'
  BY <1>2 DEF StartInv, MG!TypeOK, Process
<1>4. MG!AppliedInOrder'
  BY DEF StartInv, MG!AppliedInOrder, MG!ToSet
<1>5. \A q \in Starter : ProcessOK(run[q])
  BY <1>1 DEF StartInv, NothingBelow, OwnBackup, ProcessOK
<1>6. \A q \in Starter : ProcessOK(run'[q])
  BY <1>2, <1>5
<1>7. NothingBelow' /\ OwnBackup'
  BY <1>6 DEF ProcessOK, NothingBelow, OwnBackup, MG!ToSet
<1>. QED  BY <1>3, <1>4, <1>7 DEF StartInv

LEMMA ReadOK ==
  ASSUME Releases \in Nat, StartInv, NEW p \in Starter, NEW release \in 1 .. Releases, MG!Read(p, release)
  PROVE  StartInv'
<1>. DEFINE missing == {f \in 1 .. release : f \notin recorded}
            x == [at |-> IF missing = {} THEN "up" ELSE "backup", pending |-> missing,
                  backup |-> {}, done |-> {}]
<1>1. ProcessOK(x)
  BY DEF ProcessOK, Process
<1>2. run' = [run EXCEPT ![p] = x] /\ UNCHANGED <<schema, recorded>> /\ starts' \in Nat
  BY DEF MG!Read, StartInv, MG!TypeOK
<1>. QED  BY <1>1, <1>2, ProcessStepOK

LEMMA BackupOK ==
  ASSUME Releases \in Nat, StartInv, NEW p \in Starter, MG!Backup(p)
  PROVE  StartInv'
<1>. DEFINE x == [at |-> "apply", pending |-> run[p].pending, backup |-> {schema}, done |-> {}]
<1>1. run[p] \in Process /\ schema \in Seq(1 .. Releases)
  BY DEF StartInv, MG!TypeOK, Process
<1>2. x \in Process
  BY <1>1 DEF Process
<1>3. schema = [i \in 1 .. Len(schema) |-> i] /\ Len(schema) <= Len(schema)
  BY <1>1 DEF StartInv, MG!AppliedInOrder
<1>4. \A f \in x.pending, g \in 1 .. Releases : g < f => g \in recorded \/ g \in x.pending
  BY DEF StartInv, NothingBelow
<1>5. ProcessOK(x)
  BY <1>2, <1>3, <1>4 DEF ProcessOK
<1>6. run' = [run EXCEPT ![p] = x] /\ UNCHANGED <<schema, recorded>> /\ starts' \in Nat
  BY DEF MG!Backup, StartInv, MG!TypeOK
<1>. QED  BY <1>5, <1>6, ProcessStepOK

LEMMA FinishOK ==
  ASSUME StartInv, NEW p \in Starter, MG!Finish(p)
  PROVE  StartInv'
<1>. DEFINE x == [run[p] EXCEPT !.at = "up"]
<1>1. run[p] \in Process
  BY DEF StartInv, MG!TypeOK, Process
<1>2. /\ x \in Process /\ x.at = "up" /\ x.pending = run[p].pending
      /\ x.backup = run[p].backup /\ x.done = run[p].done
  BY <1>1 DEF Process
<1>. HIDE DEF x
<1>3. ProcessOK(x)
  BY <1>2 DEF ProcessOK, StartInv, NothingBelow, OwnBackup
<1>4. run' = [run EXCEPT ![p] = x] /\ UNCHANGED <<schema, recorded>> /\ starts' \in Nat
  BY DEF x, MG!Finish, StartInv, MG!TypeOK
<1>. QED  BY <1>3, <1>4, ProcessStepOK

LEMMA DiesOK ==
  ASSUME StartInv, NEW p \in Starter, MG!Dies(p)
  PROVE  StartInv'
<1>1. ProcessOK(MG!Down)
  BY DEF ProcessOK, Process, MG!Down
<1>2. run' = [run EXCEPT ![p] = MG!Down] /\ UNCHANGED <<schema, recorded>> /\ starts' \in Nat
  BY DEF MG!Dies, StartInv, MG!TypeOK
<1>. QED  BY <1>1, <1>2, ProcessStepOK

LEMMA StartInductive ==
  ASSUME Releases \in Nat, StartInv, [MG!Next]_MG!vars
  PROVE  StartInv'
<1>1. CASE UNCHANGED MG!vars
  BY <1>1 DEF MG!vars, StartInv, MG!TypeOK, MG!AppliedInOrder, NothingBelow, OwnBackup, MG!ToSet
<1>2. CASE MG!Next
  BY <1>2, ReadOK, BackupOK, ApplyOK, FinishOK, DiesOK DEF MG!Next, MG!Step
<1>. QED  BY <1>1, <1>2

LEMMA StartInvariance ==
  MG!Spec => []StartInv
<1>1. StartInv /\ [MG!Next]_MG!vars => StartInv'
  BY StartInductive, ReleasesAssumption
<1>. QED  BY StartInitOK, <1>1, PTL DEF MG!Spec

(***************************************************************************)
(* Whichever processes of whichever releases start side by side and die     *)
(* wherever (migrate.go), the schema is the first few migrations in their   *)
(* order, each once, and they are what schema_migrations records.           *)
(***************************************************************************)
THEOREM SchemaIsAsRecorded ==
  MG!Spec => []MG!AppliedInOrder
<1>1. StartInv => MG!AppliedInOrder
  BY DEF StartInv
<1>. QED  BY <1>1, StartInvariance, PTL

LEMMA StartInvIsEnough == StartInv => StartsAreSafe
<1>. SUFFICES ASSUME StartInv, NEW p \in Starter, run[p].done # {}
              PROVE  \E b \in run[p].backup : MG!IsPrefix(b, schema) /\ run[p].done \cap MG!ToSet(b) = {}
  BY DEF MG!BackedUp, StartInv, StartsAreSafe, MG!StartsAreSafe
<1>1. PICK b \in run[p].backup :
        Len(b) <= Len(schema) /\ b = [i \in 1 .. Len(b) |-> i] /\ run[p].done \cap MG!ToSet(b) = {}
  BY DEF StartInv, OwnBackup
<1>2. b \in Seq(1 .. Releases) /\ schema \in Seq(1 .. Releases)
  BY <1>1 DEF StartInv, MG!TypeOK
<1>3. Len(b) \in Nat /\ Len(schema) \in Nat
  BY <1>2
<1>4. \A i \in 1 .. Len(b) : b[i] = i /\ schema[i] = i
  BY <1>1, <1>3 DEF StartInv, MG!AppliedInOrder
<1>5. SubSeq(b, 1, Len(b)) = SubSeq(schema, 1, Len(b))
  BY <1>1, <1>2, <1>3, <1>4
<1>. QED  BY <1>1, <1>5 DEF MG!IsPrefix

(***************************************************************************)
(* And no process applies a migration without a backup of a state that the  *)
(* database had before any migration of its own.                            *)
(***************************************************************************)
THEOREM StartsStaySafe == MG!Spec => []StartsAreSafe
BY StartInvIsEnough, StartInvariance, PTL
-----------------------------------------------------------------------------
(***************************************************************************)
(* A subnet scan (Scan)                                                     *)
(*                                                                          *)
(* That the list is complete when the scan returns says nothing of the      *)
(* steps before. The invariant follows every address: it is in one place,   *)
(* waiting to be fed, with one worker or listed (OnePlace), none that       *)
(* answers is lost before the context ends (NoneLost), and what is closed   *)
(* tells how far the others are (Closing).                                  *)
(***************************************************************************)

Ip == SC!ToSet(Ips)

WorkerState == [at : {"dials", "found"}, ip : Ip] \cup {SC!Waiting, SC!Gone}

Busy(w) == worker[w].at \in {"dials", "found"}

Once(s) == \A i, j \in DOMAIN s : s[i] = s[j] => i = j

ScanTypeOK ==
  /\ alive \subseteq Ip /\ unfed \in Seq(Ip) /\ listed \in Seq(Ip)
  /\ jobs \in {"open", "closed"} /\ results \in {"open", "closed"}
  /\ returned \in BOOLEAN /\ ended \in BOOLEAN
  /\ worker \in [Worker -> WorkerState]

OnePlace ==
  /\ Once(unfed) /\ Once(listed)
  /\ SC!ToSet(unfed) \cap SC!ToSet(listed) = {}
  /\ \A w \in Worker : Busy(w) => worker[w].ip \notin SC!ToSet(unfed) \cup SC!ToSet(listed)
  /\ \A w, v \in Worker : Busy(w) /\ Busy(v) /\ worker[w].ip = worker[v].ip => w = v

OnlyTheAlive ==
  /\ SC!ToSet(listed) \subseteq alive
  /\ \A w \in Worker : worker[w].at = "found" => worker[w].ip \in alive

NoneLost ==
  ~ended => \A a \in alive :
    a \in SC!ToSet(unfed) \cup SC!ToSet(listed) \/ \E w \in Worker : Busy(w) /\ worker[w].ip = a

Closing ==
  /\ jobs = "closed" /\ ~ended => unfed = <<>>
  /\ \A w \in Worker : worker[w] = SC!Gone => jobs = "closed"
  /\ results = "closed" => \A w \in Worker : worker[w] = SC!Gone
  /\ returned => results = "closed" /\ \A i, j \in DOMAIN listed : i < j => listed[i] < listed[j]

ScanInv == ScanTypeOK /\ OnePlace /\ OnlyTheAlive /\ NoneLost /\ Closing

LEMMA ScanInitOK == SC!Init => ScanInv
<1>. SUFFICES ASSUME SC!Init PROVE ScanInv
  OBVIOUS
<1>1. Ips \in Seq(Ip) /\ Ips \in Seq(Nat) /\ Once(Ips)
  <2>1. Ips \in Seq(Nat) /\ DOMAIN Ips \subseteq Nat
    BY IpsAssumption
  <2>2. Ips \in Seq(Ip)
    BY <2>1 DEF Ip, SC!ToSet
  <2>3. \A i, j \in DOMAIN Ips : Ips[i] \in Nat /\ (i < j => Ips[i] < Ips[j])
    BY IpsAssumption
  <2>. QED  BY <2>1, <2>2, <2>3 DEF Once
<1>2. SC!ToSet(<<>>) = {} /\ Once(<<>>) /\ <<>> \in Seq(Ip)
  BY DEF SC!ToSet, Once
<1>3. ScanTypeOK
  BY <1>1, <1>2 DEF SC!Init, ScanTypeOK, WorkerState, Ip
<1>4. \A w \in Worker : worker[w] = SC!Waiting /\ SC!Waiting.at = "waits"
  BY DEF SC!Init, SC!Waiting
<1>5. OnePlace /\ OnlyTheAlive /\ NoneLost /\ Closing
  BY <1>1, <1>2, <1>4 DEF SC!Init, OnePlace, OnlyTheAlive, NoneLost, Closing, Busy, Ip, SC!Waiting, SC!Gone
<1>. QED  BY <1>3, <1>5 DEF ScanInv

\* A feeder takes the first address.
LEMMA HeadAndTail ==
  ASSUME NEW S, NEW s \in Seq(S), s # <<>>, Once(s)
  PROVE  /\ Head(s) \in S /\ Tail(s) \in Seq(S) /\ Once(Tail(s))
         /\ SC!ToSet(s) = SC!ToSet(Tail(s)) \cup {Head(s)} /\ Head(s) \notin SC!ToSet(Tail(s))
<1>1. /\ Len(s) \in Nat /\ Len(s) >= 1 /\ DOMAIN s = 1 .. Len(s) /\ Head(s) = s[1]
      /\ Tail(s) \in Seq(S) /\ DOMAIN Tail(s) = 1 .. Len(s) - 1
      /\ \A i \in 1 .. Len(s) - 1 : Tail(s)[i] = s[i + 1]
  OBVIOUS
<1>2. \A i \in DOMAIN s : i = 1 \/ (i - 1 \in DOMAIN Tail(s) /\ s[i] = Tail(s)[i - 1])
  BY <1>1
<1>3. SC!ToSet(s) = SC!ToSet(Tail(s)) \cup {Head(s)}
  <2>. DEFINE t == Tail(s)
  <2>1. /\ \A i \in DOMAIN s : s[i] = Head(s) \/ \E j \in DOMAIN t : s[i] = t[j]
        /\ \A j \in DOMAIN t : \E i \in DOMAIN s : t[j] = s[i]
        /\ \E i \in DOMAIN s : s[i] = Head(s)
    <3>1. \A j \in DOMAIN t : j + 1 \in DOMAIN s /\ t[j] = s[j + 1]
      BY <1>1
    <3>2. \A i \in DOMAIN s : s[i] = Head(s) \/ \E j \in DOMAIN t : s[i] = t[j]
      BY <1>1, <1>2
    <3>3. 1 \in DOMAIN s /\ s[1] = Head(s)
      BY <1>1
    <3>. QED  BY <3>1, <3>2, <3>3
  <2>. HIDE DEF t
  <2>2. SC!ToSet(s) = SC!ToSet(t) \cup {Head(s)}
    BY <2>1 DEF SC!ToSet
  <2>. QED  BY <2>2 DEF t
<1>4. Once(Tail(s)) /\ Head(s) \notin SC!ToSet(Tail(s))
  BY <1>1 DEF Once, SC!ToSet
<1>. QED  BY <1>1, <1>3, <1>4

\* A host is appended to the list.
LEMMA AppendOnce ==
  ASSUME NEW S, NEW s \in Seq(S), NEW e \in S, Once(s), e \notin SC!ToSet(s)
  PROVE  Append(s, e) \in Seq(S) /\ Once(Append(s, e)) /\ SC!ToSet(Append(s, e)) = SC!ToSet(s) \cup {e}
<1>1. /\ Len(s) \in Nat /\ DOMAIN s = 1 .. Len(s)
      /\ Append(s, e) \in Seq(S) /\ DOMAIN Append(s, e) = 1 .. Len(s) + 1
      /\ \A i \in 1 .. Len(s) + 1 : Append(s, e)[i] = IF i = Len(s) + 1 THEN e ELSE s[i]
  OBVIOUS
<1>. DEFINE t == Append(s, e)
<1>. HIDE DEF t
<1>2. /\ \A i \in DOMAIN s : i \in DOMAIN t /\ t[i] = s[i]
      /\ \A i \in DOMAIN t : (i \in DOMAIN s /\ t[i] = s[i]) \/ (i = Len(s) + 1 /\ t[i] = e)
      /\ Len(s) + 1 \in DOMAIN t /\ t[Len(s) + 1] = e
  BY <1>1 DEF t
<1>3. Once(t)
  BY <1>2 DEF Once, SC!ToSet
<1>4. SC!ToSet(t) = SC!ToSet(s) \cup {e}
  BY <1>2 DEF SC!ToSet
<1>. QED  BY <1>1, <1>3, <1>4 DEF t

\* Sorting leaves the members, each once, and so in strict order.
LEMMA SortedList ==
  ASSUME NEW s \in Seq(Ip), Once(s), NEW t \in SC!SortedLists(s)
  PROVE  /\ t \in Seq(Ip) /\ Once(t) /\ SC!ToSet(t) = SC!ToSet(s)
         /\ \A i, j \in DOMAIN t : i < j => t[i] < t[j]
<1>1. /\ t \in [DOMAIN s -> SC!ToSet(s)]
      /\ \A i, j \in DOMAIN s : i < j => t[i] <= t[j]
  BY DEF SC!SortedLists
<1>2. PICK moved \in SC!Bijection(DOMAIN s, DOMAIN s) : \A i \in DOMAIN s : t[i] = s[moved[i]]
  BY DEF SC!SortedLists
<1>3. /\ moved \in [DOMAIN s -> DOMAIN s]
      /\ \A i, j \in DOMAIN s : moved[i] = moved[j] => i = j
      /\ \A j \in DOMAIN s : \E i \in DOMAIN s : moved[i] = j
  BY <1>2 DEF SC!Bijection, SC!Injection, SC!Surjection, SC!IsInjective
<1>4. SC!ToSet(s) \subseteq Ip /\ Ip \subseteq Nat
  BY IpsAssumption DEF SC!ToSet, Ip
<1>5. t \in Seq(Ip)
  BY <1>1, <1>4
<1>6. Once(t) /\ DOMAIN t = DOMAIN s
  BY <1>1, <1>2, <1>3 DEF Once
<1>7. SC!ToSet(t) = SC!ToSet(s)
  <2>1. ASSUME NEW i \in DOMAIN t PROVE t[i] \in SC!ToSet(s)
    BY <1>1
  <2>2. ASSUME NEW j \in DOMAIN s PROVE \E i \in DOMAIN t : t[i] = s[j]
    BY <1>2, <1>3, <1>6
  <2>3. SC!ToSet(t) \subseteq SC!ToSet(s)
    BY <2>1 DEF SC!ToSet
  <2>4. SC!ToSet(s) \subseteq SC!ToSet(t)
    BY <2>2 DEF SC!ToSet
  <2>. QED  BY <2>3, <2>4
<1>8. ASSUME NEW i \in DOMAIN t, NEW j \in DOMAIN t, i < j PROVE t[i] < t[j]
  <2>0. DOMAIN s = 1 .. Len(s) /\ Len(s) \in Nat
    OBVIOUS
  <2>a. t[i] \in SC!ToSet(s) /\ t[j] \in SC!ToSet(s)
    BY <1>1, <1>6
  <2>b. i \in Nat /\ j \in Nat
    BY <2>0, <1>6
  <2>1. t[i] \in Nat /\ t[j] \in Nat /\ i \in Nat /\ j \in Nat
    BY <2>a, <2>b, <1>4
  <2>2. t[i] <= t[j] /\ t[i] # t[j]
    BY <1>1, <1>6, <1>8, <2>1 DEF Once
  <2>. QED  BY <2>1, <2>2
<1>. QED  BY <1>5, <1>6, <1>7, <1>8

LEMMA WorkerFacts ==
  ASSUME ScanTypeOK, NEW w \in Worker
  PROVE  /\ Busy(w) => worker[w].ip \in Ip /\ worker[w] \notin {SC!Waiting, SC!Gone}
         /\ ~Busy(w) => worker[w] \in {SC!Waiting, SC!Gone}
         /\ SC!Waiting # SC!Gone /\ SC!Waiting.at = "waits" /\ SC!Gone.at = "gone"
<1>1. worker[w] \in [at : {"dials", "found"}, ip : Ip] \cup {SC!Waiting, SC!Gone}
  BY DEF ScanTypeOK, WorkerState
<1>2. SC!Waiting # SC!Gone /\ SC!Waiting.at = "waits" /\ SC!Gone.at = "gone"
  BY DEF SC!Waiting, SC!Gone
<1>. QED  BY <1>1, <1>2 DEF Busy

\* What one worker does leaves the others as they are.
LEMMA OneWorker ==
  ASSUME ScanTypeOK, NEW w \in Worker, NEW x \in WorkerState, worker' = [worker EXCEPT ![w] = x]
  PROVE  /\ worker' \in [Worker -> WorkerState]
         /\ worker'[w] = x /\ (Busy(w)' <=> x.at \in {"dials", "found"})
         /\ \A v \in Worker \ {w} : worker'[v] = worker[v] /\ (Busy(v)' <=> Busy(v))
<1>1. worker \in [Worker -> WorkerState]
  BY DEF ScanTypeOK, WorkerState
<1>2. /\ worker' \in [Worker -> WorkerState] /\ worker'[w] = x
      /\ \A v \in Worker \ {w} : worker'[v] = worker[v]
  BY <1>1
<1>. QED  BY <1>2 DEF Busy

LEMMA FeedOK ==
  ASSUME ScanInv, NEW w \in Worker, SC!Feed(w)
  PROVE  ScanInv'
<1>. DEFINE x == [at |-> "dials", ip |-> Head(unfed)]
<1>1. /\ jobs = "open" /\ unfed # <<>> /\ worker[w] = SC!Waiting
      /\ worker' = [worker EXCEPT ![w] = x] /\ unfed' = Tail(unfed)
      /\ alive' = alive /\ jobs' = jobs /\ results' = results /\ listed' = listed
      /\ returned' = returned /\ ended' = ended
  BY DEF SC!Feed
<1>2. /\ Head(unfed) \in Ip /\ Tail(unfed) \in Seq(Ip) /\ Once(Tail(unfed))
      /\ SC!ToSet(unfed) = SC!ToSet(Tail(unfed)) \cup {Head(unfed)}
      /\ Head(unfed) \notin SC!ToSet(Tail(unfed))
  BY <1>1, HeadAndTail DEF ScanInv, ScanTypeOK, OnePlace
<1>3. x \in WorkerState /\ x.at = "dials" /\ x.ip = Head(unfed)
  BY <1>2 DEF WorkerState
<1>4. ~Busy(w) /\ SC!Waiting # SC!Gone /\ x # SC!Gone
  BY <1>1, WorkerFacts DEF ScanInv, SC!Gone
<1>. HIDE DEF x
<1>5. /\ worker' \in [Worker -> WorkerState] /\ worker'[w] = x /\ Busy(w)'
      /\ \A v \in Worker \ {w} : worker'[v] = worker[v] /\ (Busy(v)' <=> Busy(v))
  BY <1>1, <1>3, OneWorker DEF ScanInv
<1>6. SC!ToSet(unfed)' = SC!ToSet(Tail(unfed)) /\ SC!ToSet(listed)' = SC!ToSet(listed)
  BY <1>1 DEF SC!ToSet
<1>7. ScanTypeOK'
  BY <1>1, <1>2, <1>5 DEF ScanInv, ScanTypeOK, WorkerState, Ip
<1>8. OnePlace'
  <2>1. Once(unfed)' /\ Once(listed)'
    BY <1>1, <1>2 DEF ScanInv, OnePlace, Once
  <2>2. (SC!ToSet(unfed) \cap SC!ToSet(listed) = {})'
    BY <1>2, <1>6 DEF ScanInv, OnePlace
  <2>3. \A v \in Worker : Busy(v)' => worker'[v].ip \notin SC!ToSet(Tail(unfed)) \cup SC!ToSet(listed)
    BY <1>2, <1>3, <1>5 DEF ScanInv, OnePlace
  <2>4. \A u, v \in Worker : Busy(u)' /\ Busy(v)' /\ worker'[u].ip = worker'[v].ip => u = v
    BY <1>2, <1>3, <1>5 DEF ScanInv, OnePlace
  <2>. QED  BY <2>1, <2>2, <2>3, <2>4, <1>6 DEF OnePlace
<1>9. OnlyTheAlive'
  BY <1>1, <1>3, <1>5, <1>6 DEF ScanInv, OnlyTheAlive
<1>10. NoneLost'
  <2>. SUFFICES ASSUME ~ended, NEW a \in alive
                PROVE  \/ a \in SC!ToSet(Tail(unfed)) \cup SC!ToSet(listed)
                       \/ \E v \in Worker : Busy(v)' /\ worker'[v].ip = a
    BY <1>1, <1>6 DEF NoneLost
  <2>1. CASE a = Head(unfed)
    BY <2>1, <1>3, <1>5
  <2>2. CASE \E v \in Worker : Busy(v) /\ worker[v].ip = a
    BY <2>2, <1>4, <1>5
  <2>. QED  BY <2>1, <2>2, <1>2 DEF ScanInv, NoneLost
<1>11. Closing'
  BY <1>1, <1>4, <1>5 DEF ScanInv, Closing
<1>. QED  BY <1>7, <1>8, <1>9, <1>10, <1>11 DEF ScanInv

\* A worker goes on, and the lists stay.
LEMMA WorkerGoesOn ==
  ASSUME ScanInv, NEW w \in Worker, NEW x \in WorkerState, worker' = [worker EXCEPT ![w] = x],
         UNCHANGED <<alive, unfed, jobs, results, listed, returned, ended>>,
         Busy(w) /\ x.at \in {"dials", "found"} => x.ip = worker[w].ip,
         x.at = "found" => x.ip \in alive,
         x.at \in {"dials", "found"} => Busy(w),
         x = SC!Gone => jobs = "closed",
         x # SC!Gone => worker[w] # SC!Gone,
         Busy(w) /\ x.at \notin {"dials", "found"} => worker[w].ip \notin alive \/ ended
  PROVE  ScanInv'
<1>1. /\ worker' \in [Worker -> WorkerState] /\ worker'[w] = x
      /\ (Busy(w)' <=> x.at \in {"dials", "found"})
      /\ \A v \in Worker \ {w} : worker'[v] = worker[v] /\ (Busy(v)' <=> Busy(v))
  BY OneWorker DEF ScanInv
<1>2. \A v \in Worker : Busy(v)' => Busy(v) /\ worker'[v].ip = worker[v].ip
  BY <1>1
<1>3. SC!ToSet(unfed)' = SC!ToSet(unfed) /\ SC!ToSet(listed)' = SC!ToSet(listed)
  BY DEF SC!ToSet
<1>4. ScanTypeOK'
  BY <1>1 DEF ScanInv, ScanTypeOK, WorkerState, Ip
<1>5. OnePlace'
  BY <1>2, <1>3 DEF ScanInv, OnePlace, Once
<1>6. OnlyTheAlive'
  BY <1>1, <1>3 DEF ScanInv, OnlyTheAlive
<1>7. NoneLost'
  <2>. SUFFICES ASSUME ~ended, NEW a \in alive
                PROVE  \/ a \in SC!ToSet(unfed) \cup SC!ToSet(listed)
                       \/ \E v \in Worker : Busy(v)' /\ worker'[v].ip = a
    BY <1>3 DEF NoneLost
  <2>1. ASSUME NEW v \in Worker, Busy(v), worker[v].ip = a PROVE Busy(v)' /\ worker'[v].ip = a
    BY <2>1, <1>1
  <2>. QED  BY <2>1 DEF ScanInv, NoneLost
<1>8. Closing'
  BY <1>1 DEF ScanInv, Closing
<1>. QED  BY <1>4, <1>5, <1>6, <1>7, <1>8 DEF ScanInv

LEMMA MissedOK ==
  ASSUME ScanInv, NEW w \in Worker, SC!Missed(w)
  PROVE  ScanInv'
<1>1. Busy(w) /\ (worker[w].ip \notin alive \/ ended) /\ worker' = [worker EXCEPT ![w] = SC!Waiting]
      /\ UNCHANGED <<alive, unfed, jobs, results, listed, returned, ended>>
  BY DEF SC!Missed, Busy
<1>2. SC!Waiting \in WorkerState
  BY DEF WorkerState
<1>. QED  BY <1>1, <1>2, WorkerFacts, WorkerGoesOn DEF ScanInv

LEMMA FoundOK ==
  ASSUME ScanInv, NEW w \in Worker, SC!Found(w)
  PROVE  ScanInv'
<1>. DEFINE x == [worker[w] EXCEPT !.at = "found"]
<1>1. Busy(w) /\ worker[w].ip \in alive /\ worker' = [worker EXCEPT ![w] = x]
      /\ UNCHANGED <<alive, unfed, jobs, results, listed, returned, ended>>
  BY DEF SC!Found, Busy
<1>2. worker[w] \in [at : {"dials", "found"}, ip : Ip]
  BY <1>1, WorkerFacts DEF ScanInv, ScanTypeOK, WorkerState
<1>3. x \in WorkerState /\ x.at = "found" /\ x.ip = worker[w].ip /\ x # SC!Gone
  BY <1>2 DEF WorkerState, SC!Gone
<1>. HIDE DEF x
<1>. QED  BY <1>1, <1>3, WorkerFacts, WorkerGoesOn DEF ScanInv

LEMMA LeaveOK ==
  ASSUME ScanInv, NEW w \in Worker, SC!Leave(w)
  PROVE  ScanInv'
<1>1. jobs = "closed" /\ worker[w] = SC!Waiting /\ worker' = [worker EXCEPT ![w] = SC!Gone]
      /\ UNCHANGED <<alive, unfed, jobs, results, listed, returned, ended>>
  BY DEF SC!Leave
<1>2. SC!Gone \in WorkerState
  BY DEF WorkerState
<1>. QED  BY <1>1, <1>2, WorkerFacts, WorkerGoesOn DEF ScanInv

LEMMA ReceiveOK ==
  ASSUME ScanInv, NEW w \in Worker, SC!Receive(w)
  PROVE  ScanInv'
<1>. DEFINE e == worker[w].ip
<1>1. /\ worker[w].at = "found" /\ Busy(w) /\ listed' = Append(listed, e)
      /\ worker' = [worker EXCEPT ![w] = SC!Waiting]
      /\ UNCHANGED <<alive, unfed, jobs, results, returned, ended>>
  BY DEF SC!Receive, Busy
<1>2. e \in Ip /\ e \in alive /\ e \notin SC!ToSet(unfed) /\ e \notin SC!ToSet(listed)
      /\ worker[w] # SC!Gone /\ SC!Waiting # SC!Gone /\ SC!Waiting.at = "waits"
  BY <1>1, WorkerFacts DEF ScanInv, OnePlace, OnlyTheAlive
<1>3. SC!Waiting \in WorkerState
  BY DEF WorkerState
<1>4. /\ worker' \in [Worker -> WorkerState] /\ worker'[w] = SC!Waiting /\ ~Busy(w)'
      /\ \A v \in Worker \ {w} : worker'[v] = worker[v] /\ (Busy(v)' <=> Busy(v))
  BY <1>1, <1>2, <1>3, OneWorker DEF ScanInv
<1>5. /\ listed' \in Seq(Ip) /\ Once(listed)' /\ SC!ToSet(listed)' = SC!ToSet(listed) \cup {e}
      /\ SC!ToSet(unfed)' = SC!ToSet(unfed) /\ Once(unfed)'
  <2>1. /\ Append(listed, e) \in Seq(Ip) /\ Once(Append(listed, e))
        /\ SC!ToSet(Append(listed, e)) = SC!ToSet(listed) \cup {e}
    BY <1>2, AppendOnce DEF ScanInv, ScanTypeOK, OnePlace
  <2>2. SC!ToSet(listed)' = SC!ToSet(Append(listed, e)) /\ (Once(listed)' <=> Once(Append(listed, e)))
        /\ SC!ToSet(unfed)' = SC!ToSet(unfed) /\ (Once(unfed)' <=> Once(unfed))
    BY <1>1 DEF SC!ToSet, Once
  <2>. QED  BY <1>1, <2>1, <2>2 DEF ScanInv, OnePlace
<1>6. ~returned /\ results # "closed"
  BY <1>2 DEF ScanInv, Closing
<1>7. ScanTypeOK'
  BY <1>1, <1>4, <1>5 DEF ScanInv, ScanTypeOK, WorkerState, Ip
<1>8. OnePlace'
  <2>1. \A v \in Worker : Busy(v)' => v # w /\ Busy(v) /\ worker'[v] = worker[v] /\ worker[v].ip # e
    BY <1>1, <1>4 DEF ScanInv, OnePlace
  <2>. QED  BY <1>2, <1>5, <2>1 DEF ScanInv, OnePlace
<1>9. OnlyTheAlive'
  BY <1>1, <1>2, <1>4, <1>5 DEF ScanInv, OnlyTheAlive
<1>10. NoneLost'
  <2>. SUFFICES ASSUME ~ended, NEW a \in alive
                PROVE  \/ a \in SC!ToSet(unfed) \cup SC!ToSet(listed) \cup {e}
                       \/ \E v \in Worker : Busy(v)' /\ worker'[v].ip = a
    BY <1>1, <1>5 DEF NoneLost
  <2>1. ASSUME NEW v \in Worker, Busy(v), worker[v].ip = a, a # e PROVE Busy(v)' /\ worker'[v].ip = a
    BY <2>1, <1>4
  <2>. QED  BY <2>1 DEF ScanInv, NoneLost
<1>11. Closing'
  BY <1>1, <1>2, <1>4, <1>6 DEF ScanInv, Closing
<1>. QED  BY <1>7, <1>8, <1>9, <1>10, <1>11 DEF ScanInv

\* A channel is closed, or the context ends: the addresses stay where they are.
LEMMA AddressesStay ==
  ASSUME ScanInv, UNCHANGED <<alive, unfed, worker>>, ended => ended',
         listed' \in Seq(Ip), Once(listed'), SC!ToSet(listed') = SC!ToSet(listed),
         jobs' \in {"open", "closed"}, results' \in {"open", "closed"},
         returned' \in BOOLEAN, ended' \in BOOLEAN
  PROVE  ScanTypeOK' /\ OnePlace' /\ OnlyTheAlive' /\ NoneLost'
<1>1. /\ SC!ToSet(listed)' = SC!ToSet(listed) /\ SC!ToSet(unfed)' = SC!ToSet(unfed)
      /\ Once(listed)' /\ (Once(unfed)' <=> Once(unfed)) /\ \A w \in Worker : Busy(w)' <=> Busy(w)
  BY DEF SC!ToSet, Once, Busy
<1>2. ScanTypeOK'
  BY DEF ScanInv, ScanTypeOK, Ip
<1>3. OnePlace'
  BY <1>1 DEF ScanInv, OnePlace
<1>4. OnlyTheAlive'
  BY <1>1 DEF ScanInv, OnlyTheAlive
<1>5. NoneLost'
  BY <1>1 DEF ScanInv, NoneLost
<1>. QED  BY <1>2, <1>3, <1>4, <1>5

LEMMA ReturnOK ==
  ASSUME ScanInv, SC!Return
  PROVE  ScanInv'
<1>1. /\ results = "closed" /\ returned' = TRUE /\ listed' \in SC!SortedLists(listed)
      /\ UNCHANGED <<alive, unfed, jobs, worker, results, ended>>
  BY DEF SC!Return
<1>2. /\ listed' \in Seq(Ip) /\ Once(listed') /\ SC!ToSet(listed') = SC!ToSet(listed)
      /\ \A i, j \in DOMAIN listed' : i < j => listed'[i] < listed'[j]
  BY <1>1, SortedList DEF ScanInv, ScanTypeOK, OnePlace
<1>3. ScanTypeOK' /\ OnePlace' /\ OnlyTheAlive' /\ NoneLost'
  BY <1>1, <1>2, AddressesStay DEF ScanInv, ScanTypeOK
<1>4. Closing'
  BY <1>1, <1>2 DEF ScanInv, Closing
<1>. QED  BY <1>3, <1>4 DEF ScanInv

LEMMA ClosedOK ==
  ASSUME ScanInv, SC!CloseJobs \/ SC!CloseResults \/ SC!ContextEnds
  PROVE  ScanInv'
<1>1. /\ UNCHANGED <<alive, unfed, worker, listed, returned>>
      /\ (ended => ended') /\ ended' \in BOOLEAN
      /\ jobs' \in {"open", "closed"} /\ results' \in {"open", "closed"}
      /\ (jobs = "closed" => jobs' = "closed")
      /\ (jobs' = "closed" => jobs = "closed" \/ unfed = <<>> \/ ended)
      /\ (results = "closed" => results' = "closed")
      /\ (results' = "closed" => results = "closed" \/ \A w \in Worker : worker[w] = SC!Gone)
  BY DEF SC!CloseJobs, SC!CloseResults, SC!ContextEnds, ScanInv, ScanTypeOK
<1>2. SC!ToSet(listed') = SC!ToSet(listed) /\ Once(listed') /\ listed' \in Seq(Ip)
  BY <1>1 DEF ScanInv, OnePlace, ScanTypeOK
<1>3. ScanTypeOK' /\ OnePlace' /\ OnlyTheAlive' /\ NoneLost'
  BY <1>1, <1>2, AddressesStay DEF ScanInv, ScanTypeOK
<1>4. Closing'
  BY <1>1 DEF ScanInv, Closing
<1>. QED  BY <1>3, <1>4 DEF ScanInv

LEMMA ScanInductive ==
  ASSUME ScanInv, [SC!Next]_SC!vars
  PROVE  ScanInv'
<1>1. CASE UNCHANGED SC!vars
  <2>1. UNCHANGED <<alive, unfed, jobs, worker, results, listed, returned, ended>>
    BY <1>1 DEF SC!vars
  <2>2. ScanTypeOK' /\ OnePlace' /\ OnlyTheAlive' /\ NoneLost'
    BY <2>1, AddressesStay DEF ScanInv, ScanTypeOK, OnePlace
  <2>3. Closing'
    BY <2>1 DEF ScanInv, Closing
  <2>. QED  BY <2>2, <2>3 DEF ScanInv
<1>2. CASE SC!Next
  BY <1>2, FeedOK, MissedOK, FoundOK, ReceiveOK, LeaveOK, ClosedOK, ReturnOK DEF SC!Next, SC!Work
<1>. QED  BY <1>1, <1>2

LEMMA ScanInvIsEnough == ScanInv => ListsTheAlive
<1>. SUFFICES ASSUME ScanInv, returned
              PROVE  /\ \A w \in Worker : worker[w] = SC!Gone
                     /\ \A i, j \in DOMAIN listed : i < j => listed[i] < listed[j]
                     /\ SC!ToSet(listed) \subseteq alive
                     /\ ~ended => SC!ToSet(listed) = alive
  BY DEF ListsTheAlive, SC!ListsTheAlive
<1>1. /\ \A w \in Worker : worker[w] = SC!Gone
      /\ \A i, j \in DOMAIN listed : i < j => listed[i] < listed[j]
  BY DEF ScanInv, Closing
<1>2. SC!ToSet(listed) \subseteq alive
  BY DEF ScanInv, OnlyTheAlive
<1>3. ASSUME ~ended PROVE alive \subseteq SC!ToSet(listed)
  <2>1. \A w \in Worker : ~Busy(w)
    BY <1>1, WorkerFacts DEF ScanInv
  <2>2. jobs = "closed"
    BY <1>1, WorkerAssumption DEF ScanInv, Closing
  <2>3. SC!ToSet(unfed) = {}
    BY <1>3, <2>2 DEF ScanInv, Closing, SC!ToSet
  <2>. QED  BY <1>3, <2>1, <2>3 DEF ScanInv, NoneLost
<1>. QED  BY <1>1, <1>2, <1>3

(***************************************************************************)
(* However many addresses and workers, and whenever the context ends: a     *)
(* scan that has returned (NetworkScanner.Scan) has left no worker behind   *)
(* and lists in order, each once, hosts that are there; all of them, if its *)
(* context did not end.                                                     *)
(***************************************************************************)
THEOREM ScanListsTheAlive == SC!Spec => []ListsTheAlive
<1>1. ScanInv /\ [SC!Next]_SC!vars => ScanInv'
  BY ScanInductive
<1>. QED  BY ScanInitOK, <1>1, ScanInvIsEnough, PTL DEF SC!Spec

-----------------------------------------------------------------------------
(* The gates (Gates)                                                         *)

\* The fields of a request that the chains look at.
LEMMA RequestFacts ==
  ASSUME NEW q \in GT!Request
  PROVE  /\ q.group \in GT!Group /\ q.method \in {"GET", "POST"}
         /\ q.session \in GT!Role \cup {None} /\ q.cookie \in BOOLEAN /\ q.trusted \in BOOLEAN
         /\ q.header \in GT!Role \cup {None, "stranger"} /\ q.answers \in BOOLEAN
         /\ q.bearer \in GT!Bearer
         /\ (q.session # None => q.cookie) /\ (q.group = "report" => q.method = "POST")
  BY DEF GT!Request, GT!Method

LEMMA BearerFacts ==
  ASSUME NEW b \in GT!Bearer
  PROVE  /\ b.sent \in BOOLEAN
         /\ b.owner = None <=> b.scope = None
         /\ ~b.sent => b.owner = None
         /\ b.owner \in GT!Role \cup {None} /\ b.scope \in GT!Scope \cup {None}
<1>. USE NobodyAssumption DEF GT!Role, GT!Scope
<1>1. CASE b = [sent |-> FALSE, owner |-> None, scope |-> None]
  BY <1>1
<1>2. CASE b \in [sent : {TRUE}, owner : {None}, scope : {None}]
  BY <1>2
<1>3. CASE b \in [sent : {TRUE}, owner : GT!Role, scope : GT!Scope]
  BY <1>3
<1>. QED  BY <1>1, <1>2, <1>3 DEF GT!Bearer

\* Who a chain for browsers takes a request for, and when it stops.
SignedIn(q) == GT!CsrfProtect(q, GT!SessionAuth(q, GT!ProxyAuth(q, GT!Passing)))

LEMMA ProxyAuthFacts ==
  ASSUME NEW q \in GT!Request
  PROVE  LET c == GT!ProxyAuth(q, GT!Passing)
         IN /\ c \in [status : {"on", "error"}, user : GT!Role \cup {None}, scope : {None}]
            /\ c.status = "on" <=> ~q.trusted \/ q.header = None \/ q.answers
            /\ c.status = "on" => c.user = IF q.trusted /\ q.header \in GT!Role THEN q.header ELSE None
<1>. USE RequestFacts, NobodyAssumption DEF GT!ProxyAuth, GT!Passing, GT!Stop, GT!AsUser, GT!Role
<1>1. CASE ~q.trusted \/ q.header = None
  BY <1>1
<1>2. CASE q.trusted /\ q.header # None /\ ~q.answers
  BY <1>2
<1>3. CASE q.trusted /\ q.header = "stranger" /\ q.answers
  BY <1>3
<1>4. CASE q.trusted /\ q.header \in GT!Role /\ q.answers
  BY <1>4
<1>. QED  BY <1>1, <1>2, <1>3, <1>4

\* What the chain for browsers makes of a request.
Meant(q) == q.csrfField # None /\ q.csrfField = q.csrfCookie
Browser(q) ==
  IF q.trusted /\ q.header \in GT!Role THEN q.header ELSE IF q.cookie THEN q.session ELSE None
CannotTell(q) == ~q.answers /\ (q.cookie \/ (q.trusted /\ q.header # None))

LEMMA SessionAuthFacts ==
  ASSUME NEW q \in GT!Request
  PROVE  LET c == GT!SessionAuth(q, GT!ProxyAuth(q, GT!Passing))
         IN /\ c \in [status : {"on", "error", "unauthorized"}, user : GT!Role \cup {None}, scope : {None}]
            /\ c.status = (IF CannotTell(q) THEN "error"
                           ELSE IF Browser(q) = None THEN "unauthorized" ELSE "on")
            /\ c.status = "on" => c.user = Browser(q)
<1>. DEFINE b == GT!ProxyAuth(q, GT!Passing)
            c == GT!SessionAuth(q, b)
<1>1. /\ b \in [status : {"on", "error"}, user : GT!Role \cup {None}, scope : {None}]
      /\ b.status = "on" <=> ~q.trusted \/ q.header = None \/ q.answers
      /\ b.status = "on" => b.user = IF q.trusted /\ q.header \in GT!Role THEN q.header ELSE None
  BY ProxyAuthFacts
<1>. SUFFICES
       /\ c \in [status : {"on", "error", "unauthorized"}, user : GT!Role \cup {None}, scope : {None}]
       /\ c.status = (IF CannotTell(q) THEN "error"
                      ELSE IF Browser(q) = None THEN "unauthorized" ELSE "on")
       /\ c.status = "on" => c.user = Browser(q)
  OBVIOUS
<1>. HIDE DEF b
<1>2. CASE b.status # "on"
  <2>1. c = b /\ b.status = "error"
    BY <1>1, <1>2 DEF GT!SessionAuth
  <2>2. CannotTell(q)
    BY <1>1, <1>2, RequestFacts DEF CannotTell
  <2>. QED  BY <1>1, <2>1, <2>2
<1>3. CASE b.status = "on" /\ b.user # None
  <2>1. c = b
    BY <1>3 DEF GT!SessionAuth
  <2>2. b.user = q.header /\ q.trusted /\ q.header \in GT!Role /\ q.header # None
    BY <1>1, <1>3, NobodyAssumption
  <2>3. ~CannotTell(q) /\ Browser(q) = b.user
    BY <1>1, <1>3, <2>2 DEF CannotTell, Browser
  <2>. QED  BY <1>1, <1>3, <2>1, <2>3
<1>4. CASE b.status = "on" /\ b.user = None
  <2>1. ~(q.trusted /\ q.header \in GT!Role)
    BY <1>1, <1>4, NobodyAssumption
  <2>2. CannotTell(q) <=> q.cookie /\ ~q.answers
    BY <1>1, <1>4 DEF CannotTell
  <2>3. Browser(q) = IF q.cookie THEN q.session ELSE None
    BY <2>1 DEF Browser
  <2>4. c = IF q.cookie /\ ~q.answers THEN [b EXCEPT !.status = "error"]
            ELSE IF q.cookie /\ q.session # None THEN [b EXCEPT !.user = q.session]
            ELSE [b EXCEPT !.status = "unauthorized"]
    BY <1>4 DEF GT!SessionAuth, GT!Stop, GT!AsUser
  <2>5. q.session \in GT!Role \cup {None}
    BY RequestFacts
  <2>. HIDE DEF c
  <2>6. CASE q.cookie /\ ~q.answers
    BY <1>1, <2>2, <2>4, <2>6
  <2>7. CASE q.cookie /\ q.session # None /\ q.answers
    BY <1>1, <1>4, <2>2, <2>3, <2>4, <2>5, <2>7
  <2>8. CASE ~(q.cookie /\ ~q.answers) /\ ~(q.cookie /\ q.session # None)
    BY <1>1, <2>2, <2>3, <2>4, <2>8
  <2>9. q.cookie \in BOOLEAN /\ q.answers \in BOOLEAN
    BY RequestFacts
  <2>10. \/ q.cookie /\ ~q.answers
         \/ q.cookie /\ q.session # None /\ q.answers
         \/ ~(q.cookie /\ ~q.answers) /\ ~(q.cookie /\ q.session # None)
    BY Zenon
  <2>. QED  BY <2>6, <2>7, <2>8, <2>10 DEF c
<1>. QED  BY <1>2, <1>3, <1>4

Chain == [status : {"on", "error", "unauthorized", "forbidden"}, user : GT!Role \cup {None},
          scope : GT!Scope \cup {None}]

\* The chain for browsers, with the token of the page.
LEMMA SignedInFacts ==
  ASSUME NEW q \in GT!Request
  PROVE  /\ SignedIn(q) \in Chain
         /\ SignedIn(q).status = (IF CannotTell(q) THEN "error"
                                  ELSE IF Browser(q) = None THEN "unauthorized"
                                  ELSE IF GT!Changes(q) /\ ~Meant(q) THEN "forbidden" ELSE "on")
         /\ SignedIn(q).status = "on" => SignedIn(q).user = Browser(q) /\ SignedIn(q).scope = None
<1>. DEFINE c == GT!SessionAuth(q, GT!ProxyAuth(q, GT!Passing))
<1>1. /\ c \in [status : {"on", "error", "unauthorized"}, user : GT!Role \cup {None}, scope : {None}]
      /\ c.status = (IF CannotTell(q) THEN "error"
                     ELSE IF Browser(q) = None THEN "unauthorized" ELSE "on")
      /\ c.status = "on" => c.user = Browser(q)
  BY SessionAuthFacts
<1>2. SignedIn(q) = GT!CsrfProtect(q, c)
  BY DEF SignedIn
<1>3. q.method \in {"GET", "POST"}
  BY RequestFacts
<1>. HIDE DEF c
<1>4. CASE c.status # "on" \/ q.method = "GET" \/ Meant(q)
  <2>1. SignedIn(q) = c
    BY <1>2, <1>4 DEF GT!CsrfProtect, Meant
  <2>. QED  BY <2>1, <1>1, <1>4 DEF GT!Changes, Chain
<1>5. CASE c.status = "on" /\ q.method = "POST" /\ ~Meant(q)
  <2>1. SignedIn(q) = [c EXCEPT !.status = "forbidden"]
    BY <1>2, <1>5 DEF GT!CsrfProtect, Meant, GT!Stop
  <2>. QED  BY <2>1, <1>1, <1>5 DEF GT!Changes, Chain
<1>. QED  BY <1>3, <1>4, <1>5

\* The chain of the API, before the gates of its groups.
Caller(q) == IF q.bearer.sent THEN q.bearer.owner ELSE IF q.cookie THEN q.session ELSE None

LEMMA ApiAuthFacts ==
  ASSUME NEW q \in GT!Request
  PROVE  LET c == GT!ApiAuth(q, GT!Passing)
         IN /\ c \in Chain
            /\ c.status = (IF ~q.answers /\ (q.bearer.sent \/ (q.cookie /\ q.method = "GET")) THEN "error"
                           ELSE IF Caller(q) = None \/ (~q.bearer.sent /\ q.method # "GET")
                                THEN "unauthorized" ELSE "on")
            /\ c.status = "on" => c.user = Caller(q) /\ c.scope = q.bearer.scope
<1>. DEFINE c == GT!ApiAuth(q, GT!Passing)
            b == q.bearer
            p == GT!Passing
<1>. SUFFICES
       /\ c \in Chain
       /\ c.status = (IF ~q.answers /\ (b.sent \/ (q.cookie /\ q.method = "GET")) THEN "error"
                      ELSE IF Caller(q) = None \/ (~b.sent /\ q.method # "GET")
                           THEN "unauthorized" ELSE "on")
       /\ c.status = "on" => c.user = Caller(q) /\ c.scope = b.scope
  OBVIOUS
<1>1. /\ b.sent \in BOOLEAN
      /\ b.owner = None <=> b.scope = None
      /\ ~b.sent => b.owner = None
      /\ b.owner \in GT!Role \cup {None} /\ b.scope \in GT!Scope \cup {None}
  BY RequestFacts, BearerFacts
<1>2. q.session \in GT!Role \cup {None} /\ q.cookie \in BOOLEAN /\ q.answers \in BOOLEAN
  BY RequestFacts
<1>3. p \in Chain /\ p.status = "on" /\ p.user = None /\ p.scope = None
  BY DEF GT!Passing, Chain
<1>4. c = IF b.sent
          THEN IF ~q.answers THEN [p EXCEPT !.status = "error"]
               ELSE IF b.owner = None THEN [p EXCEPT !.status = "unauthorized"]
               ELSE [p EXCEPT !.user = b.owner, !.scope = b.scope]
          ELSE IF q.method # "GET" THEN [p EXCEPT !.status = "unauthorized"]
          ELSE IF q.cookie /\ ~q.answers THEN [p EXCEPT !.status = "error"]
          ELSE IF q.cookie /\ q.session # None THEN [p EXCEPT !.user = q.session]
          ELSE [p EXCEPT !.status = "unauthorized"]
  BY <1>3 DEF GT!ApiAuth, GT!SessionAuth, GT!Stop, GT!AsUser, GT!IsSafeMethod
<1>. HIDE DEF c, p, b
<1>. USE <1>1, <1>2, <1>3, <1>4 DEF Caller, Chain
<1>5. CASE b.sent /\ ~q.answers
  BY <1>5 DEF b
<1>6. CASE b.sent /\ q.answers
  BY <1>6 DEF b
<1>7. CASE ~b.sent /\ q.method # "GET"
  BY <1>7 DEF b
<1>8. CASE ~b.sent /\ q.method = "GET"
  BY <1>8 DEF b
<1>. QED  BY <1>5, <1>6, <1>7, <1>8

\* The groups of browsers.
LEMMA BrowserGroupsHold ==
  ASSUME NEW q \in GT!Request, q.group \in {"account", "admin", "catalog", "definitions"}
  PROVE  GT!GatesHold(q)
<1>. DEFINE c == SignedIn(q)
<1>1. /\ c \in Chain
      /\ c.status = (IF CannotTell(q) THEN "error"
                     ELSE IF Browser(q) = None THEN "unauthorized"
                     ELSE IF GT!Changes(q) /\ ~Meant(q) THEN "forbidden" ELSE "on")
      /\ c.status = "on" => c.user = Browser(q) /\ c.scope = None
  BY SignedInFacts
<1>2. GT!Handle(q) = CASE q.group = "account" -> c
                       [] q.group = "admin" -> GT!RequireAdmin(c)
                       [] q.group \in {"catalog", "definitions"} -> GT!RequireWrite(q, c)
  BY DEF GT!Handle, SignedIn
<1>. HIDE DEF c
<1>3. /\ q.group = "account" => GT!Handle(q).status = c.status
      /\ q.group = "admin" => GT!Handle(q).status =
           IF c.status = "on" /\ c.user # "admin" THEN "forbidden" ELSE c.status
      /\ q.group \in {"catalog", "definitions"} => GT!Handle(q).status =
           IF c.status = "on" /\ GT!Changes(q) /\ c.user = "viewer" THEN "forbidden" ELSE c.status
  <2>1. CASE q.group = "account"
    BY <1>2, <2>1
  <2>2. CASE q.group = "admin"
    <3>1. GT!Handle(q) = GT!RequireAdmin(c)
      BY <1>2, <2>2
    <3>. QED  BY <1>1, <2>2, <3>1 DEF GT!RequireAdmin, GT!Stop, Chain
  <2>3. CASE q.group \in {"catalog", "definitions"}
    <3>1. GT!Handle(q) = GT!RequireWrite(q, c)
      BY <1>2, <2>3
    <3>2. c.status = "on" => (GT!EffectiveCanWrite(c) <=> c.user # "viewer")
      BY <1>1, NobodyAssumption DEF GT!EffectiveCanWrite, GT!CanWrite, GT!Role, Chain
    <3>3. GT!IsSafeMethod(q) <=> ~GT!Changes(q)
      BY RequestFacts DEF GT!IsSafeMethod, GT!Changes
    <3>4. GT!Handle(q).status =
            IF c.status = "on" /\ GT!Changes(q) /\ c.user = "viewer" THEN "forbidden" ELSE c.status
      BY <1>1, <3>1, <3>2, <3>3 DEF GT!RequireWrite, GT!Stop, Chain
    <3>. QED  BY <2>3, <3>4
  <2>. QED  BY <2>1, <2>2, <2>3
<1>4. GT!Somebody(q) = Browser(q)
  BY DEF GT!Somebody, Browser
<1>5. ASSUME q.answers PROVE GT!Reaches(q) <=> GT!Granted(q) \/ GT!EditorDefines(q)
  <2>1. ~CannotTell(q)
    BY <1>5 DEF CannotTell
  <2>2. c.status = "on" <=> Browser(q) # None /\ (GT!Changes(q) => Meant(q))
    BY <1>1, <2>1
  <2>3. CASE q.group = "account"
    BY <1>3, <1>4, <2>2, <2>3 DEF GT!Reaches, GT!Granted, GT!EditorDefines, Meant
  <2>4. CASE q.group = "admin"
    BY <1>1, <1>3, <1>4, <2>2, <2>4, NobodyAssumption
       DEF GT!Reaches, GT!Granted, GT!EditorDefines, Meant, GT!Role
  <2>5. CASE q.group = "catalog"
    BY <1>1, <1>3, <1>4, <2>2, <2>5 DEF GT!Reaches, GT!Granted, GT!EditorDefines, Meant
  <2>6. CASE q.group = "definitions"
    <3>1. Browser(q) \in {"admin", "editor", "viewer", None}
      BY RequestFacts, NobodyAssumption DEF Browser, GT!Role
    <3>2. GT!Reaches(q) <=> c.status = "on" /\ ~(GT!Changes(q) /\ c.user = "viewer")
      BY <1>3, <2>6 DEF GT!Reaches
    <3>3. GT!Granted(q) <=> Browser(q) # None /\ (GT!Changes(q) => Meant(q) /\ Browser(q) = "admin")
      BY <1>4, <2>6 DEF GT!Granted, Meant
    <3>4. GT!EditorDefines(q) <=> GT!Changes(q) /\ Browser(q) = "editor" /\ Meant(q)
      BY <1>4, <2>6 DEF GT!EditorDefines, Meant
    <3>5. None \notin {"admin", "editor", "viewer"}
      BY NobodyAssumption DEF GT!Role
    <3>. QED  BY <1>1, <2>2, <3>1, <3>2, <3>3, <3>4, <3>5
  <2>. QED  BY <2>3, <2>4, <2>5, <2>6
<1>6. ASSUME ~q.answers PROVE GT!Handle(q).status = IF GT!Presents(q) THEN "error" ELSE "unauthorized"
  <2>1. CannotTell(q) <=> GT!Presents(q)
    BY <1>6 DEF CannotTell, GT!Presents
  <2>2. ~CannotTell(q) => Browser(q) = None
    BY <1>6, RequestFacts, NobodyAssumption DEF CannotTell, Browser
  <2>3. c.status = IF GT!Presents(q) THEN "error" ELSE "unauthorized"
    BY <1>1, <2>1, <2>2
  <2>. QED  BY <1>3, <2>3
<1>. QED  BY <1>5, <1>6, RequestFacts DEF GT!GatesHold, GT!GatesMatchPolicy, GT!FailuresAreErrors

\* The groups of the API.
LEMMA ApiGroupsHold ==
  ASSUME NEW q \in GT!Request, q.group \in {"api", "report"}
  PROVE  GT!GatesHold(q)
<1>. DEFINE c == GT!ApiAuth(q, GT!Passing)
<1>1. /\ c \in Chain
      /\ c.status = (IF ~q.answers /\ (q.bearer.sent \/ (q.cookie /\ q.method = "GET")) THEN "error"
                     ELSE IF Caller(q) = None \/ (~q.bearer.sent /\ q.method # "GET")
                          THEN "unauthorized" ELSE "on")
      /\ c.status = "on" => c.user = Caller(q) /\ c.scope = q.bearer.scope
  BY ApiAuthFacts
<1>2. GT!Handle(q) = CASE q.group = "api" -> GT!RequireWrite(q, GT!RejectAgentScope(c))
                       [] q.group = "report" -> GT!AgentReport(c)
  BY DEF GT!Handle
<1>. HIDE DEF c
<1>3. /\ q.method \in {"GET", "POST"} /\ (q.group = "report" => q.method = "POST")
      /\ q.bearer.sent \in BOOLEAN /\ q.answers \in BOOLEAN /\ q.cookie \in BOOLEAN
      /\ (q.bearer.owner = None <=> q.bearer.scope = None)
      /\ (~q.bearer.sent => q.bearer.owner = None)
      /\ q.bearer.scope \in GT!Scope \cup {None} /\ Caller(q) \in GT!Role \cup {None}
      /\ (q.session # None => q.cookie)
  <2>1. q.bearer \in GT!Bearer
    BY RequestFacts
  <2>. QED  BY <2>1, RequestFacts, BearerFacts DEF Caller
<1>4. GT!Somebody(q) = Caller(q) /\ (GT!Changes(q) <=> q.method = "POST")
  BY DEF GT!Somebody, Caller, GT!Changes
<1>5. q.group = "report" => GT!Handle(q).status =
        IF c.status = "on" /\ (q.bearer.scope # "agent" \/ Caller(q) \notin {"admin", "editor"})
        THEN "forbidden" ELSE c.status
  <2>. SUFFICES ASSUME q.group = "report" PROVE GT!Handle(q).status =
        IF c.status = "on" /\ (q.bearer.scope # "agent" \/ Caller(q) \notin {"admin", "editor"})
        THEN "forbidden" ELSE c.status
    OBVIOUS
  <2>1. GT!Handle(q) = GT!AgentReport(c)
    BY <1>2
  <2>. QED  BY <1>1, <2>1 DEF GT!AgentReport, GT!CanWrite, GT!Stop, Chain
<1>6. q.group = "api" => GT!Handle(q).status =
        IF c.status = "on" /\ \/ q.bearer.scope = "agent"
                              \/ /\ q.method = "POST"
                                 /\ ~(Caller(q) \in {"admin", "editor"} /\ q.bearer.scope \in {None, "read-write"})
        THEN "forbidden" ELSE c.status
  <2>. SUFFICES ASSUME q.group = "api" PROVE GT!Handle(q).status =
        IF c.status = "on" /\ \/ q.bearer.scope = "agent"
                              \/ /\ q.method = "POST"
                                 /\ ~(Caller(q) \in {"admin", "editor"} /\ q.bearer.scope \in {None, "read-write"})
        THEN "forbidden" ELSE c.status
    OBVIOUS
  <2>. DEFINE d == GT!RejectAgentScope(c)
  <2>1. GT!Handle(q) = GT!RequireWrite(q, d)
    BY <1>2
  <2>2. /\ d \in Chain /\ d.user = c.user /\ d.scope = c.scope
        /\ d.status = IF c.status = "on" /\ c.scope = "agent" THEN "forbidden" ELSE c.status
    BY <1>1 DEF GT!RejectAgentScope, GT!Stop, Chain
  <2>. HIDE DEF d
  <2>3. GT!RequireWrite(q, d).status =
          IF d.status = "on" /\ q.method = "POST"
             /\ ~(d.user \in {"admin", "editor"} /\ d.scope \in {None, "read-write"})
          THEN "forbidden" ELSE d.status
    BY <1>3, <2>2 DEF GT!RequireWrite, GT!IsSafeMethod, GT!EffectiveCanWrite, GT!CanWrite, GT!Stop, Chain
  <2>. QED  BY <1>1, <2>1, <2>2, <2>3
<1>7. ASSUME q.answers PROVE GT!Reaches(q) <=> GT!Granted(q)
  <2>1. c.status = "on" <=> Caller(q) # None /\ (q.bearer.sent \/ q.method = "GET")
    BY <1>1, <1>7
  <2>2. q.bearer.sent => Caller(q) = q.bearer.owner
    BY DEF Caller
  <2>3. CASE q.group = "report"
    <3>1. GT!Granted(q) <=> q.bearer.scope = "agent" /\ Caller(q) \in {"admin", "editor"}
      BY <1>4, <2>3 DEF GT!Granted
    <3>2. GT!Reaches(q) <=> c.status = "on" /\ q.bearer.scope = "agent" /\ Caller(q) \in {"admin", "editor"}
      BY <1>5, <2>3 DEF GT!Reaches
    <3>3. q.bearer.scope = "agent" => q.bearer.sent
      BY <1>3, NobodyAssumption DEF GT!Scope
    <3>4. Caller(q) \in {"admin", "editor"} => Caller(q) # None
      BY NobodyAssumption DEF GT!Role
    <3>. QED  BY <2>1, <3>1, <3>2, <3>3, <3>4
  <2>4. CASE q.group = "api"
    <3>1. GT!Granted(q) <=>
            /\ Caller(q) # None /\ q.bearer.scope # "agent"
            /\ (q.method = "POST" => q.bearer.scope = "read-write" /\ Caller(q) # "viewer")
      BY <1>4, <2>4 DEF GT!Granted
    <3>2. GT!Reaches(q) <=>
            /\ c.status = "on" /\ q.bearer.scope # "agent"
            /\ (q.method = "POST" =>
                  Caller(q) \in {"admin", "editor"} /\ q.bearer.scope \in {None, "read-write"})
      BY <1>6, <2>4 DEF GT!Reaches
    <3>3. q.bearer.scope = "read-write" => q.bearer.sent
      BY <1>3, NobodyAssumption DEF GT!Scope
    <3>4. Caller(q) # None => (Caller(q) \in {"admin", "editor"} <=> Caller(q) # "viewer")
      BY <1>3 DEF GT!Role
    <3>5. q.bearer.sent /\ Caller(q) # None => q.bearer.scope # None
      BY <1>3, <2>2
    <3>. QED  BY <1>3, <2>1, <3>1, <3>2, <3>3, <3>4, <3>5
  <2>. QED  BY <2>3, <2>4
<1>8. ASSUME ~q.answers PROVE GT!Handle(q).status = IF GT!Presents(q) THEN "error" ELSE "unauthorized"
  <2>1. GT!Presents(q) <=> q.bearer.sent \/ (q.cookie /\ q.method = "GET")
    BY DEF GT!Presents, GT!IsSafeMethod
  <2>2. ~GT!Presents(q) => Caller(q) = None \/ (~q.bearer.sent /\ q.method # "GET")
    BY <1>3, <2>1 DEF Caller
  <2>3. c.status = IF GT!Presents(q) THEN "error" ELSE "unauthorized"
    BY <1>1, <1>8, <2>1, <2>2
  <2>. QED  BY <1>5, <1>6, <2>3
<1>. QED  BY <1>3, <1>7, <1>8 DEF GT!GatesHold, GT!GatesMatchPolicy, GT!FailuresAreErrors, GT!EditorDefines

\* The pages before the login.
LEMMA OpenGroupsHold ==
  ASSUME NEW q \in GT!Request, q.group \in {"public", "login"}
  PROVE  GT!GatesHold(q)
<1>1. GT!Handle(q) = IF q.group = "public" THEN GT!Passing ELSE GT!CsrfProtect(q, GT!Passing)
  BY DEF GT!Handle
<1>2. q.method \in {"GET", "POST"}
  BY RequestFacts
<1>3. GT!Reaches(q) <=> q.group = "public" \/ (GT!Changes(q) => Meant(q))
  BY <1>1, <1>2 DEF GT!Reaches, GT!CsrfProtect, GT!Passing, GT!Stop, GT!Changes, Meant
<1>. QED  BY <1>3 DEF GT!GatesHold, GT!GatesMatchPolicy, GT!FailuresAreErrors, GT!Granted, GT!EditorDefines, Meant

(***************************************************************************)
(* For every request there can be (routes of New, internal/web/server.go):  *)
(* the chain of its group lets it through just when the documents grant it, *)
(* or when an editor changes the definitions of custom fields, which they   *)
(* do not grant; and when its credentials cannot be looked up it ends with  *)
(* an error, and is never taken for an anonymous one.                       *)
(***************************************************************************)
THEOREM EveryRequestIsGated == AllSpec => []GatesHold
<1>1. \A q \in GT!Request : GT!GatesHold(q)
  BY RequestFacts, BrowserGroupsHold, ApiGroupsHold, OpenGroupsHold DEF GT!Group
<1>2. AllInit => GatesHold
  <2>1. topic \in DOMAIN Pages => topic # "gates"
    BY PagesAssumption
  <2>. QED  BY <1>1, <2>1 DEF AllInit, PageInit, GatesHold
<1>3. GatesHold /\ [AllNext]_allVars => GatesHold'
  <2>. SUFFICES ASSUME GatesHold, [AllNext]_allVars PROVE GatesHold'
    OBVIOUS
  <2>1. topic' = topic /\ ask' = ask
    BY DEF AllNext, PairsNext, StartNext, ScanNext, DiscoveryNext, allVars
  <2>2. GT!GatesHold(ask)' <=> GT!GatesHold(ask)
    BY <2>1
  <2>. QED  BY <2>1, <2>2 DEF GatesHold
<1>. QED  BY <1>2, <1>3, PTL DEF AllSpec

-----------------------------------------------------------------------------
(***************************************************************************)
(* Manual discovery (Discovery)                                             *)
(*                                                                          *)
(* What an import adds depends on what the tab was shown and on what others *)
(* have done since: the invariant says of every tab what its review found   *)
(* untracked, and of the ids that no host has one that is still to come.    *)
(***************************************************************************)

\* Discovery's view of the library is the library's.
LEMMA SameCardinality == ASSUME NEW S PROVE DC!Cardinality(S) = Cardinality(S)
BY DEF DC!Cardinality, Cardinality

LEMMA SeqOfSet ==
  ASSUME NEW S, IsFiniteSet(S)
  PROVE  /\ Cardinality(S) \in Nat
         /\ DC!SetToSeq(S) \in [1 .. Cardinality(S) -> S]
         /\ DOMAIN DC!SetToSeq(S) = 1 .. Cardinality(S)
         /\ \A i, j \in 1 .. Cardinality(S) : DC!SetToSeq(S)[i] = DC!SetToSeq(S)[j] => i = j
         /\ \A x \in S : \E i \in 1 .. Cardinality(S) : DC!SetToSeq(S)[i] = x
<1>. DEFINE n == Cardinality(S)
            s == DC!SetToSeq(S)
<1>1. n \in Nat /\ IsFiniteSet(1 .. n) /\ Cardinality(1 .. n) = n /\ Injection(1 .. n, S) # {}
  <2>1. n \in Nat /\ ExistsBijection(1 .. n, S)
    BY FS_CardinalityType
  <2>2. IsFiniteSet(1 .. n) /\ Cardinality(1 .. n) = n
    BY <2>1, FS_Interval
  <2>. QED  BY <2>1, <2>2 DEF ExistsBijection, Bijection
<1>2. s = CHOOSE f \in [1 .. n -> S] : IsInjective(f)
  BY SameCardinality DEF DC!SetToSeq, DC!IsInjective, IsInjective
<1>3. s \in [1 .. n -> S] /\ IsInjective(s)
  BY <1>1, <1>2 DEF Injection
<1>4. s \in Surjection(1 .. n, S)
  <2>1. s \in Injection(1 .. n, S)
    BY <1>3 DEF Injection
  <2>. QED  BY <2>1, <1>1, FS_Injection
<1>. QED  BY <1>1, <1>3, <1>4 DEF IsInjective, Surjection

FromProxmox(S) == IsFiniteSet(S) /\ \A r \in S : r.id \notin {"scan", "by hand"}

\* What a tab shows, or its request has read.
TabOK(x) ==
  /\ x = [at |-> x.at, rows |-> x.rows, shown |-> x.shown, res |-> x.res,
          picked |-> x.picked, link |-> x.link, seen |-> x.seen]
  /\ x.at = "network" => IsFiniteSet(x.rows)
  /\ x.at = "submitted" => FromProxmox(x.res)
  /\ x.at \in {"proxmox", "submitted"} =>
       \A s \in x.shown : DC!NormalizeName(s.name) \notin DC!TrackedNames(x.seen)

DiscoveryInv ==
  /\ lastId \in Nat /\ \A h \in hosts : h.id \in 1 .. lastId
  /\ FromProxmox(cluster)
  /\ tab = [t \in Tab |-> tab[t]] /\ \A t \in Tab : TabOK(tab[t])

LEMMA AwayOK == TabOK(DC!Away)
BY DEF TabOK, DC!Away

LEMMA TabRecord ==
  ASSUME NEW x, NEW at, NEW rows, NEW shown, NEW res, NEW picked, NEW link, NEW seen,
         x = [at |-> at, rows |-> rows, shown |-> shown, res |-> res,
              picked |-> picked, link |-> link, seen |-> seen],
         at = "network" => IsFiniteSet(rows),
         at = "submitted" => FromProxmox(res),
         at \in {"proxmox", "submitted"} =>
           \A s \in shown : DC!NormalizeName(s.name) \notin DC!TrackedNames(seen)
  PROVE  TabOK(x) /\ x.at = at
<1>1. /\ x.at = at /\ x.rows = rows /\ x.shown = shown /\ x.res = res
      /\ x.picked = picked /\ x.link = link /\ x.seen = seen
  OBVIOUS
<1>2. x = [at |-> x.at, rows |-> x.rows, shown |-> x.shown, res |-> x.res,
           picked |-> x.picked, link |-> x.link, seen |-> x.seen]
  BY <1>1
<1>. QED  BY <1>1, <1>2 DEF TabOK

LEMMA DiscoveryInitOK == DC!Init => DiscoveryInv
<1>. SUFFICES ASSUME DC!Init PROVE DiscoveryInv
  OBVIOUS
<1>1. FromProxmox(cluster)
  BY ClustersAssumption DEF DC!Init, FromProxmox
<1>2. tab = [t \in Tab |-> tab[t]] /\ \A t \in Tab : TabOK(tab[t])
  BY AwayOK DEF DC!Init
<1>. QED  BY <1>1, <1>2 DEF DC!Init, DiscoveryInv

\* A tab goes on, and the hosts that there are have ids that have been given.
LEMMA TabGoesOn ==
  ASSUME DiscoveryInv, NEW t \in Tab, NEW x, TabOK(x), tab' = [tab EXCEPT ![t] = x], cluster' = cluster,
         lastId' \in Nat, \A h \in hosts' : h.id \in 1 .. lastId'
  PROVE  DiscoveryInv'
<1>1. tab' = [s \in Tab |-> IF s = t THEN x ELSE tab[s]]
  BY DEF DiscoveryInv
<1>2. tab' = [s \in Tab |-> tab'[s]] /\ \A s \in Tab : TabOK(tab'[s])
  BY <1>1 DEF DiscoveryInv
<1>3. FromProxmox(cluster')
  BY DEF DiscoveryInv
<1>. QED  BY <1>2, <1>3 DEF DiscoveryInv
-----------------------------------------------------------------------------
\* The hosts an import from the network adds.
LEMMA NetworkHosts ==
  ASSUME lastId \in Nat, NEW ips, IsFiniteSet(ips)
  PROVE  LET C == DC!HostsFrom(ips)
         IN /\ Cardinality(ips) \in Nat
            /\ \A h \in C : /\ h.id \in Nat /\ lastId < h.id /\ h.id <= lastId + Cardinality(ips)
                            /\ h.from.id = "scan" /\ \E a \in ips : h.ips = {a}
            /\ \A h, g \in C : h.ips \cap g.ips # {} => h = g
<1>. DEFINE C == DC!HostsFrom(ips)
            n == Cardinality(ips)
            order == DC!SetToSeq(ips)
            Host(i) == [id |-> lastId + i, name |-> Unknown, ips |-> {order[i]}, from |-> DC!ByScan]
<1>1. n \in Nat /\ order \in [1 .. n -> ips] /\ DOMAIN order = 1 .. n
      /\ \A i, j \in 1 .. n : order[i] = order[j] => i = j
  BY SeqOfSet
<1>2. C = {Host(i) : i \in 1 .. n}
  BY <1>1 DEF DC!HostsFrom
<1>3. DC!ByScan.id = "scan"
  BY DEF DC!ByScan, DC!ByHand
<1>4. \A h \in C : \E i \in 1 .. n : h = Host(i)
  BY <1>2
<1>. HIDE DEF order, C, n
<1>5. ASSUME NEW h \in C
      PROVE  /\ h.id \in Nat /\ lastId < h.id /\ h.id <= lastId + n
             /\ h.from.id = "scan" /\ \E a \in ips : h.ips = {a}
  <2>1. PICK i \in 1 .. n : h = Host(i)
    BY <1>4
  <2>. QED  BY <2>1, <1>1, <1>3
<1>6. ASSUME NEW h \in C, NEW g \in C, h.ips \cap g.ips # {} PROVE h = g
  <2>1. PICK i \in 1 .. n, j \in 1 .. n : h = Host(i) /\ g = Host(j)
    BY <1>4
  <2>2. order[i] = order[j]
    BY <2>1, <1>6
  <2>. QED  BY <2>1, <2>2, <1>1
<1>. QED  BY <1>1, <1>5, <1>6 DEF C, n

\* The hosts that Proxmox's resources become.
LEMMA ProxmoxHosts ==
  ASSUME lastId \in Nat, NEW t \in Tab, FromProxmox(tab[t].res)
  PROVE  LET C == DC!Created(t, hosts)
             new == {r \in tab[t].res : /\ r.id \in tab[t].picked
                                        /\ DC!NormalizeName(r.name) \notin DC!TrackedNames(hosts)}
         IN /\ DC!Cardinality(C) \in Nat
            /\ \A h \in C : /\ h.id \in Nat /\ lastId < h.id /\ h.id <= lastId + DC!Cardinality(C)
                            /\ h.from \in new /\ h.name = h.from.name
            /\ \A r \in new : \E h \in C : h.from = r
<1>. DEFINE C == DC!Created(t, hosts)
            new == {r \in tab[t].res : /\ r.id \in tab[t].picked
                                       /\ DC!NormalizeName(r.name) \notin DC!TrackedNames(hosts)}
            n == Cardinality(new)
            order == DC!SetToSeq(new)
            Host(i) == [id |-> lastId + i, name |-> order[i].name, ips |-> {}, from |-> order[i]]
            f == [i \in 1 .. n |-> Host(i)]
<1>1. IsFiniteSet(new)
  BY FS_Subset DEF FromProxmox
<1>2. n \in Nat /\ order \in [1 .. n -> new] /\ DOMAIN order = 1 .. n
      /\ \A r \in new : \E i \in 1 .. n : order[i] = r
  BY <1>1, SeqOfSet
<1>3. C = {Host(i) : i \in 1 .. n}
  BY <1>2 DEF DC!Created
<1>. HIDE DEF order, C, n, new
<1>4. (\A h \in C : \E i \in 1 .. n : h = Host(i)) /\ \A i \in 1 .. n : Host(i) \in C
  BY <1>3
<1>5. Cardinality(C) = n
  <2>1. f \in [1 .. n -> C]
    BY <1>4
  <2>2. \A i, j \in 1 .. n : f[i] = f[j] => i = j
    <3>1. \A i \in 1 .. n : f[i].id = lastId + i
      OBVIOUS
    <3>. QED  BY <3>1, <1>2
  <2>3. \A h \in C : \E i \in 1 .. n : f[i] = h
    BY <1>4
  <2>. HIDE DEF f
  <2>4. f \in Bijection(1 .. n, C)
    BY <2>1, <2>2, <2>3 DEF Bijection, Injection, Surjection, IsInjective
  <2>. QED  BY <2>4, <1>2, FS_CountingElements DEF ExistsBijection
<1>6. ASSUME NEW h \in C
      PROVE  h.id \in Nat /\ lastId < h.id /\ h.id <= lastId + n /\ h.from \in new /\ h.name = h.from.name
  <2>1. PICK i \in 1 .. n : h = Host(i)
    BY <1>4
  <2>. QED  BY <2>1, <1>2
<1>7. ASSUME NEW r \in new PROVE \E h \in C : h.from = r
  <2>1. PICK i \in 1 .. n : order[i] = r
    BY <1>2
  <2>2. Host(i) \in C /\ Host(i).from = r
    BY <1>4, <2>1
  <2>. QED  BY <2>2
<1>8. DC!Cardinality(C) = n
  BY <1>5, SameCardinality
<1>. QED  BY <1>2, <1>6, <1>7, <1>8 DEF C, new
-----------------------------------------------------------------------------
\* What the properties of Discovery say of a step.
NotTwice ==
  \A h \in DC!New :
    /\ h.from.id = "scan" => \A g \in hosts' \ {h} : g.ips \cap h.ips = {}
    /\ h.from.id \notin {"scan", "by hand"} =>
         DC!NormalizeName(h.name) \notin DC!TrackedNames(hosts)

OnTheirNodes ==
  \A e \in edges' \ edges :
    \E g \in DC!New, n \in hosts' :
      /\ e = <<g.id, n.id>> /\ g # n
      /\ DC!NormalizeName(n.name) = DC!NormalizeName(g.from.node)
      /\ (\E m \in DC!New : ~DC!IsGuest(m.from) /\ DC!NormalizeName(m.name) = DC!NormalizeName(g.from.node)) => n \in DC!New

AsPicked ==
  \A t \in Tab : tab[t].at = "submitted" /\ tab'[t].at = "away" =>
    LET chosen == {r \in tab[t].res : r.id \in tab[t].picked}
        asShown == {r \in chosen : \E s \in tab[t].shown :
                      s.id = r.id /\ DC!NormalizeName(s.name) = DC!NormalizeName(r.name)}
        imported == {h.from : h \in DC!New}
    IN /\ imported \subseteq chosen
       /\ hosts = tab[t].seen => asShown \subseteq imported
       /\ tab[t].link =>
            \A g \in DC!New : DC!IsGuest(g.from) /\ DC!NormalizeName(g.from.node) \in DC!TrackedNames(hosts) =>
              \E n \in hosts' : <<g.id, n.id>> \in edges'

StepOK == DiscoveryInv' /\ NotTwice /\ OnTheirNodes /\ AsPicked

\* A tab goes on, and nothing is imported.
LEMMA NothingImported ==
  ASSUME DiscoveryInv, NEW t \in Tab, NEW x, TabOK(x), tab' = [tab EXCEPT ![t] = x],
         tab[t].at # "submitted" \/ x.at # "away",
         UNCHANGED <<hosts, lastId, edges, cluster>>
  PROVE  StepOK
<1>1. DiscoveryInv'
  BY TabGoesOn DEF DiscoveryInv
<1>2. DC!New = {} /\ edges' \ edges = {}
  BY DEF DC!New
<1>3. \A s \in Tab : ~(tab[s].at = "submitted" /\ tab'[s].at = "away")
  BY DEF DiscoveryInv
<1>. QED  BY <1>1, <1>2, <1>3, Zenon DEF StepOK, NotTwice, OnTheirNodes, AsPicked

LEMMA ScanNetworkOK ==
  ASSUME DiscoveryInv, NEW t \in Tab, NEW found \in SUBSET Address, DC!ScanNetwork(t, found)
  PROVE  StepOK
<1>. DEFINE x == [DC!Away EXCEPT !.at = "network", !.rows = found \ DC!TrackedIPs(hosts), !.seen = hosts]
<1>1. IsFiniteSet(found \ DC!TrackedIPs(hosts))
  BY AddressAssumption, FS_Subset
<1>2. TabOK(x) /\ x.at = "network"
  <2>1. ASSUME NEW z, z = x
        PROVE  z = [at |-> "network", rows |-> found \ DC!TrackedIPs(hosts), shown |-> {}, res |-> {},
                    picked |-> {}, link |-> FALSE, seen |-> hosts]
    BY <2>1 DEF DC!Away
  <2>. HIDE DEF x
  <2>. QED  BY <1>1, <2>1, TabRecord
<1>3. tab' = [tab EXCEPT ![t] = x] /\ UNCHANGED <<hosts, lastId, edges, cluster>>
  BY DEF DC!ScanNetwork
<1>. HIDE DEF x
<1>. QED  BY <1>2, <1>3, NothingImported

LEMMA ScanProxmoxOK ==
  ASSUME DiscoveryInv, NEW t \in Tab, DC!ScanProxmox(t)
  PROVE  StepOK
<1>. DEFINE new == {r \in cluster : DC!NormalizeName(r.name) \notin DC!TrackedNames(hosts)}
            x == [DC!Away EXCEPT !.at = "proxmox", !.seen = hosts, !.shown = new, !.rows = {r.id : r \in new}]
<1>1. \A s \in new : DC!NormalizeName(s.name) \notin DC!TrackedNames(hosts)
  OBVIOUS
<1>2. tab' = [tab EXCEPT ![t] = x] /\ UNCHANGED <<hosts, lastId, edges, cluster>>
  BY DEF DC!ScanProxmox
<1>3. TabOK(x) /\ x.at = "proxmox"
  <2>. HIDE DEF new
  <2>1. ASSUME NEW z, z = x
        PROVE  z = [at |-> "proxmox", rows |-> {r.id : r \in new}, shown |-> new, res |-> {},
                    picked |-> {}, link |-> FALSE, seen |-> hosts]
    BY <2>1 DEF DC!Away
  <2>. HIDE DEF x
  <2>. QED  BY <1>1, <2>1, TabRecord
<1>. HIDE DEF x
<1>. QED  BY <1>2, <1>3, NothingImported

LEMMA RequeryOK ==
  ASSUME DiscoveryInv, NEW t \in Tab, NEW picked, NEW link, DC!Requery(t, picked, link)
  PROVE  StepOK
<1>. DEFINE y == tab[t]
            x == [y EXCEPT !.at = "submitted", !.res = cluster, !.picked = picked, !.link = link]
<1>1. TabOK(y) /\ y.at = "proxmox" /\ FromProxmox(cluster)
  BY DEF DC!Requery, DiscoveryInv
<1>2. tab' = [tab EXCEPT ![t] = x] /\ UNCHANGED <<hosts, lastId, edges, cluster>>
  BY DEF DC!Requery
<1>3. y.at # "submitted"
  BY <1>1
<1>. HIDE DEF y
<1>4. ASSUME NEW z, z = x
      PROVE  z = [at |-> "submitted", rows |-> y.rows, shown |-> y.shown, res |-> cluster,
                  picked |-> picked, link |-> link, seen |-> y.seen]
  BY <1>1, <1>4 DEF TabOK
<1>. HIDE DEF x
<1>5. TabOK(x)
  <2>1. \A s \in y.shown : DC!NormalizeName(s.name) \notin DC!TrackedNames(y.seen)
    BY <1>1 DEF TabOK
  <2>. QED  BY <1>1, <1>4, <2>1, TabRecord
<1>. QED  BY <1>2, <1>3, <1>5, NothingImported DEF y

LEMMA FailOK ==
  ASSUME DiscoveryInv, NEW t \in Tab, DC!Fail(t)
  PROVE  StepOK
<1>. DEFINE x == [DC!Away EXCEPT !.at = "error"]
<1>1. TabOK(x) /\ x.at = "error"
  <2>1. ASSUME NEW z, z = x
        PROVE  z = [at |-> "error", rows |-> {}, shown |-> {}, res |-> {},
                    picked |-> {}, link |-> FALSE, seen |-> {}]
    BY <2>1 DEF DC!Away
  <2>. HIDE DEF x
  <2>. QED  BY <2>1, TabRecord
<1>2. tab' = [tab EXCEPT ![t] = x] /\ UNCHANGED <<hosts, lastId, edges, cluster>>
  BY DEF DC!Fail
<1>. HIDE DEF x
<1>. QED  BY <1>1, <1>2, NothingImported

LEMMA ImportNetworkOK ==
  ASSUME DiscoveryInv, NEW t \in Tab, NEW picked \in SUBSET tab[t].rows, DC!ImportNetwork(t, picked)
  PROVE  StepOK
<1>. DEFINE new == picked \ DC!TrackedIPs(hosts)
            C == DC!HostsFrom(new)
<1>1. /\ tab[t].at = "network" /\ hosts' = hosts \cup C /\ lastId' = lastId + DC!Cardinality(new)
      /\ tab' = [tab EXCEPT ![t] = DC!Away] /\ UNCHANGED <<edges, cluster>>
  BY DEF DC!ImportNetwork
<1>2. IsFiniteSet(new) /\ DC!Cardinality(new) = Cardinality(new) /\ lastId \in Nat
  <2>1. IsFiniteSet(tab[t].rows)
    BY <1>1 DEF DiscoveryInv, TabOK
  <2>. QED  BY <2>1, FS_Subset, SameCardinality DEF DiscoveryInv
<1>3. /\ Cardinality(new) \in Nat
      /\ \A h \in C : /\ h.id \in Nat /\ lastId < h.id /\ h.id <= lastId + Cardinality(new)
                      /\ h.from.id = "scan" /\ \E a \in new : h.ips = {a}
      /\ \A h, g \in C : h.ips \cap g.ips # {} => h = g
  BY <1>2, NetworkHosts
<1>4. \A h \in hosts, a \in new : a \notin h.ips
  BY DEF DC!TrackedIPs
<1>. HIDE DEF C, new
<1>5. DiscoveryInv'
  <2>1. \A h \in hosts' : h.id \in 1 .. lastId'
    BY <1>1, <1>2, <1>3 DEF DiscoveryInv
  <2>2. lastId' \in Nat
    BY <1>1, <1>2, <1>3
  <2>. QED  BY <1>1, <2>1, <2>2, AwayOK, TabGoesOn
<1>6. DC!New \subseteq C /\ hosts' = hosts \cup C
  BY <1>1 DEF DC!New
<1>7. NotTwice
  <2>1. ASSUME NEW h \in C, NEW g \in hosts', g # h PROVE g.ips \cap h.ips = {}
    <3>1. CASE g \in hosts
      BY <3>1, <1>3, <1>4
    <3>2. CASE g \in C
      BY <2>1, <3>2, <1>3
    <3>. QED  BY <3>1, <3>2, <1>6
  <2>2. ASSUME NEW h \in C PROVE \A g \in hosts' \ {h} : g.ips \cap h.ips = {}
    BY <2>1
  <2>3. ASSUME NEW h \in DC!New PROVE h \in C /\ h.from.id = "scan"
    BY <1>6, <1>3
  <2>. QED  BY <2>2, <2>3 DEF NotTwice
<1>8. OnTheirNodes
  BY <1>1 DEF OnTheirNodes
<1>9. AsPicked
  <2>1. \A s \in Tab : ~(tab[s].at = "submitted" /\ tab'[s].at = "away")
    BY <1>1 DEF DiscoveryInv
  <2>. QED  BY <2>1, Zenon DEF AsPicked
<1>. QED  BY <1>5, <1>7, <1>8, <1>9 DEF StepOK

LEMMA ByHandOK ==
  ASSUME DiscoveryInv,
         \/ \E name \in Name, ips \in SUBSET Address : DC!CreateByHand(name, ips)
         \/ \E h \in hosts : DC!Delete(h)
         \/ \E c \in Clusters : DC!ClusterChanges(c)
  PROVE  StepOK
<1>1. \A s \in Tab : tab' = tab /\ ~(tab[s].at = "submitted" /\ tab'[s].at = "away")
  BY DEF DC!CreateByHand, DC!Delete, DC!ClusterChanges
<1>2. AsPicked
  BY <1>1, Zenon DEF AsPicked
<1>3. OnTheirNodes
  <2>1. edges' \ edges = {}
    BY DEF DC!CreateByHand, DC!Delete, DC!ClusterChanges
  <2>. QED  BY <2>1 DEF OnTheirNodes
<1>4. NotTwice
  <2>1. \A h \in DC!New : h.from = DC!ByHand
    BY DEF DC!New, DC!CreateByHand, DC!Delete, DC!ClusterChanges
  <2>2. DC!ByHand.id = "by hand"
    BY DEF DC!ByHand
  <2>. QED  BY <2>1, <2>2 DEF NotTwice
<1>5. DiscoveryInv'
  <2>1. tab' = tab
    BY DEF DC!CreateByHand, DC!Delete, DC!ClusterChanges
  <2>2. FromProxmox(cluster')
    BY ClustersAssumption DEF DC!CreateByHand, DC!Delete, DC!ClusterChanges, FromProxmox, DiscoveryInv
  <2>3. lastId' \in Nat /\ \A h \in hosts' : h.id \in 1 .. lastId'
    BY DEF DC!CreateByHand, DC!Delete, DC!ClusterChanges, DiscoveryInv
  <2>. QED  BY <2>1, <2>2, <2>3 DEF DiscoveryInv
<1>. QED  BY <1>2, <1>3, <1>4, <1>5 DEF StepOK

LEMMA ImportProxmoxOK ==
  ASSUME DiscoveryInv, NEW t \in Tab, DC!ImportProxmox(t)
  PROVE  StepOK
<1>. DEFINE C == DC!Created(t, hosts)
            new == {r \in tab[t].res : /\ r.id \in tab[t].picked
                                       /\ DC!NormalizeName(r.name) \notin DC!TrackedNames(hosts)}
            guests == {g \in C : tab[t].link /\ DC!IsGuest(g.from) /\ DC!Nodes(g, C) # {}}
<1>1. tab[t].at = "submitted" /\ DC!Commit(t, C)
  BY DEF DC!ImportProxmox
<1>2. /\ DC!Cardinality(C) \in Nat
      /\ \A h \in C : /\ h.id \in Nat /\ lastId < h.id /\ h.id <= lastId + DC!Cardinality(C)
                      /\ h.from \in new /\ h.name = h.from.name
      /\ \A r \in new : \E h \in C : h.from = r
  <2>1. FromProxmox(tab[t].res) /\ lastId \in Nat
    BY <1>1 DEF DiscoveryInv, TabOK
  <2>. QED  BY <2>1, ProxmoxHosts
<1>. HIDE DEF C
<1>3. PICK node \in [guests -> hosts \cup C] :
        /\ \A g \in guests : node[g] \in DC!Nodes(g, C)
        /\ edges' = edges \cup {<<g.id, node[g].id>> : g \in guests}
  BY <1>1 DEF DC!Commit
<1>4. /\ hosts' = hosts \cup C /\ lastId' = lastId + DC!Cardinality(C)
      /\ tab' = [tab EXCEPT ![t] = DC!Away] /\ cluster' = cluster
  BY <1>1 DEF DC!Commit
<1>5. \A h \in C : h \notin hosts
  BY <1>2 DEF DiscoveryInv
<1>6. DC!New = C
  BY <1>4, <1>5 DEF DC!New
<1>7. DiscoveryInv'
  <2>1. lastId' \in Nat /\ \A h \in hosts' : h.id \in 1 .. lastId'
    BY <1>2, <1>4 DEF DiscoveryInv
  <2>. QED  BY <1>4, <2>1, AwayOK, TabGoesOn
<1>8. NotTwice
  <2>1. \A h \in C : h.from.id # "scan" /\ DC!NormalizeName(h.name) \notin DC!TrackedNames(hosts)
    BY <1>1, <1>2 DEF DiscoveryInv, TabOK, FromProxmox
  <2>. QED  BY <2>1, <1>6 DEF NotTwice
<1>9. \A g \in C : \A n \in DC!Nodes(g, C) :
        /\ n \in hosts \cup C /\ DC!NormalizeName(n.name) = DC!NormalizeName(g.from.node)
        /\ n \in hosts \/ ~DC!IsGuest(n.from)
        /\ (\E m \in C : ~DC!IsGuest(m.from) /\ DC!NormalizeName(m.name) = DC!NormalizeName(g.from.node)) => n \in C
  BY DEF DC!Nodes
<1>10. OnTheirNodes
  <2>. SUFFICES ASSUME NEW e \in edges' \ edges
                PROVE  \E g \in C, n \in hosts' :
                         /\ e = <<g.id, n.id>> /\ g # n
                         /\ DC!NormalizeName(n.name) = DC!NormalizeName(g.from.node)
                         /\ (\E m \in C : ~DC!IsGuest(m.from) /\ DC!NormalizeName(m.name) = DC!NormalizeName(g.from.node)) => n \in C
    BY <1>6 DEF OnTheirNodes
  <2>1. PICK g \in guests : e = <<g.id, node[g].id>>
    BY <1>3
  <2>. DEFINE n == node[g]
  <2>2. g \in C /\ DC!IsGuest(g.from) /\ n \in DC!Nodes(g, C)
    BY <1>3
  <2>. HIDE DEF n
  <2>3. g # n
    BY <2>2, <1>5, <1>9
  <2>. QED  BY <2>1, <2>2, <2>3, <1>4, <1>9 DEF n
<1>11. AsPicked
  <2>1. \A s \in Tab : tab[s].at = "submitted" /\ tab'[s].at = "away" => s = t
    BY <1>4 DEF DiscoveryInv
  <2>. DEFINE chosen == {r \in tab[t].res : r.id \in tab[t].picked}
              asShown == {r \in chosen : \E s \in tab[t].shown :
                            s.id = r.id /\ DC!NormalizeName(s.name) = DC!NormalizeName(r.name)}
  <2>2. {h.from : h \in C} \subseteq chosen
    BY <1>2
  <2>3. ASSUME hosts = tab[t].seen PROVE asShown \subseteq {h.from : h \in C}
    <3>1. \A r \in asShown : DC!NormalizeName(r.name) \notin DC!TrackedNames(hosts)
      BY <1>1, <2>3 DEF DiscoveryInv, TabOK
    <3>2. asShown \subseteq new
      BY <3>1
    <3>. QED  BY <3>2, <1>2
  <2>4. ASSUME tab[t].link, NEW g \in C, DC!IsGuest(g.from),
               DC!NormalizeName(g.from.node) \in DC!TrackedNames(hosts)
        PROVE  \E n \in hosts' : <<g.id, n.id>> \in edges'
    <3>1. PICK h \in hosts : DC!NormalizeName(h.name) = DC!NormalizeName(g.from.node)
      BY <2>4 DEF DC!TrackedNames
    <3>2. DC!Nodes(g, C) # {}
      BY <3>1 DEF DC!Nodes
    <3>3. g \in guests /\ node[g] \in hosts'
      BY <2>4, <3>2, <1>3, <1>4
    <3>. QED  BY <3>3, <1>3
  <2>. HIDE DEF chosen, asShown
  <2>. SUFFICES /\ {h.from : h \in DC!New} \subseteq chosen
                /\ hosts = tab[t].seen => asShown \subseteq {h.from : h \in DC!New}
                /\ tab[t].link =>
                     \A g \in DC!New : DC!IsGuest(g.from) /\ DC!NormalizeName(g.from.node) \in DC!TrackedNames(hosts) =>
                       \E n \in hosts' : <<g.id, n.id>> \in edges'
    BY <2>1, Zenon DEF AsPicked, chosen, asShown
  <2>. QED  BY <1>6, <2>2, <2>3, <2>4
<1>. QED  BY <1>7, <1>8, <1>10, <1>11 DEF StepOK

LEMMA DiscoveryInductive ==
  ASSUME DiscoveryInv, DC!Next
  PROVE  StepOK
BY ScanNetworkOK, ImportNetworkOK, RequeryOK, ScanProxmoxOK, ImportProxmoxOK, FailOK, ByHandOK DEF DC!Next

LEMMA DiscoveryInvariant == DiscoveryInv /\ [DC!Next]_DC!vars => DiscoveryInv'
<1>1. ASSUME DiscoveryInv, UNCHANGED DC!vars PROVE DiscoveryInv'
  BY <1>1 DEF DC!vars, DiscoveryInv
<1>. QED  BY <1>1, DiscoveryInductive DEF StepOK

LEMMA DiscoverySteps ==
  DiscoveryInv /\ [DC!Next]_DC!vars => [NotTwice]_DC!vars /\ [OnTheirNodes]_DC!vars /\ [AsPicked]_DC!vars
BY DiscoveryInductive DEF StepOK

(***************************************************************************)
(* For any hosts, clusters, tabs and edits in between: a submit of a review *)
(* (importNetwork, importProxmox) adds no machine that some host stands for *)
(* by then, adds what was picked and has kept its name, and links a guest   *)
(* to the record of its own node.                                           *)
(***************************************************************************)
THEOREM ImportsAddWhatIsMissing == DC!Spec => ImportsAddTheMissing
BY DiscoveryInitOK, DiscoveryInvariant, DiscoverySteps, PTL
   DEF DC!Spec, ImportsAddTheMissing, DC!ImportsAddTheMissing, DC!NothingImportedTwice,
       DC!GuestsRunOnTheirNodes, DC!PickedIsImported, NotTwice, OnTheirNodes, AsPicked
-----------------------------------------------------------------------------
(***************************************************************************)
(* Pure parts                                                               *)
(*                                                                          *)
(* What a report or a page works out is a function of what it is asked. Its *)
(* loops are recursive functions: that one exists, and what each of its     *)
(* steps keeps, follows from the numbers being well-founded.                *)
(***************************************************************************)

\* Every set of numbers has a least one, and so what goes on from each number to
\* the next holds of all.
Below == {p \in Nat \X Nat : p[1] < p[2]}

LEMMA Least ==
  ASSUME NEW T, T \subseteq Nat, T # {}
  PROVE  \E n \in T : \A m \in T : n <= m
<1>1. IsWellFoundedOn(Below, Nat)
  BY NatLessThanWellFounded DEF OpToRel, Below
<1>2. \E n \in T : \A m \in T : ~(<<m, n>> \in Below)
  BY <1>1, WFMin
<1>3. \E n \in T : \A m \in T : ~(m < n)
  BY <1>2 DEF Below
<1>. QED  BY <1>3

LEMMA Upwards ==
  ASSUME NEW N \in Nat, NEW S, 0 \in S, \A n \in 0 .. N - 1 : n \in S => n + 1 \in S
  PROVE  0 .. N \subseteq S
<1>. DEFINE T == {n \in 0 .. N : n \notin S}
<1>. SUFFICES ASSUME T # {} PROVE FALSE
  OBVIOUS
<1>1. T \subseteq Nat
  OBVIOUS
<1>2. PICK n \in T : \A m \in T : n <= m
  BY <1>1, Least
<1>3. n # 0 /\ n - 1 \in 0 .. N - 1 /\ n - 1 \notin T
  BY <1>2
<1>. QED  BY <1>3

\* A function that is defined by recursion exists.
StepsIn(N, S, step) == \A n \in 1 .. N, s \in S : step[<<n, s>>] \in S

Follows(g, N, first, step) == g[0] = first /\ \A n \in 1 .. N : g[n] = step[<<n, g[n - 1]>>]

LEMMA Recursion ==
  ASSUME NEW N \in Nat, NEW S, NEW first \in S, NEW step, StepsIn(N, S, step)
  PROVE  \E g \in [0 .. N -> S] : Follows(g, N, first, step)
<1>. USE DEF StepsIn, Follows
<1>. DEFINE Upto(m, g) == g[0] = first /\ \A n \in 1 .. m : g[n] = step[<<n, g[n - 1]>>]
            T == {m \in 0 .. N : \E g \in [0 .. m -> S] : Upto(m, g)}
<1>1. 0 \in T
  <2>. DEFINE g == [i \in 0 .. 0 |-> first]
  <2>1. g \in [0 .. 0 -> S] /\ g[0] = first
    OBVIOUS
  <2>2. 1 .. 0 = {}
    OBVIOUS
  <2>. HIDE DEF g
  <2>. QED  BY <2>1, <2>2
<1>2. ASSUME NEW m \in 0 .. N - 1, m \in T PROVE m + 1 \in T
  <2>1. PICK g \in [0 .. m -> S] : Upto(m, g)
    BY <1>2
  <2>. DEFINE v == step[<<m + 1, g[m]>>]
              h == [i \in 0 .. m + 1 |-> IF i = m + 1 THEN v ELSE g[i]]
  <2>2. v \in S
    <3>1. m + 1 \in 1 .. N /\ g[m] \in S
      OBVIOUS
    <3>. QED  BY <3>1
  <2>. HIDE DEF v
  <2>3. h \in [0 .. m + 1 -> S]
    BY <2>2
  <2>4. h[0] = first /\ h[m + 1] = v /\ \A i \in 0 .. m : h[i] = g[i]
    BY <2>1
  <2>. HIDE DEF h
  <2>5. ASSUME NEW n \in 1 .. m + 1 PROVE h[n] = step[<<n, h[n - 1]>>]
    <3>1. CASE n = m + 1
      BY <3>1, <2>4 DEF v
    <3>2. CASE n \in 1 .. m
      BY <3>2, <2>4, <2>1
    <3>. QED  BY <3>1, <3>2
  <2>. QED  BY <2>3, <2>4, <2>5
<1>. HIDE DEF T
<1>3. 0 .. N \subseteq T
  BY <1>1, <1>2, Upwards
<1>. QED  BY <1>3 DEF T

LEMMA Counting == ASSUME NEW n \in Nat PROVE IsFiniteSet(1 .. n) /\ Cardinality(1 .. n) = n
<1>1. IsFiniteSet(1 .. n) /\ Cardinality(1 .. n) = IF 1 > n THEN 0 ELSE n - 1 + 1
  BY FS_Interval
<1>. QED  BY <1>1

\* Two different members, and a cardinality of two.
LEMMA TwoOrMore ==
  ASSUME NEW S, IsFiniteSet(S), NEW x \in S, NEW y \in S, x # y
  PROVE  Cardinality(S) \in Nat /\ Cardinality(S) >= 2
<1>1. IsFiniteSet({x}) /\ Cardinality({x}) = 1
  BY FS_Singleton
<1>2. IsFiniteSet({x} \cup {y}) /\ Cardinality({x} \cup {y}) = 2
  <2>1. y \notin {x}
    OBVIOUS
  <2>2. /\ IsFiniteSet({x} \cup {y})
        /\ Cardinality({x} \cup {y}) = IF y \in {x} THEN Cardinality({x}) ELSE Cardinality({x}) + 1
    BY <1>1, FS_AddElement
  <2>. QED  BY <1>1, <2>1, <2>2
<1>3. ({x} \cup {y}) \in SUBSET S
  OBVIOUS
<1>. QED  BY <1>2, <1>3, FS_Subset, FS_CardinalityType

LEMMA TwoMembers ==
  ASSUME NEW S, IsFiniteSet(S), Cardinality(S) >= 2
  PROVE  \E x \in S, y \in S : x # y
<1>1. S # {}
  BY FS_EmptySet
<1>2. PICK x \in S : TRUE
  BY <1>1
<1>3. S # {x}
  BY FS_Singleton
<1>. QED  BY <1>2, <1>3

\* How many are left of a set without two others and one element more.
LEMMA LeftOver ==
  ASSUME NEW A, NEW B, NEW C, NEW g, IsFiniteSet(A), IsFiniteSet(B), IsFiniteSet(C)
  PROVE  /\ IsFiniteSet(A \ (B \cup C \cup {g}))
         /\ Cardinality(A) - Cardinality(B) - Cardinality(C) <= Cardinality(A \ (B \cup C \cup {g})) + 1
<1>. DEFINE X == B \cup C
            Y == X \cup {g}
            D == A \ Y
<1>1. IsFiniteSet(X) /\ Cardinality(X) = Cardinality(B) + Cardinality(C) - Cardinality(B \cap C)
  BY FS_Union
<1>2. IsFiniteSet(B \cap C)
  BY FS_Intersection
<1>3. /\ Cardinality(B \cap C) \in Nat /\ Cardinality(A) \in Nat
      /\ Cardinality(B) \in Nat /\ Cardinality(C) \in Nat /\ Cardinality(X) \in Nat
  BY <1>1, <1>2, FS_CardinalityType
<1>. HIDE DEF X
<1>4. IsFiniteSet(Y) /\ Cardinality(Y) = (IF g \in X THEN Cardinality(X) ELSE Cardinality(X) + 1)
  BY <1>1, FS_AddElement
<1>. HIDE DEF Y
<1>5. IsFiniteSet(D)
  BY FS_Difference
<1>6. Cardinality(A \cap Y) <= Cardinality(Y) /\ IsFiniteSet(A \cap Y)
  BY <1>4, FS_Intersection
<1>7. Cardinality(D) = Cardinality(A) - Cardinality(A \cap Y)
  BY FS_Difference
<1>8. Cardinality(A \cap Y) \in Nat /\ Cardinality(D) \in Nat /\ Cardinality(Y) \in Nat
  BY <1>4, <1>5, <1>6, FS_CardinalityType
<1>. HIDE DEF D
<1>9. Cardinality(A) - Cardinality(B) - Cardinality(C) <= Cardinality(D) + 1
  BY <1>1, <1>3, <1>4, <1>6, <1>7, <1>8
<1>. QED  BY <1>5, <1>9 DEF D, Y, X

LEMMA Concatenated ==
  ASSUME NEW T, NEW s \in Seq(T), NEW t \in Seq(T)
  PROVE  /\ s \o t \in Seq(T) /\ Len(s \o t) = Len(s) + Len(t)
         /\ \A k \in 1 .. Len(s) : (s \o t)[k] = s[k]
         /\ \A k \in Len(s) + 1 .. Len(s) + Len(t) : (s \o t)[k] = t[k - Len(s)]
OBVIOUS

-----------------------------------------------------------------------------
(***************************************************************************)
(* IP address management (Ipam)                                             *)
(*                                                                          *)
(* A network's addresses are an interval of a power of two. The walk over a *)
(* reserved range visits just the addresses in both, so what is reserved,   *)
(* claimed and left is counted with the cardinalities of finite sets; and   *)
(* the best network of an address is one of those that have it with a       *)
(* longest prefix.                                                          *)
(***************************************************************************)

\* Size is a function of the prefix's length, 2 to the power of it.
LEMMA SizeEquation == IP!Size = [b \in 0 .. Width |-> IF b = 0 THEN 1 ELSE 2 * IP!Size[b - 1]]
<1>. DEFINE step == [p \in (1 .. Width) \X Nat |-> 2 * p[2]]
            Eq(g) == g = [b \in 0 .. Width |-> IF b = 0 THEN 1 ELSE 2 * g[b - 1]]
<1>1. Width \in Nat /\ 1 \in Nat
  BY BitsAssumption
<1>2. \A n \in 1 .. Width, s \in Nat : step[<<n, s>>] = 2 * s
  OBVIOUS
<1>. HIDE DEF step
<1>3. StepsIn(Width, Nat, step)
  <2>. SUFFICES ASSUME NEW n \in 1 .. Width, NEW s \in Nat PROVE step[<<n, s>>] \in Nat
    BY DEF StepsIn
  <2>. QED  BY <1>2
<1>4. PICK g \in [0 .. Width -> Nat] : Follows(g, Width, 1, step)
  BY <1>1, <1>3, Recursion
<1>5. g[0] = 1 /\ \A n \in 1 .. Width : g[n] = step[<<n, g[n - 1]>>]
  BY <1>4 DEF Follows
<1>6. ASSUME NEW n \in 1 .. Width PROVE g[n] = 2 * g[n - 1]
  <2>1. g[n - 1] \in Nat
    BY <1>1
  <2>. QED  BY <1>2, <1>5, <2>1
<1>7. Eq(g)
  BY <1>1, <1>5, <1>6
<1>. QED BY <1>7 DEF IP!Size

LEMMA SizeFacts ==
  ASSUME NEW b \in 0 .. Width
  PROVE  IP!Size[b] \in Nat /\ IP!Size[b] >= 1 /\ (b >= 2 => IP!Size[b] >= 4)
<1>. DEFINE S == {c \in 0 .. Width : /\ IP!Size[c] \in Nat /\ IP!Size[c] >= 1
                                     /\ c >= 1 => IP!Size[c] >= 2
                                     /\ c >= 2 => IP!Size[c] >= 4}
<1>1. Width \in Nat
  BY BitsAssumption
<1>2. IP!Size[0] = 1 /\ \A c \in 1 .. Width : IP!Size[c] = 2 * IP!Size[c - 1]
  BY <1>1, SizeEquation
<1>3. 0 \in S
  BY <1>1, <1>2
<1>4. ASSUME NEW c \in 0 .. Width - 1, c \in S PROVE c + 1 \in S
  <2>1. c + 1 \in 1 .. Width /\ IP!Size[c + 1] = 2 * IP!Size[c]
    BY <1>1, <1>2
  <2>. QED  BY <1>1, <1>4, <2>1
<1>. HIDE DEF S
<1>5. 0 .. Width \subseteq S
  BY <1>1, <1>3, <1>4, Upwards
<1>. QED  BY <1>5 DEF S

\* A row of a network that Validate has let in.
Valid(n) == n \in [id : Nat, v4 : BOOLEAN, base : Nat, ones : 0 .. Width, gateway : Nat \cup {None},
                   padded : BOOLEAN]

LEMMA NetworkFacts ==
  ASSUME NEW n, Valid(n)
  PROVE  /\ IP!HostBits(n) \in 0 .. Width /\ n.base \in Nat
         /\ IP!Size[IP!HostBits(n)] \in Nat /\ IP!Size[IP!HostBits(n)] >= 1
         /\ IP!Last(n) \in Nat /\ n.base <= IP!Last(n)
         /\ IP!Last(n) - n.base + 1 = IP!Size[IP!HostBits(n)]
         /\ IP!HostBits(n) >= 2 => n.base + 3 <= IP!Last(n)
         /\ IP!Addresses(n) = n.base .. IP!Last(n) /\ IP!Addresses(n) \subseteq Nat
         /\ IsFiniteSet(IP!Addresses(n)) /\ Cardinality(IP!Addresses(n)) = IP!Size[IP!HostBits(n)]
<1>1. Width \in Nat /\ n.base \in Nat /\ IP!HostBits(n) \in 0 .. Width
  BY BitsAssumption DEF Valid, IP!HostBits
<1>2. /\ IP!Size[IP!HostBits(n)] \in Nat /\ IP!Size[IP!HostBits(n)] >= 1
      /\ IP!HostBits(n) >= 2 => IP!Size[IP!HostBits(n)] >= 4
  BY <1>1, SizeFacts
<1>3. /\ IP!Last(n) \in Nat /\ n.base <= IP!Last(n)
      /\ IP!Last(n) - n.base + 1 = IP!Size[IP!HostBits(n)]
      /\ IP!HostBits(n) >= 2 => n.base + 3 <= IP!Last(n)
  BY <1>1, <1>2 DEF IP!Last
<1>4. IP!Addresses(n) = n.base .. IP!Last(n)
  BY DEF IP!Addresses
<1>5. IP!Addresses(n) \subseteq Nat
  BY <1>1, <1>3, <1>4
<1>6. IsFiniteSet(IP!Addresses(n)) /\ Cardinality(IP!Addresses(n)) = IP!Size[IP!HostBits(n)]
  <2>1. n.base \in Int /\ IP!Last(n) \in Int /\ ~(n.base > IP!Last(n))
    BY <1>1, <1>3
  <2>2. IsFiniteSet(n.base .. IP!Last(n)) /\ Cardinality(n.base .. IP!Last(n)) = IP!Last(n) - n.base + 1
    BY <2>1, FS_Interval
  <2>. QED  BY <2>2, <1>3, <1>4
<1>. QED  BY <1>1, <1>2, <1>3, <1>4, <1>5, <1>6

LEMMA MinOf ==
  ASSUME NEW T, T \subseteq Nat, T # {}
  PROVE  IP!Min(T) \in T /\ \A x \in T : IP!Min(T) <= x
BY Least DEF IP!Min

\* The library's Min and Max, as the module uses them.
LEMMA OfTwo ==
  ASSUME NEW a \in Int, NEW b \in Int
  PROVE  /\ IP!Min({a, b}) = IF a <= b THEN a ELSE b
         /\ IP!Max({a, b}) = IF a <= b THEN b ELSE a
<1>1. CASE a <= b
  <2>1. \A x \in {a, b} : (\A y \in {a, b} : x <= y) <=> x = a
    BY <1>1
  <2>2. \A x \in {a, b} : (\A y \in {a, b} : x >= y) <=> x = b
    BY <1>1
  <2>. QED  BY <1>1, <2>1, <2>2 DEF IP!Min, IP!Max
<1>2. CASE ~(a <= b)
  <2>1. \A x \in {a, b} : (\A y \in {a, b} : x <= y) <=> x = b
    BY <1>2
  <2>2. \A x \in {a, b} : (\A y \in {a, b} : x >= y) <=> x = a
    BY <1>2
  <2>. QED  BY <1>2, <2>1, <2>2 DEF IP!Min, IP!Max
<1>. QED  BY <1>1, <1>2

LEMMA OfInterval ==
  ASSUME NEW a \in Int, NEW b \in Int, a <= b
  PROVE  IP!Min(a .. b) = a /\ IP!Max(a .. b) = b
<1>1. \A x \in a .. b : (\A y \in a .. b : x <= y) <=> x = a
  OBVIOUS
<1>2. \A x \in a .. b : (\A y \in a .. b : x >= y) <=> x = b
  OBVIOUS
<1>3. a \in a .. b /\ b \in a .. b
  OBVIOUS
<1>. QED  BY <1>1, <1>2, <1>3 DEF IP!Min, IP!Max

LEMMA IpCardinality == ASSUME NEW S PROVE IP!Cardinality(S) = Cardinality(S)
BY DEF IP!Cardinality, Cardinality

\* The walk over a range looks at just the addresses of the network in it.
LEMMA WalkedIsCovered ==
  ASSUME NEW n, Valid(n), NEW r, r.start \in Nat, r.end \in Nat
  PROVE  IP!Walked(n, r) = {a \in IP!Addresses(n) : r.start <= a /\ a <= r.end}
<1>. DEFINE from == r.start
            to == r.end
            base == n.base
            last == IP!Last(n)
            size == IP!Size[IP!HostBits(n)]
            first == IP!Max({from, base})
<1>1. base \in Nat /\ last \in Nat /\ size \in Nat /\ last - base + 1 = size /\ size >= 1
      /\ IP!Addresses(n) = base .. last
  BY NetworkFacts
<1>0. from \in Nat /\ to \in Nat
  OBVIOUS
<1>2. first = IF from <= base THEN base ELSE from
  <2>. HIDE DEF from, base
  <2>1. from \in Int /\ base \in Int
    BY <1>0, <1>1
  <2>. QED  BY <2>1, OfTwo
<1>a. first \in Nat
  BY <1>0, <1>1, <1>2
<1>. HIDE DEF first, size, last, base, to, from
<1>. SUFFICES IP!Walked(n, r) = {a \in base .. last : from <= a /\ a <= to}
  BY <1>1 DEF from, to
<1>3. CASE first > to
  <2>1. IP!Walked(n, r) = {}
    BY <1>3 DEF IP!Walked, first, to, from, base
  <2>2. \A a \in base .. last : ~(from <= a /\ a <= to)
    BY <1>0, <1>1, <1>2, <1>3
  <2>. QED  BY <2>1, <2>2
<1>4. CASE ~(first > to)
  <2>. DEFINE steps == IP!Min({size, to - first})
  <2>1. to - first \in Nat /\ size \in Int
    BY <1>0, <1>1, <1>a, <1>4
  <2>2. steps = IF size <= to - first THEN size ELSE to - first
    BY <2>1, OfTwo
  <2>3. IP!Walked(n, r) = {first + i : i \in 0 .. steps} \cap (base .. last)
    BY <1>1, <1>4 DEF IP!Walked, first, size, to, from, base
  <2>. HIDE DEF steps
  <2>4. steps \in Nat /\ steps <= to - first /\ (steps = size \/ steps = to - first)
    BY <1>1, <2>1, <2>2
  <2>5. ASSUME NEW i \in 0 .. steps
        PROVE  from <= first + i /\ first + i <= to
    BY <1>0, <1>1, <1>2, <1>a, <2>4
  <2>6. ASSUME NEW a \in base .. last, from <= a, a <= to
        PROVE  \E i \in 0 .. steps : a = first + i
    <3>1. first <= a
      BY <1>0, <1>1, <1>2, <2>6
    <3>2. a - first \in Nat /\ a - first <= steps
      BY <1>0, <1>1, <1>2, <1>a, <2>4, <2>6, <3>1
    <3>3. a - first \in 0 .. steps /\ a = first + (a - first)
      BY <1>1, <1>a, <2>4, <3>2
    <3>. QED  BY <3>3
  <2>. QED  BY <2>3, <2>5, <2>6
<1>. QED  BY <1>3, <1>4

LEMMA ReservedIsCovered ==
  ASSUME NEW n, Valid(n), IP!HostBits(n) <= Enumerable,
         NEW ranges, ranges \subseteq [network : Nat, start : Nat, end : Nat, padded : BOOLEAN]
  PROVE  IP!ReservedAddrs(n, IP!For(n, ranges)) = IP!Covered(n, ranges)
<1>1. ASSUME NEW r \in IP!Parsed(IP!For(n, ranges))
      PROVE  IP!Walked(n, r) = {a \in IP!Addresses(n) : r.start <= a /\ a <= r.end}
  <2>1. r \in [network : Nat, start : Nat, end : Nat, padded : BOOLEAN]
    BY DEF IP!For, IP!Parsed
  <2>2. r.start \in Nat /\ r.end \in Nat
    BY <2>1
  <2>. QED  BY <2>2, WalkedIsCovered
<1>2. ~(IP!HostBits(n) > Enumerable)
  BY NetworkFacts, BitsAssumption
<1>3. IP!ReservedAddrs(n, IP!For(n, ranges)) = UNION {IP!Walked(n, r) : r \in IP!Parsed(IP!For(n, ranges))}
  BY <1>2 DEF IP!ReservedAddrs
<1>4. UNION {IP!Walked(n, r) : r \in IP!Parsed(IP!For(n, ranges))} = IP!Covered(n, ranges)
  BY <1>1 DEF IP!Covered
<1>. QED  BY <1>3, <1>4

LEMMA UsableFacts ==
  ASSUME NEW n, Valid(n)
  PROVE  /\ IP!Usable(n) \subseteq IP!Addresses(n) /\ IsFiniteSet(IP!Usable(n))
         /\ Cardinality(IP!Usable(n)) \in Nat /\ IP!TotalUsable(n) = Cardinality(IP!Usable(n))
<1>. DEFINE all == IP!Addresses(n)
            last == IP!Last(n)
            size == IP!Size[IP!HostBits(n)]
<1>1. /\ n.base \in Nat /\ last \in Nat /\ n.base <= last /\ all = n.base .. last
      /\ IP!HostBits(n) >= 2 => n.base + 3 <= last
      /\ IsFiniteSet(all) /\ Cardinality(all) = size /\ size \in Nat
  BY NetworkFacts
<1>. HIDE DEF all, last, size
<1>2. CASE IP!ReservesEnds(n)
  <2>1. IP!Usable(n) = (all \ {n.base}) \ {last} /\ IP!TotalUsable(n) = size - 2
    BY <1>2 DEF IP!Usable, IP!TotalUsable, all, last, size
  <2>2. IP!HostBits(n) >= 2
    BY <1>2 DEF IP!ReservesEnds
  <2>3. n.base \in all /\ last \in all \ {n.base}
    BY <1>1, <2>2
  <2>4. IsFiniteSet(all \ {n.base}) /\ Cardinality(all \ {n.base}) = size - 1
    BY <1>1, <2>3, FS_RemoveElement
  <2>5. /\ IsFiniteSet((all \ {n.base}) \ {last})
        /\ Cardinality((all \ {n.base}) \ {last}) = Cardinality(all \ {n.base}) - 1
    BY <2>3, <2>4, FS_RemoveElement
  <2>6. Cardinality((all \ {n.base}) \ {last}) \in Nat
    BY <2>5, FS_CardinalityType
  <2>. QED  BY <1>1, <2>1, <2>4, <2>5, <2>6 DEF all
<1>3. CASE ~IP!ReservesEnds(n)
  BY <1>1, <1>3 DEF IP!Usable, IP!TotalUsable, all, size
<1>. QED  BY <1>2, <1>3

CountedFor(nets, hs, i) == {c \in IP!Claims(hs) : IP!Best(nets, c.ip) = i}

\* What the assumption on the tables says of a row.
LEMMA TableFacts ==
  ASSUME NEW nets, NEW hs, NEW rs, IP!Tables(nets, hs, rs)
  PROVE  /\ Len(nets) \in Nat /\ DOMAIN nets = 1 .. Len(nets) /\ \A i \in DOMAIN nets : Valid(nets[i])
         /\ \A i \in DOMAIN nets, j \in DOMAIN nets : nets[i].id = nets[j].id => i = j
         /\ hs \in Seq(Seq(Nat)) /\ rs \subseteq [network : Nat, start : Nat, end : Nat, padded : BOOLEAN]
<1>. DEFINE Row == [id : Nat, v4 : BOOLEAN, base : Nat, ones : 0 .. Width, gateway : Nat \cup {None},
                   padded : BOOLEAN]
<1>1. nets \in Seq(Row)
  BY DEF IP!Tables
<1>. HIDE DEF Row
<1>2. Len(nets) \in Nat /\ DOMAIN nets = 1 .. Len(nets) /\ \A i \in DOMAIN nets : nets[i] \in Row
  BY <1>1
<1>3. \A i \in DOMAIN nets : Valid(nets[i])
  BY <1>2 DEF Valid, Row
<1>. QED  BY <1>2, <1>3 DEF IP!Tables

\* A report lists finitely many addresses.
LEMMA ClaimsFacts ==
  ASSUME NEW hs \in Seq(Seq(Nat))
  PROVE  /\ IsFiniteSet(IP!Claims(hs))
         /\ \A c \in IP!Claims(hs) : c.ip \in Nat /\ c = [ip |-> c.ip, host |-> c.host, at |-> c.at]
<1>. DEFINE Of(h) == {[ip |-> hs[h][i], host |-> h, at |-> i] : i \in DOMAIN hs[h]}
<1>1. Len(hs) \in Nat /\ DOMAIN hs = 1 .. Len(hs) /\ \A h \in DOMAIN hs : hs[h] \in Seq(Nat)
  OBVIOUS
<1>2. ASSUME NEW h \in DOMAIN hs PROVE IsFiniteSet(Of(h))
  <2>. DEFINE f == [i \in DOMAIN hs[h] |-> [ip |-> hs[h][i], host |-> h, at |-> i]]
  <2>1. DOMAIN hs[h] = 1 .. Len(hs[h]) /\ Len(hs[h]) \in Nat
    BY <1>1
  <2>2. IsFiniteSet(DOMAIN hs[h])
    BY <2>1, FS_Interval
  <2>3. f \in Surjection(DOMAIN hs[h], Of(h))
    BY DEF Surjection
  <2>. HIDE DEF f, Of
  <2>. QED  BY <2>2, <2>3, FS_Surjection
<1>3. IsFiniteSet({Of(h) : h \in DOMAIN hs})
  <2>. DEFINE f == [h \in DOMAIN hs |-> Of(h)]
              T == {Of(h) : h \in DOMAIN hs}
  <2>. HIDE DEF Of
  <2>1. IsFiniteSet(DOMAIN hs)
    BY <1>1, FS_Interval
  <2>2. f \in Surjection(DOMAIN hs, T)
    BY DEF Surjection
  <2>. HIDE DEF f, T
  <2>3. IsFiniteSet(T)
    BY <2>1, <2>2, FS_Surjection
  <2>. QED  BY <2>3 DEF T
<1>4. IP!Claims(hs) = UNION {Of(h) : h \in DOMAIN hs}
  BY DEF IP!Claims
<1>5. ASSUME NEW c \in IP!Claims(hs) PROVE c.ip \in Nat /\ c = [ip |-> c.ip, host |-> c.host, at |-> c.at]
  <2>0. PICK h \in DOMAIN hs : c \in Of(h)
    BY DEF IP!Claims
  <2>1. PICK i \in DOMAIN hs[h] : c = [ip |-> hs[h][i], host |-> h, at |-> i]
    BY <2>0
  <2>2. hs[h][i] \in Nat
    BY <1>1
  <2>. QED  BY <2>1, <2>2
<1>6. IsFiniteSet(UNION {Of(h) : h \in DOMAIN hs})
  <2>. HIDE DEF Of
  <2>. QED  BY <1>2, <1>3, FS_UNION
<1>. QED  BY <1>4, <1>5, <1>6

\* An address counts for the most specific of the networks that have it.
LEMMA BestFacts ==
  ASSUME NEW nets, NEW hs, NEW rs, IP!Tables(nets, hs, rs), NEW a
  PROVE  /\ IP!Best(nets, a) \in 0 .. Len(nets)
         /\ IP!Best(nets, a) = 0 <=> \A k \in DOMAIN nets : a \notin IP!Addresses(nets[k])
         /\ IP!Best(nets, a) # 0 =>
              /\ IP!Best(nets, a) \in DOMAIN nets /\ a \in IP!Addresses(nets[IP!Best(nets, a)])
              /\ \A k \in DOMAIN nets : a \in IP!Addresses(nets[k]) => nets[k].ones <= nets[IP!Best(nets, a)].ones
<1>. DEFINE containing == {i \in DOMAIN nets : a \in IP!Addresses(nets[i])}
            longest == {i \in containing : \A j \in containing : nets[j].ones <= nets[i].ones}
            best == IP!Best(nets, a)
<1>1. /\ Len(nets) \in Nat /\ DOMAIN nets = 1 .. Len(nets)
      /\ \A i \in DOMAIN nets : nets[i].ones \in 0 .. Width
  BY TableFacts DEF Valid
<1>2. best = IF containing = {} THEN 0 ELSE IP!Min(longest)
  BY DEF IP!Best
<1>3. CASE containing = {}
  BY <1>1, <1>2, <1>3
<1>4. CASE containing # {}
  <2>. DEFINE rest == {Width - nets[i].ones : i \in containing}
  <2>1. rest \subseteq Nat /\ rest # {}
    BY <1>1, <1>4, BitsAssumption
  <2>2. PICK r \in rest : \A s \in rest : r <= s
    BY <2>1, Least
  <2>3. PICK i \in containing : r = Width - nets[i].ones
    BY <2>2
  <2>4. ASSUME NEW j \in containing PROVE nets[j].ones <= nets[i].ones
    <3>1. Width - nets[i].ones <= Width - nets[j].ones
      BY <2>2, <2>3
    <3>. QED  BY <1>1, <3>1, BitsAssumption
  <2>5. i \in longest
    BY <2>4
  <2>6. longest \subseteq Nat
    BY <1>1
  <2>7. IP!Min(longest) \in longest
    BY <2>5, <2>6, MinOf
  <2>8. best \in longest
    BY <1>2, <1>4, <2>7
  <2>9. best \in DOMAIN nets /\ best # 0 /\ best \in 0 .. Len(nets)
    BY <1>1, <2>8
  <2>. QED  BY <2>8, <2>9
<1>. QED  BY <1>3, <1>4

LEMMA AttributeFacts ==
  ASSUME NEW nets, NEW hs, NEW rs, IP!Tables(nets, hs, rs), NEW i \in 0 .. Len(nets)
  PROVE  IP!Attribute(nets, hs, 0)[i] = CountedFor(nets, hs, i) /\ IP!Attribute(nets, hs, i)[i] = CountedFor(nets, hs, i)
BY DEF IP!Attribute, CountedFor

\* Both the report and the page count what is counted for the network.
LEMMA UsageFacts ==
  ASSUME NEW nets, NEW hs, NEW rs, IP!Tables(nets, hs, rs), NEW i \in DOMAIN nets
  PROVE  /\ i \in 0 .. Len(nets)
         /\ IP!BuildIPAM(nets, hs, rs).networks[i] = IP!BuildUsage(nets[i], CountedFor(nets, hs, i), IP!For(nets[i], rs))
         /\ IP!BuildNetworkUsage(i, nets, hs, rs) = IP!BuildUsage(nets[i], CountedFor(nets, hs, i), IP!For(nets[i], rs))
<1>1. i \in 0 .. Len(nets)
  BY TableFacts
<1>2. IP!Attribute(nets, hs, 0)[i] = CountedFor(nets, hs, i) /\ IP!Attribute(nets, hs, i)[i] = CountedFor(nets, hs, i)
  BY <1>1, AttributeFacts
<1>. QED  BY <1>1, <1>2 DEF IP!BuildIPAM, IP!BuildNetworkUsage

\* What is handed out and what is counted free, against what is free by definition.
LEMMA NextIsFreeHolds ==
  ASSUME NEW nets, NEW hs, NEW rs, IP!Tables(nets, hs, rs)
  PROVE  IP!NextIsFree(nets, hs, rs)
<1>. SUFFICES ASSUME NEW i \in DOMAIN nets, IP!HostBits(nets[i]) <= Enumerable
     PROVE  LET n == nets[i]
                u == IP!BuildIPAM(nets, hs, rs).networks[i]
                free == IP!ReallyFree(n, u.used, rs) \ {IP!Gateway(n)}
            IN /\ u.nextFree = (IF free = {} THEN None ELSE IP!Min(free))
               /\ u.totalUsable = IP!Cardinality(IP!Usable(n))
               /\ u.freeCount <= IP!Cardinality(free) + 1
               /\ u.reservedCount = IP!Cardinality(IP!Covered(n, rs) \ u.used)
  BY DEF IP!NextIsFree
<1>. DEFINE n == nets[i]
            used == CountedFor(nets, hs, i)
            ips == {c.ip : c \in used}
            ranges == IP!For(n, rs)
            covered == IP!Covered(n, rs)
            reserved == covered \ ips
            left == IP!TotalUsable(n) - Cardinality(ips) - Cardinality(reserved)
            u == IP!BuildIPAM(nets, hs, rs).networks[i]
            free == (IP!Usable(n) \ (ips \cup covered)) \ {IP!Gateway(n)}
            taken == IP!Taken(n, ips, ranges)
<1>1. Valid(n) /\ rs \subseteq [network : Nat, start : Nat, end : Nat, padded : BOOLEAN] /\ hs \in Seq(Seq(Nat))
  BY TableFacts
<1>2. IP!ReservedAddrs(n, ranges) = covered
  BY <1>1, ReservedIsCovered
<1>3. IP!HostBits(n) \in Nat /\ ~(IP!HostBits(n) > Enumerable) /\ ~IP!Unbounded(n)
  BY <1>1, NetworkFacts, BitsAssumption DEF IP!Unbounded
<1>4. /\ u.used = ips
      /\ u.nextFree = IP!NextFree(n, taken)
      /\ u.totalUsable = IP!TotalUsable(n)
      /\ u.reservedCount = Cardinality(reserved)
      /\ u.freeCount = IF left < 0 THEN 0 ELSE left
  <2>1. u = IP!BuildUsage(n, used, ranges)
    BY UsageFacts
  <2>. HIDE DEF u, n, ranges, used, covered
  <2>. QED  BY <1>2, <1>3, <2>1, IpCardinality DEF IP!BuildUsage
<1>5. IP!ReallyFree(n, ips, rs) \ {IP!Gateway(n)} = free
  BY DEF IP!ReallyFree
<1>6. IsFiniteSet(ips) /\ IsFiniteSet(reserved)
  <2>1. IsFiniteSet(used)
    BY <1>1, ClaimsFacts, FS_Subset DEF CountedFor
  <2>. DEFINE f == [c \in used |-> c.ip]
  <2>2. f \in Surjection(used, ips)
    BY DEF Surjection
  <2>3. IsFiniteSet(ips)
    <3>. HIDE DEF f, used, ips
    <3>. QED  BY <2>1, <2>2, FS_Surjection
  <2>4. IsFiniteSet(IP!Addresses(n)) /\ covered \subseteq IP!Addresses(n)
    BY <1>1, NetworkFacts DEF IP!Covered
  <2>5. IsFiniteSet(reserved)
    <3>. HIDE DEF covered, ips
    <3>. QED  BY <2>4, FS_Subset
  <2>. QED  BY <2>3, <2>5
<1>7. /\ IP!Usable(n) \subseteq IP!Addresses(n) /\ IsFiniteSet(IP!Usable(n))
      /\ IP!TotalUsable(n) = Cardinality(IP!Usable(n)) /\ Cardinality(IP!Usable(n)) \in Nat
  BY <1>1, UsableFacts
<1>8. IP!NextFree(n, taken) = IF free = {} THEN None ELSE IP!Min(free)
  <2>1. IP!Usable(n) \ taken = free
    BY <1>2, <1>7 DEF IP!Taken
  <2>2. IP!Usable(n) \subseteq taken <=> free = {}
    BY <2>1
  <2>. HIDE DEF free, taken, n
  <2>. QED  BY <1>3, <2>1, <2>2 DEF IP!NextFree
<1>9. (IF left < 0 THEN 0 ELSE left) <= Cardinality(free) + 1
  <2>1. free = IP!Usable(n) \ (ips \cup reserved \cup {IP!Gateway(n)})
    OBVIOUS
  <2>. HIDE DEF free, ips, reserved, n
  <2>2. left <= Cardinality(free) + 1 /\ IsFiniteSet(free)
    BY <1>6, <1>7, <2>1, LeftOver
  <2>3. Cardinality(free) \in Nat /\ Cardinality(ips) \in Nat /\ Cardinality(reserved) \in Nat
    BY <1>6, <2>2, FS_CardinalityType
  <2>. QED  BY <2>2, <2>3, <1>7
<1>. HIDE DEF u, n, free, ips, left, covered, taken
<1>. QED  BY <1>4, <1>5, <1>7, <1>8, <1>9, IpCardinality DEF n, u, covered

\* The views, and the lists of conflicts, agree.
LEMMA ScanAsksTheUsable ==
  ASSUME NEW n, Valid(n), IP!HostBits(n) <= Scannable
  PROVE  IP!ExpandCIDR(n, IP!Cardinality(IP!Addresses(n))) = IP!Usable(n)
<1>. DEFINE all == IP!Addresses(n)
            ends == IF n.v4 /\ IP!HostBits(n) >= 2 THEN {IP!Min(all), IP!Max(all)} ELSE {}
<1>1. /\ n.base \in Nat /\ IP!Last(n) \in Nat /\ n.base <= IP!Last(n) /\ all = n.base .. IP!Last(n)
      /\ IsFiniteSet(all)
  BY NetworkFacts
<1>2. IP!Min(all) = n.base /\ IP!Max(all) = IP!Last(n)
  <2>1. n.base \in Int /\ IP!Last(n) \in Int
    BY <1>1
  <2>. QED  BY <1>1, <2>1, OfInterval
<1>3. all \ ends = IP!Usable(n)
  BY <1>2 DEF IP!Usable, IP!ReservesEnds
<1>4. ~(IP!Cardinality(all \ ends) > IP!Cardinality(all))
  <2>. HIDE DEF all, ends
  <2>1. Cardinality(all \ ends) <= Cardinality(all) /\ IsFiniteSet(all \ ends)
    BY <1>1, FS_Subset
  <2>2. Cardinality(all \ ends) \in Nat /\ Cardinality(all) \in Nat
    BY <1>1, <2>1, FS_CardinalityType
  <2>. QED  BY <2>1, <2>2, IpCardinality
<1>5. ~(IP!HostBits(n) > Scannable)
  BY NetworkFacts, BitsAssumption
<1>. QED  BY <1>3, <1>4, <1>5 DEF IP!ExpandCIDR

LEMMA ViewsAgreeHolds ==
  ASSUME NEW nets, NEW hs, NEW rs, IP!Tables(nets, hs, rs)
  PROVE  IP!ViewsAgree(nets, hs, rs)
<1>0. /\ Len(nets) \in Nat /\ DOMAIN nets = 1 .. Len(nets) /\ \A i \in DOMAIN nets : Valid(nets[i])
      /\ \A i \in DOMAIN nets, j \in DOMAIN nets : nets[i].id = nets[j].id => i = j
  BY TableFacts
<1>1. ASSUME NEW i \in DOMAIN nets
      PROVE  /\ IP!BuildNetworkUsage(i, nets, hs, rs) = IP!BuildIPAM(nets, hs, rs).networks[i]
             /\ IP!HostBits(nets[i]) <= Scannable =>
                  IP!ExpandCIDR(nets[i], IP!Cardinality(IP!Addresses(nets[i]))) = IP!Usable(nets[i])
  BY <1>0, UsageFacts, ScanAsksTheUsable
<1>2. ASSUME NEW i \in DOMAIN nets, NEW j \in IP!NetworkOverlaps(i, nets)
      PROVE  <<IP!Min({i, j}), IP!Max({i, j})>> \in IP!OverlappingNetworks(nets)
  <2>1. j \in DOMAIN nets /\ j # i /\ IP!SameBlock(nets[i], nets[j]) /\ IP!SameBlock(nets[j], nets[i])
    BY DEF IP!NetworkOverlaps, IP!SameBlock
  <2>2. i \in Int /\ j \in Int
    BY <1>0, <2>1
  <2>3. /\ IP!Min({i, j}) = IF i <= j THEN i ELSE j
        /\ IP!Max({i, j}) = IF i <= j THEN j ELSE i
    BY <2>2, OfTwo
  <2>4. CASE i <= j
    BY <2>1, <2>2, <2>3, <2>4 DEF IP!OverlappingNetworks
  <2>5. CASE ~(i <= j)
    BY <2>1, <2>2, <2>3, <2>5 DEF IP!OverlappingNetworks
  <2>. QED  BY <2>4, <2>5
<1>3. ASSUME NEW p \in IP!OverlappingNetworks(nets)
      PROVE  p[2] \in IP!NetworkOverlaps(p[1], nets) /\ p[1] \in IP!NetworkOverlaps(p[2], nets)
  <2>1. p[1] \in DOMAIN nets /\ p[2] \in DOMAIN nets /\ p[1] < p[2] /\ IP!SameBlock(nets[p[1]], nets[p[2]])
    BY DEF IP!OverlappingNetworks
  <2>2. p[1] # p[2]
    BY <1>0, <2>1
  <2>. QED  BY <1>0, <2>1, <2>2 DEF IP!NetworkOverlaps, IP!SameBlock
<1>4. IP!OutsideNetworks(nets, hs) = IP!BuildIPAM(nets, hs, rs).unassigned
  BY DEF IP!OutsideNetworks, IP!BuildIPAM
<1>. QED  BY <1>1, <1>2, <1>3, <1>4 DEF IP!ViewsAgree

LEMMA ClaimsCountOnceHolds ==
  ASSUME NEW nets, NEW hs, NEW rs, IP!Tables(nets, hs, rs)
  PROVE  IP!ClaimsCountOnce(nets, hs)
<1>. DEFINE claims == IP!Attribute(nets, hs, 0)
            by(ip) == {c.host : c \in {d \in IP!Claims(hs) : d.ip = ip}}
<1>0. Len(nets) \in Nat /\ DOMAIN nets = 1 .. Len(nets) /\ hs \in Seq(Seq(Nat))
  BY TableFacts
<1>1. \A i \in 0 .. Len(nets) : claims[i] = CountedFor(nets, hs, i)
  BY AttributeFacts
<1>. HIDE DEF claims
<1>2. ASSUME NEW c \in IP!Claims(hs)
      PROVE  \E i \in 0 .. Len(nets) :
               /\ \A k \in 0 .. Len(nets) : c \in claims[k] <=> k = i
               /\ i = 0 <=> \A k \in DOMAIN nets : c.ip \notin IP!Addresses(nets[k])
               /\ i # 0 => c.ip \in IP!Addresses(nets[i])
  <2>. DEFINE i == IP!Best(nets, c.ip)
  <2>1. /\ i \in 0 .. Len(nets)
        /\ i = 0 <=> \A k \in DOMAIN nets : c.ip \notin IP!Addresses(nets[k])
        /\ i # 0 => c.ip \in IP!Addresses(nets[i])
    BY BestFacts
  <2>2. \A k \in 0 .. Len(nets) : c \in claims[k] <=> k = i
    BY <1>1 DEF CountedFor
  <2>. HIDE DEF i
  <2>. QED  BY <2>1, <2>2
<1>3. ASSUME NEW i \in DOMAIN nets, NEW k \in DOMAIN nets, NEW c \in claims[i],
             c.ip \in IP!Addresses(nets[k])
      PROVE  nets[k].ones <= nets[i].ones
  <2>1. i \in 0 .. Len(nets) /\ i # 0
    BY <1>0
  <2>2. IP!Best(nets, c.ip) = i
    BY <1>1, <2>1 DEF CountedFor
  <2>. QED  BY <1>3, <2>1, <2>2, BestFacts
<1>4. ASSUME NEW d \in IP!DuplicateIPs(hs)
      PROVE  LET i == IP!Best(nets, d.ip) IN
             /\ d.hosts = {c.host : c \in {e \in claims[i] : e.ip = d.ip}}
             /\ i # 0 => d.ip \in IP!BuildNetworkUsage(i, nets, hs, {}).conflicts
  <2>. DEFINE i == IP!Best(nets, d.ip)
              twice == {c \in CountedFor(nets, hs, i) : c.ip = d.ip}
  <2>1. d.hosts = by(d.ip) /\ Cardinality(by(d.ip)) >= 2
    <3>1. \E c \in IP!Claims(hs) : d = [ip |-> c.ip, hosts |-> by(c.ip)] /\ IP!Cardinality(by(c.ip)) >= 2
      BY DEF IP!DuplicateIPs
    <3>2. PICK c \in IP!Claims(hs) : d = [ip |-> c.ip, hosts |-> by(c.ip)] /\ IP!Cardinality(by(c.ip)) >= 2
      BY <3>1
    <3>. HIDE DEF by
    <3>3. d.ip = c.ip /\ d.hosts = by(c.ip)
      BY <3>2
    <3>. QED  BY <3>2, <3>3, IpCardinality
  <2>2. i \in 0 .. Len(nets)
    BY BestFacts
  <2>3. twice = {e \in IP!Claims(hs) : e.ip = d.ip} /\ claims[i] = CountedFor(nets, hs, i)
    BY <1>1, <2>2 DEF CountedFor
  <2>4. d.hosts = {c.host : c \in {e \in claims[i] : e.ip = d.ip}}
    BY <2>1, <2>3
  <2>5. ASSUME i # 0 PROVE d.ip \in IP!BuildNetworkUsage(i, nets, hs, {}).conflicts
    <3>1. IsFiniteSet(twice)
      BY <1>0, <2>3, ClaimsFacts, FS_Subset
    <3>2. by(d.ip) = {c.host : c \in twice}
      BY <2>3
    <3>. HIDE DEF twice
    <3>3. \E x \in twice, y \in twice : x # y
      <4>. DEFINE f == [c \in twice |-> c.host]
      <4>1. f \in Surjection(twice, by(d.ip))
        BY <3>2 DEF Surjection
      <4>. HIDE DEF f, by
      <4>2. IsFiniteSet(by(d.ip))
        BY <3>1, <4>1, FS_Surjection
      <4>3. \E x \in by(d.ip), y \in by(d.ip) : x # y
        BY <2>1, <4>2, TwoMembers
      <4>. QED  BY <3>2, <4>3
    <3>4. IP!Cardinality(twice) >= 2
      BY <3>1, <3>3, TwoOrMore, IpCardinality
    <3>5. d.ip \in {c.ip : c \in CountedFor(nets, hs, i)}
      BY <3>3 DEF twice
    <3>6. i \in DOMAIN nets
      BY <1>0, <2>2, <2>5
    <3>7. IP!Attribute(nets, hs, i)[i] = CountedFor(nets, hs, i)
      BY <2>2, AttributeFacts
    <3>8. IP!BuildNetworkUsage(i, nets, hs, {}).conflicts
            = {ip \in {c.ip : c \in CountedFor(nets, hs, i)} :
                 IP!Cardinality({c \in CountedFor(nets, hs, i) : c.ip = ip}) >= 2}
      <4>. HIDE DEF i
      <4>. QED  BY <3>7 DEF IP!BuildNetworkUsage, IP!BuildUsage
    <3>. QED  BY <3>4, <3>5, <3>8 DEF twice
  <2>. QED  BY <2>4, <2>5
<1>. HIDE DEF by
<1>5. \A i \in DOMAIN nets, k \in DOMAIN nets :
         \A c \in claims[i] : c.ip \in IP!Addresses(nets[k]) => nets[k].ones <= nets[i].ones
  BY <1>3
<1>. QED  BY <1>2, <1>5, <1>4 DEF IP!ClaimsCountOnce, claims

(***************************************************************************)
(* Whatever is in the tables: the report of all networks, the page of each  *)
(* and a scan follow one set of rules; a claim counts for the most specific *)
(* network that has it; and the address handed out next is the lowest that  *)
(* is free by the claims and by the ranges and gateways that parse, counted *)
(* up to the gateway. Rows stored with spaces around an address, which      *)
(* Validate lets in, are among them, and reserve nothing.                   *)
(***************************************************************************)
THEOREM AddressesAlwaysAddUp == AllSpec => []AddressesAddUp
<1>1. \A t \in DOMAIN Pages : t = "ipam" =>
        \A q \in Pages[t] : IP!AddressesAddUp(q.nets, q.hosts, q.reservations)
  <2>. SUFFICES ASSUME NEW t \in DOMAIN Pages, t = "ipam", NEW q \in Pages[t]
       PROVE  IP!AddressesAddUp(q.nets, q.hosts, q.reservations)
    OBVIOUS
  <2>1. IP!Tables(q.nets, q.hosts, q.reservations)
    BY QuestionsAssumption
  <2>. QED  BY <2>1, NextIsFreeHolds, ViewsAgreeHolds, ClaimsCountOnceHolds DEF IP!AddressesAddUp
<1>2. AllInit => AddressesAddUp
  BY <1>1 DEF AllInit, PageInit, AddressesAddUp
<1>3. AddressesAddUp /\ [AllNext]_allVars => AddressesAddUp'
  <2>. SUFFICES ASSUME AddressesAddUp, [AllNext]_allVars PROVE AddressesAddUp'
    OBVIOUS
  <2>1. topic' = topic /\ ask' = ask
    BY DEF AllNext, PairsNext, StartNext, ScanNext, DiscoveryNext, allVars
  <2>2. IP!AddressesAddUp(ask.nets, ask.hosts, ask.reservations)'
          <=> IP!AddressesAddUp(ask.nets, ask.hosts, ask.reservations)
    BY <2>1
  <2>. QED  BY <2>1, <2>2 DEF AddressesAddUp
<1>. QED  BY <1>2, <1>3, PTL DEF AllSpec

-----------------------------------------------------------------------------
(***************************************************************************)
(* The panels of the pages (Panels)                                         *)
(*                                                                          *)
(* The impact walk and the insertion sort are loops, each with an           *)
(* invariant: what the walk visited and took from its queue has all that    *)
(* depends on it visited, and the list of the rows so far holds those that  *)
(* were wanted, in order.                                                   *)
(***************************************************************************)

LEMMA PnOfTwo ==
  ASSUME NEW a \in Int, NEW b \in Int
  PROVE  /\ PN!Min({a, b}) = IF a <= b THEN a ELSE b
         /\ PN!Max({a, b}) = IF a <= b THEN b ELSE a
BY OfTwo DEF IP!Min, IP!Max, PN!Min, PN!Max

LEMMA PnCardinality == ASSUME NEW S PROVE PN!Cardinality(S) = Cardinality(S)
BY DEF PN!Cardinality, Cardinality

\* A box of an elevation, in rows.
LEMMA BoxFacts ==
  ASSUME NEW units \in Nat \ {0}, NEW occs \in PN!Occupants, NEW i \in DOMAIN occs
  PROVE  LET box == PN!Elevation(units, occs)[i]
             o == occs[i] IN
         /\ o.pos \in Nat \ {0} /\ o.height \in Nat \ {0} /\ PN!UnitsOf(o) = o.pos .. o.pos + o.height - 1
         /\ PN!RowsOf(box) \subseteq 1 .. units
         /\ ~box.outOfBounds => /\ o.pos + o.height - 1 <= units
                                /\ PN!RowsOf(box) = {units - u + 1 : u \in PN!UnitsOf(o)}
         /\ box.overlap <=> \E u \in PN!UnitsOf(o) \cap (1 .. units) : PN!Claims(occs, u) > 1
<1>. DEFINE box == PN!Elevation(units, occs)[i]
            o == occs[i]
            pos == o.pos
            height == o.height
            top == pos + height - 1
            drawn == PN!Min({top, units})
            span == PN!Max({drawn - pos + 1, 1})
<1>1. pos \in Nat \ {0} /\ height \in Nat \ {0} /\ PN!UnitsOf(o) = pos .. top
  <2>. DEFINE O == [pos : Nat \ {0}, height : Nat \ {0}]
  <2>1. occs \in Seq(O)
    BY DEF PN!Occupants
  <2>. HIDE DEF O
  <2>2. o \in O
    BY <2>1
  <2>. QED  BY <2>2 DEF O, PN!UnitsOf
<1>2. /\ box.row = units - drawn + 1 /\ box.span = span /\ (box.outOfBounds <=> top > units)
      /\ box.overlap <=> \E u \in PN!UnitsOf(o) \cap (1 .. units) : PN!Claims(occs, u) > 1
      /\ PN!RowsOf(box) = box.row .. box.row + box.span - 1
  BY DEF PN!Elevation, PN!RowsOf
<1>. HIDE DEF box, pos, height
<1>3. top \in Nat /\ top >= pos /\ top >= 1
  BY <1>1
<1>. HIDE DEF top
<1>4. drawn = (IF top <= units THEN top ELSE units) /\ drawn \in Nat
  BY <1>3, PnOfTwo
<1>. HIDE DEF drawn
<1>5. span = IF pos <= drawn THEN drawn - pos + 1 ELSE 1
  <2>1. drawn - pos + 1 \in Int /\ 1 \in Int
    BY <1>1, <1>4
  <2>2. span = IF drawn - pos + 1 <= 1 THEN 1 ELSE drawn - pos + 1
    BY <2>1, PnOfTwo
  <2>. QED  BY <1>1, <1>4, <2>2
<1>. HIDE DEF span
<1>6. PN!RowsOf(box) = units - drawn + 1 .. units - drawn + span
  BY <1>1, <1>2, <1>4, <1>5
<1>7. units - drawn + 1 >= 1 /\ units - drawn + span <= units
  BY <1>1, <1>3, <1>4, <1>5
<1>8. PN!RowsOf(box) \subseteq 1 .. units
  BY <1>1, <1>4, <1>5, <1>6, <1>7
<1>9. ASSUME top <= units PROVE PN!RowsOf(box) = {units - u + 1 : u \in PN!UnitsOf(o)}
  <2>1. PN!RowsOf(box) = units - top + 1 .. units - pos + 1
    BY <1>1, <1>3, <1>4, <1>5, <1>6, <1>9
  <2>2. ASSUME NEW r \in units - top + 1 .. units - pos + 1
        PROVE  \E u \in pos .. top : r = units - u + 1
    <3>1. units - r + 1 \in pos .. top /\ r = units - (units - r + 1) + 1
      BY <1>1, <1>3
    <3>. QED  BY <3>1
  <2>3. ASSUME NEW u \in pos .. top
        PROVE  units - u + 1 \in units - top + 1 .. units - pos + 1
    BY <1>1, <1>3
  <2>4. units - top + 1 .. units - pos + 1 = {units - u + 1 : u \in pos .. top}
    BY <2>2, <2>3
  <2>. QED  BY <1>1, <2>1, <2>4
<1>. QED  BY <1>1, <1>2, <1>3, <1>8, <1>9 DEF box, pos, height, top

LEMMA ElevationHolds ==
  ASSUME NEW units \in Nat \ {0}, NEW occs \in PN!Occupants
  PROVE  PN!NoHiddenOverlap(units, occs)
<1>. DEFINE boxes == PN!Elevation(units, occs)
<1>0. DOMAIN boxes = DOMAIN occs
  BY DEF PN!Elevation
<1>1. ASSUME NEW i \in DOMAIN occs
      PROVE  /\ PN!RowsOf(boxes[i]) \subseteq 1 .. units
             /\ ~boxes[i].outOfBounds => PN!RowsOf(boxes[i]) = {units - u + 1 : u \in PN!UnitsOf(occs[i])}
  <2>. HIDE DEF boxes
  <2>. QED  BY BoxFacts DEF boxes
<1>2. ASSUME NEW i \in DOMAIN occs, NEW j \in DOMAIN occs, i # j,
             PN!RowsOf(boxes[i]) \cap PN!RowsOf(boxes[j]) # {},
             ~boxes[i].outOfBounds, ~boxes[j].outOfBounds
      PROVE  boxes[i].overlap /\ boxes[j].overlap
  <2>1. /\ PN!RowsOf(boxes[i]) = {units - u + 1 : u \in PN!UnitsOf(occs[i])}
        /\ PN!RowsOf(boxes[j]) = {units - u + 1 : u \in PN!UnitsOf(occs[j])}
    BY <1>1, <1>2
  <2>2. \A k \in {i, j} : /\ occs[k].pos \in Nat \ {0} /\ occs[k].height \in Nat \ {0}
                          /\ PN!UnitsOf(occs[k]) = occs[k].pos .. occs[k].pos + occs[k].height - 1
                          /\ occs[k].pos + occs[k].height - 1 <= units
    BY <1>2, BoxFacts
  <2>3. \A k \in {i, j} : PN!UnitsOf(occs[k]) \subseteq 1 .. units
    <3>. SUFFICES ASSUME NEW k \in {i, j} PROVE PN!UnitsOf(occs[k]) \subseteq 1 .. units
      OBVIOUS
    <3>1. /\ occs[k].pos \in Nat \ {0} /\ occs[k].height \in Nat \ {0}
          /\ PN!UnitsOf(occs[k]) = occs[k].pos .. occs[k].pos + occs[k].height - 1
          /\ occs[k].pos + occs[k].height - 1 <= units
      BY <2>2
    <3>. QED  BY <3>1
  <2>4. PICK u \in PN!UnitsOf(occs[i]), v \in PN!UnitsOf(occs[j]) : units - u + 1 = units - v + 1
    BY <1>2, <2>1
  <2>5. u \in PN!UnitsOf(occs[i]) /\ u \in PN!UnitsOf(occs[j]) /\ u \in 1 .. units
    BY <2>3, <2>4
  <2>6. PN!Claims(occs, u) > 1
    <3>. DEFINE S == {k \in DOMAIN occs : u \in PN!UnitsOf(occs[k])}
    <3>1. IsFiniteSet(DOMAIN occs)
      <4>1. DOMAIN occs = 1 .. Len(occs) /\ Len(occs) \in Nat
        BY DEF PN!Occupants
      <4>. QED  BY <4>1, FS_Interval
    <3>2. IsFiniteSet(S) /\ i \in S /\ j \in S
      BY <2>5, <3>1, FS_Subset
    <3>. HIDE DEF S
    <3>3. Cardinality(S) \in Nat /\ Cardinality(S) >= 2
      BY <1>2, <3>2, TwoOrMore
    <3>. QED  BY <3>3, PnCardinality DEF PN!Claims, S
  <2>7. /\ boxes[i].overlap <=> \E w \in PN!UnitsOf(occs[i]) \cap (1 .. units) : PN!Claims(occs, w) > 1
        /\ boxes[j].overlap <=> \E w \in PN!UnitsOf(occs[j]) \cap (1 .. units) : PN!Claims(occs, w) > 1
    <3>. HIDE DEF boxes
    <3>. QED  BY BoxFacts DEF boxes
  <2>. HIDE DEF boxes
  <2>. QED  BY <2>5, <2>6, <2>7
<1>. HIDE DEF boxes
<1>. QED  BY <1>0, <1>1, <1>2 DEF PN!NoHiddenOverlap, boxes

\* Being a duplicate is symmetric.
LEMMA DuplicatesHold == ASSUME NEW hs PROVE PN!DuplicatesFindEachOther(hs)
<1>1. ASSUME NEW h \in DOMAIN hs, NEW o \in DOMAIN hs, h # o, NEW reason \in {"name", "address"}
      PROVE  [of |-> o, reason |-> reason] \in PN!DuplicatesOf(h, hs)
               <=> /\ hs[h].bound \/ hs[o].bound
                   /\ hs[o].name = hs[h].name \/ hs[o].ips \cap hs[h].ips # {}
                   /\ reason = IF hs[o].name = hs[h].name THEN "name" ELSE "address"
  BY <1>1 DEF PN!DuplicatesOf
<1>. QED  BY <1>1 DEF PN!DuplicatesFindEachOther

\* With each of its members a set has all that depends on it.
PnClosed(rels, S) == \A d \in S : PN!DependentsOf(rels, d) \subseteq S

LEMMA PnSeqOfSet ==
  ASSUME NEW S, IsFiniteSet(S)
  PROVE  /\ PN!SetToSeq(S) \in Seq(S) /\ PN!IsInjective(PN!SetToSeq(S))
         /\ PN!ToSet(PN!SetToSeq(S)) = S
<1>1. PN!SetToSeq(S) = DC!SetToSeq(S)
  BY DEF PN!SetToSeq, DC!SetToSeq, PN!IsInjective, DC!IsInjective, PN!Cardinality, DC!Cardinality
<1>. DEFINE s == DC!SetToSeq(S)
<1>2. /\ Cardinality(S) \in Nat /\ s \in [1 .. Cardinality(S) -> S]
      /\ DOMAIN s = 1 .. Cardinality(S)
      /\ \A i, j \in 1 .. Cardinality(S) : s[i] = s[j] => i = j
      /\ \A x \in S : \E i \in 1 .. Cardinality(S) : s[i] = x
  BY SeqOfSet
<1>. HIDE DEF s
<1>3. s \in Seq(S)
  BY <1>2
<1>4. PN!IsInjective(s)
  BY <1>2 DEF PN!IsInjective
<1>5. PN!ToSet(s) = S
  BY <1>2 DEF PN!ToSet
<1>. QED  BY <1>1, <1>3, <1>4, <1>5 DEF s

\* Concatenation, heads and tails, by their members.
LEMMA Joined ==
  ASSUME NEW T, NEW s \in Seq(T), NEW t \in Seq(T)
  PROVE  /\ s \o t \in Seq(T) /\ Len(s \o t) = Len(s) + Len(t)
         /\ PN!ToSet(s \o t) = PN!ToSet(s) \cup PN!ToSet(t)
         /\ PN!IsInjective(s) /\ PN!IsInjective(t) /\ PN!ToSet(s) \cap PN!ToSet(t) = {} => PN!IsInjective(s \o t)
<1>. DEFINE u == s \o t
<1>1. /\ Len(s) \in Nat /\ Len(t) \in Nat /\ DOMAIN s = 1 .. Len(s) /\ DOMAIN t = 1 .. Len(t)
      /\ u \in Seq(T) /\ Len(u) = Len(s) + Len(t) /\ DOMAIN u = 1 .. Len(s) + Len(t)
      /\ \A i \in 1 .. Len(s) + Len(t) : u[i] = IF i <= Len(s) THEN s[i] ELSE t[i - Len(s)]
  OBVIOUS
<1>. HIDE DEF u
<1>2. ASSUME NEW i \in DOMAIN u
      PROVE  (i \in DOMAIN s /\ u[i] = s[i]) \/ (i - Len(s) \in DOMAIN t /\ u[i] = t[i - Len(s)])
  BY <1>1
<1>3. ASSUME NEW i \in DOMAIN s PROVE i \in DOMAIN u /\ u[i] = s[i]
  BY <1>1
<1>4. ASSUME NEW i \in DOMAIN t PROVE i + Len(s) \in DOMAIN u /\ u[i + Len(s)] = t[i]
  BY <1>1
<1>5. PN!ToSet(u) = PN!ToSet(s) \cup PN!ToSet(t)
  <2>1. ASSUME NEW x \in PN!ToSet(u) PROVE x \in PN!ToSet(s) \cup PN!ToSet(t)
    BY <1>2 DEF PN!ToSet
  <2>2. ASSUME NEW x \in PN!ToSet(s) PROVE x \in PN!ToSet(u)
    BY <1>3 DEF PN!ToSet
  <2>3. ASSUME NEW x \in PN!ToSet(t) PROVE x \in PN!ToSet(u)
    <3>1. PICK i \in DOMAIN t : x = t[i]
      BY DEF PN!ToSet
    <3>2. i + Len(s) \in DOMAIN u /\ u[i + Len(s)] = x
      BY <3>1, <1>4
    <3>. QED  BY <3>2 DEF PN!ToSet
  <2>. QED  BY <2>1, <2>2, <2>3
<1>6. ASSUME PN!IsInjective(s), PN!IsInjective(t), PN!ToSet(s) \cap PN!ToSet(t) = {}
      PROVE  PN!IsInjective(u)
  <2>. SUFFICES ASSUME NEW i \in DOMAIN u, NEW j \in DOMAIN u, u[i] = u[j] PROVE i = j
    BY DEF PN!IsInjective
  <2>1. \A k \in DOMAIN s : s[k] \in PN!ToSet(s)
    BY DEF PN!ToSet
  <2>2. \A k \in DOMAIN t : t[k] \in PN!ToSet(t)
    BY DEF PN!ToSet
  <2>3. CASE i \in DOMAIN s /\ j \in DOMAIN s /\ u[i] = s[i] /\ u[j] = s[j]
    BY <1>6, <2>3 DEF PN!IsInjective
  <2>4. CASE i - Len(s) \in DOMAIN t /\ j - Len(s) \in DOMAIN t /\ u[i] = t[i - Len(s)] /\ u[j] = t[j - Len(s)]
    <3>1. i - Len(s) = j - Len(s)
      BY <1>6, <2>4 DEF PN!IsInjective
    <3>. QED  BY <1>1, <3>1
  <2>. QED  BY <1>2, <1>6, <2>1, <2>2, <2>3, <2>4
<1>. QED  BY <1>1, <1>5, <1>6 DEF u

LEMMA HeadOf ==
  ASSUME NEW T, NEW s \in Seq(T), s # <<>>
  PROVE  /\ Head(s) \in T /\ Tail(s) \in Seq(T) /\ Len(Tail(s)) = Len(s) - 1 /\ Len(s) \in Nat
         /\ Head(s) \in PN!ToSet(s)
         /\ PN!ToSet(s) \subseteq PN!ToSet(Tail(s)) \cup {Head(s)} /\ PN!ToSet(Tail(s)) \subseteq PN!ToSet(s)
<1>. DEFINE t == Tail(s)
<1>1. /\ Len(s) \in Nat /\ Len(s) >= 1 /\ DOMAIN s = 1 .. Len(s) /\ Head(s) = s[1] /\ s[1] \in T
      /\ t \in Seq(T) /\ Len(t) = Len(s) - 1 /\ DOMAIN t = 1 .. Len(s) - 1
      /\ \A i \in 1 .. Len(s) - 1 : t[i] = s[i + 1]
  OBVIOUS
<1>. HIDE DEF t
<1>2. ASSUME NEW i \in DOMAIN s, i # 1 PROVE i - 1 \in DOMAIN t /\ s[i] = t[i - 1]
  BY <1>1, <1>2
<1>3. ASSUME NEW i \in DOMAIN t PROVE i + 1 \in DOMAIN s /\ t[i] = s[i + 1]
  BY <1>1
<1>4. PN!ToSet(s) \subseteq PN!ToSet(t) \cup {Head(s)}
  BY <1>1, <1>2 DEF PN!ToSet
<1>5. PN!ToSet(t) \subseteq PN!ToSet(s)
  BY <1>3 DEF PN!ToSet
<1>6. Head(s) \in PN!ToSet(s)
  BY <1>1 DEF PN!ToSet
<1>. QED  BY <1>1, <1>4, <1>5, <1>6 DEF t

Entities(rels, start) == {start} \cup {rels[i][1] : i \in DOMAIN rels}

\* No more entities depend on others than there are relationships.
LEMMA ListFacts ==
  ASSUME NEW rels, NEW start, PN!IsList(rels)
  PROVE  /\ Len(rels) \in Nat /\ DOMAIN rels = 1 .. Len(rels)
         /\ \A d : PN!DependentsOf(rels, d) \subseteq {rels[i][1] : i \in DOMAIN rels}
         /\ IsFiniteSet({rels[i][1] : i \in DOMAIN rels})
         /\ Cardinality({rels[i][1] : i \in DOMAIN rels}) <= Len(rels)
         /\ Cardinality({rels[i][1] : i \in DOMAIN rels}) \in Nat
<1>. DEFINE F == {rels[i][1] : i \in DOMAIN rels}
            f == [i \in DOMAIN rels |-> rels[i][1]]
<1>1. Len(rels) \in Nat /\ DOMAIN rels = 1 .. Len(rels)
  <2>1. PICK T : rels \in Seq(T)
    BY DEF PN!IsList
  <2>. QED  BY <2>1
<1>2. IsFiniteSet(DOMAIN rels) /\ Cardinality(DOMAIN rels) = Len(rels)
  <2>1. /\ IsFiniteSet(1 .. Len(rels))
        /\ Cardinality(1 .. Len(rels)) = IF 1 > Len(rels) THEN 0 ELSE Len(rels) - 1 + 1
    BY <1>1, FS_Interval
  <2>. QED  BY <1>1, <2>1
<1>3. f \in Surjection(DOMAIN rels, F)
  BY DEF Surjection
<1>4. \A d : PN!DependentsOf(rels, d) \subseteq F
  BY DEF PN!DependentsOf
<1>. HIDE DEF f, F
<1>5. IsFiniteSet(F) /\ Cardinality(F) <= Len(rels)
  BY <1>2, <1>3, FS_Surjection
<1>6. Cardinality(F) \in Nat
  BY <1>5, FS_CardinalityType
<1>. QED  BY <1>1, <1>4, <1>5, <1>6 DEF F

\* What a walk is between two turns.
Walk(rels, start) ==
  [start : {start}, queue : Seq(Entities(rels, start)), result : Seq(Entities(rels, start))]

\* A turn visits what depends on the head of the queue.
LEMMA TurnFacts ==
  ASSUME NEW rels, NEW start, PN!IsList(rels), NEW w \in Walk(rels, start), w.queue # <<>>
  PROVE  \E new \in Seq(Entities(rels, start)) :
           /\ PN!Turn(rels, w) = [start |-> start, queue |-> Tail(w.queue) \o new, result |-> w.result \o new]
           /\ PN!IsInjective(new)
           /\ PN!ToSet(new) = PN!DependentsOf(rels, Head(w.queue)) \ ({start} \cup PN!ToSet(w.result))
<1>. DEFINE fresh == PN!DependentsOf(rels, Head(w.queue)) \ ({start} \cup PN!ToSet(w.result))
            new == PN!SetToSeq(fresh)
<1>1. fresh \subseteq Entities(rels, start) /\ IsFiniteSet(fresh)
  <2>. DEFINE F == {rels[i][1] : i \in DOMAIN rels}
  <2>1. fresh \subseteq F /\ F \subseteq Entities(rels, start)
    BY ListFacts DEF Entities
  <2>2. IsFiniteSet(F)
    BY ListFacts
  <2>. HIDE DEF fresh, F
  <2>3. IsFiniteSet(fresh)
    BY <2>1, <2>2, FS_Subset
  <2>. QED  BY <2>1, <2>3
<1>2. w.start = start
  BY DEF Walk
<1>3. PN!Turn(rels, w) = [start |-> start, queue |-> Tail(w.queue) \o new, result |-> w.result \o new]
  BY <1>2 DEF PN!Turn
<1>. HIDE DEF fresh
<1>4. new \in Seq(fresh) /\ PN!IsInjective(new) /\ PN!ToSet(new) = fresh
  BY <1>1, PnSeqOfSet
<1>. HIDE DEF new
<1>5. new \in Seq(Entities(rels, start))
  BY <1>1, <1>4
<1>. QED  BY <1>3, <1>4, <1>5 DEF fresh

LEMMA TurnStays ==
  ASSUME NEW rels, NEW start, PN!IsList(rels), NEW w \in Walk(rels, start)
  PROVE  PN!Turn(rels, w) \in Walk(rels, start)
<1>1. CASE w.queue = <<>>
  BY <1>1 DEF PN!Turn
<1>2. CASE w.queue # <<>>
  <2>. DEFINE E == Entities(rels, start)
  <2>1. PICK new \in Seq(E) :
          /\ PN!Turn(rels, w) = [start |-> start, queue |-> Tail(w.queue) \o new, result |-> w.result \o new]
          /\ PN!IsInjective(new)
          /\ PN!ToSet(new) = PN!DependentsOf(rels, Head(w.queue)) \ ({start} \cup PN!ToSet(w.result))
    BY <1>2, TurnFacts
  <2>2. w.queue \in Seq(E) /\ w.result \in Seq(E)
    BY DEF Walk
  <2>. HIDE DEF E
  <2>3. Tail(w.queue) \in Seq(E)
    BY <1>2, <2>2
  <2>4. Tail(w.queue) \o new \in Seq(E) /\ w.result \o new \in Seq(E)
    BY <2>2, <2>3, Joined
  <2>. QED  BY <2>1, <2>4 DEF Walk, E
<1>. QED  BY <1>1, <1>2

\* The walk w after n turns: what was visited and is not queued has all its
\* dependents visited, nothing was visited that every such set has not, and
\* each turn takes one entity from the queue.
WalkInv(rels, start, w, n) ==
  LET visited == {start} \cup PN!ToSet(w.result) IN
  /\ w \in Walk(rels, start)
  /\ PN!IsInjective(w.result) /\ start \notin PN!ToSet(w.result)
  /\ PN!ToSet(w.result) \subseteq {rels[i][1] : i \in DOMAIN rels}
  /\ PN!ToSet(w.queue) \subseteq visited
  /\ \A d \in visited \ PN!ToSet(w.queue) : PN!DependentsOf(rels, d) \subseteq visited
  /\ \A S \in SUBSET Entities(rels, start) : start \in S /\ PnClosed(rels, S) => visited \subseteq S
  /\ w.queue = <<>> \/ n + Len(w.queue) = 1 + Len(w.result)

LEMMA WalkStarts ==
  ASSUME NEW rels, NEW start, PN!IsList(rels)
  PROVE  WalkInv(rels, start, [start |-> start, queue |-> <<start>>, result |-> <<>>], 0)
<1>. DEFINE w == [start |-> start, queue |-> <<start>>, result |-> <<>>]
<1>1. start \in Entities(rels, start)
  BY DEF Entities
<1>2. w \in Walk(rels, start)
  BY <1>1 DEF Walk
<1>3. PN!ToSet(w.result) = {} /\ PN!ToSet(w.queue) = {start} /\ PN!IsInjective(w.result)
  BY DEF PN!ToSet, PN!IsInjective
<1>4. Len(w.queue) = 1 /\ Len(w.result) = 0
  OBVIOUS
<1>. HIDE DEF w
<1>. QED  BY <1>2, <1>3, <1>4 DEF WalkInv, w

LEMMA WalkGoesOn ==
  ASSUME NEW rels, NEW start, PN!IsList(rels), NEW n \in Nat, NEW w, WalkInv(rels, start, w, n)
  PROVE  WalkInv(rels, start, PN!Turn(rels, w), n + 1)
<1>. DEFINE E == Entities(rels, start)
            visited == {start} \cup PN!ToSet(w.result)
<1>1. w \in Walk(rels, start)
  BY DEF WalkInv
<1>2. CASE w.queue = <<>>
  <2>1. PN!Turn(rels, w) = w
    BY <1>2 DEF PN!Turn
  <2>. QED  BY <1>2, <2>1 DEF WalkInv
<1>3. CASE w.queue # <<>>
  <2>. DEFINE d == Head(w.queue)
              x == PN!Turn(rels, w)
  <2>1. PICK new \in Seq(E) :
          /\ x = [start |-> start, queue |-> Tail(w.queue) \o new, result |-> w.result \o new]
          /\ PN!IsInjective(new)
          /\ PN!ToSet(new) = PN!DependentsOf(rels, d) \ visited
    BY <1>1, <1>3, TurnFacts
  <2>2. w.queue \in Seq(E) /\ w.result \in Seq(E)
    BY <1>1 DEF Walk
  <2>. HIDE DEF E
  <2>3. /\ d \in E /\ Tail(w.queue) \in Seq(E) /\ Len(Tail(w.queue)) = Len(w.queue) - 1 /\ Len(w.queue) \in Nat
        /\ d \in PN!ToSet(w.queue)
        /\ PN!ToSet(w.queue) \subseteq PN!ToSet(Tail(w.queue)) \cup {d}
        /\ PN!ToSet(Tail(w.queue)) \subseteq PN!ToSet(w.queue)
    BY <1>3, <2>2, HeadOf
  <2>4. Len(new) \in Nat /\ Len(w.result) \in Nat
    BY <2>1, <2>2
  <2>5. /\ Tail(w.queue) \o new \in Seq(E) /\ Len(Tail(w.queue) \o new) = Len(w.queue) - 1 + Len(new)
        /\ PN!ToSet(Tail(w.queue) \o new) = PN!ToSet(Tail(w.queue)) \cup PN!ToSet(new)
    <3>. DEFINE rest == Tail(w.queue)
    <3>1. rest \in Seq(E) /\ Len(rest) = Len(w.queue) - 1
      BY <2>3
    <3>. HIDE DEF rest
    <3>2. rest \o new \in Seq(E) /\ Len(rest \o new) = Len(rest) + Len(new)
          /\ PN!ToSet(rest \o new) = PN!ToSet(rest) \cup PN!ToSet(new)
      BY <3>1, Joined
    <3>. QED  BY <3>1, <3>2 DEF rest
  <2>6. /\ w.result \o new \in Seq(E) /\ Len(w.result \o new) = Len(w.result) + Len(new)
        /\ PN!ToSet(w.result \o new) = PN!ToSet(w.result) \cup PN!ToSet(new)
        /\ PN!IsInjective(w.result \o new)
    BY <2>1, <2>2, Joined DEF WalkInv
  <2>a. x \in Walk(rels, start)
    BY <1>1, TurnStays
  <2>. HIDE DEF d, x
  <2>7. x.queue = Tail(w.queue) \o new /\ x.result = w.result \o new /\ x \in Walk(rels, start)
    BY <2>1, <2>a
  <2>. DEFINE visitedNow == {start} \cup PN!ToSet(x.result)
  <2>8. visitedNow = visited \cup PN!ToSet(new) /\ PN!DependentsOf(rels, d) \subseteq visitedNow
    BY <2>1, <2>6, <2>7
  <2>9. PN!ToSet(x.queue) \subseteq visitedNow
    BY <2>3, <2>5, <2>7, <2>8 DEF WalkInv
  <2>10. start \notin PN!ToSet(x.result) /\ PN!ToSet(x.result) \subseteq {rels[i][1] : i \in DOMAIN rels}
    <3>1. PN!ToSet(new) \subseteq {rels[i][1] : i \in DOMAIN rels} /\ start \notin PN!ToSet(new)
      BY <2>1, ListFacts
    <3>. QED  BY <2>6, <2>7, <3>1 DEF WalkInv
  <2>11. ASSUME NEW e \in visitedNow \ PN!ToSet(x.queue) PROVE PN!DependentsOf(rels, e) \subseteq visitedNow
    <3>1. CASE e = d
      BY <2>8, <3>1
    <3>2. CASE e # d
      <4>1. e \in visited \ PN!ToSet(w.queue)
        BY <2>3, <2>5, <2>7, <2>8, <3>2
      <4>2. PN!DependentsOf(rels, e) \subseteq visited
        BY <4>1 DEF WalkInv
      <4>. QED  BY <2>8, <4>2
    <3>. QED  BY <3>1, <3>2
  <2>12. ASSUME NEW S \in SUBSET E, start \in S, PnClosed(rels, S) PROVE visitedNow \subseteq S
    <3>1. visited \subseteq S
      BY <2>12 DEF WalkInv, E
    <3>2. d \in visited
      BY <2>3 DEF WalkInv
    <3>3. PN!DependentsOf(rels, d) \subseteq S
      BY <2>12, <3>1, <3>2 DEF PnClosed
    <3>. QED  BY <2>1, <2>8, <3>1, <3>3
  <2>13. n + 1 + Len(x.queue) = 1 + Len(x.result)
    <3>1. n + Len(w.queue) = 1 + Len(w.result)
      BY <1>3 DEF WalkInv
    <3>2. Len(x.queue) = Len(w.queue) - 1 + Len(new) /\ Len(x.result) = Len(w.result) + Len(new)
      BY <2>5, <2>6, <2>7
    <3>3. Len(w.queue) \in Nat /\ Len(w.result) \in Nat /\ Len(new) \in Nat
      BY <2>3, <2>4
    <3>. DEFINE queued == Len(w.queue)
                found == Len(w.result)
                more == Len(new)
                queuedNow == Len(x.queue)
                foundNow == Len(x.result)
    <3>4. /\ n + queued = 1 + found /\ queuedNow = queued - 1 + more /\ foundNow = found + more
          /\ queued \in Nat /\ found \in Nat /\ more \in Nat
      BY <3>1, <3>2, <3>3
    <3>. HIDE DEF queued, found, more, queuedNow, foundNow
    <3>5. n + 1 + queuedNow = 1 + foundNow
      BY <3>4
    <3>. QED  BY <3>5 DEF queuedNow, foundNow
  <2>14. WalkInv(rels, start, x, n + 1)
    BY <2>6, <2>7, <2>9, <2>10, <2>11, <2>12, <2>13 DEF WalkInv, E
  <2>. QED  BY <2>14 DEF x
<1>. QED  BY <1>2, <1>3

\* Impact too is such a function, and its steps are turns.
LEMMA WalkEnds ==
  ASSUME NEW rels, NEW start, PN!IsList(rels)
  PROVE  WalkInv(rels, start, PN!Impact(rels, start), Len(rels) + 1)
<1>. DEFINE N == Len(rels) + 1
            first == [start |-> start, queue |-> <<start>>, result |-> <<>>]
            Eq(f) == f = [n \in 0 .. N |-> IF n = 0 THEN first ELSE PN!Turn(rels, f[n - 1])]
            walk == CHOOSE f : Eq(f)
            Ws == Walk(rels, start)
            step == [p \in (1 .. N) \X Ws |-> PN!Turn(rels, p[2])]
<1>1. PN!Impact(rels, start) = walk[N]
  BY DEF PN!Impact
<1>2. N \in Nat /\ first \in Ws /\ WalkInv(rels, start, first, 0)
  <2>1. Len(rels) \in Nat
    BY ListFacts
  <2>2. WalkInv(rels, start, first, 0)
    BY WalkStarts
  <2>. HIDE DEF first
  <2>. QED  BY <2>1, <2>2 DEF WalkInv
<1>. HIDE DEF N, first, walk
<1>3. \A n \in 1 .. N, w \in Ws : step[<<n, w>>] = PN!Turn(rels, w)
  OBVIOUS
<1>. HIDE DEF step
<1>4. StepsIn(N, Ws, step)
  BY <1>3, TurnStays DEF StepsIn
<1>. HIDE DEF Ws
<1>5. PICK g \in [0 .. N -> Ws] : Follows(g, N, first, step)
  BY <1>2, <1>4, Recursion
<1>6. g[0] = first /\ \A n \in 1 .. N : g[n] = step[<<n, g[n - 1]>>]
  BY <1>5 DEF Follows
<1>7. ASSUME NEW n \in 1 .. N PROVE g[n] = PN!Turn(rels, g[n - 1])
  <2>1. g[n - 1] \in Ws
    BY <1>2
  <2>. QED  BY <1>3, <1>6, <2>1
<1>8. Eq(g)
  BY <1>2, <1>6, <1>7
<1>9. Eq(walk)
  <2>. HIDE DEF Eq
  <2>. QED  BY <1>8 DEF walk
<1>10. walk[0] = first /\ \A n \in 0 .. N - 1 : walk[n + 1] = PN!Turn(rels, walk[n])
  BY <1>2, <1>9
<1>. DEFINE S == {n \in 0 .. N : WalkInv(rels, start, walk[n], n)}
<1>11. 0 \in S
  BY <1>2, <1>10
<1>12. ASSUME NEW n \in 0 .. N - 1, n \in S PROVE n + 1 \in S
  <2>1. n \in Nat /\ n + 1 \in 0 .. N /\ WalkInv(rels, start, walk[n], n)
    BY <1>2, <1>12
  <2>2. WalkInv(rels, start, PN!Turn(rels, walk[n]), n + 1)
    BY <2>1, WalkGoesOn
  <2>. QED  BY <1>10, <2>1, <2>2
<1>. HIDE DEF S
<1>13. 0 .. N \subseteq S
  BY <1>2, <1>11, <1>12, Upwards
<1>14. N \in S
  BY <1>2, <1>13
<1>. QED  BY <1>1, <1>14 DEF S, N

\* A walk that took all it found has found what depends on the start.
LEMMA ImpactHolds ==
  ASSUME NEW rels, NEW start, PN!IsList(rels)
  PROVE  PN!ImpactIsComplete(rels, start)
<1>. DEFINE w == PN!Impact(rels, start)
            E == Entities(rels, start)
            F == {rels[i][1] : i \in DOMAIN rels}
            visited == {start} \cup PN!ToSet(w.result)
<1>1. WalkInv(rels, start, w, Len(rels) + 1)
  BY WalkEnds
<1>. HIDE DEF w
<1>2. w \in Walk(rels, start)
  BY <1>1 DEF WalkInv
<1>3. w.queue \in Seq(E) /\ w.result \in Seq(E)
  BY <1>2 DEF Walk
<1>4. w.queue = <<>>
  \* The walk found no more than there are relationships, and so took all it found.
  <2>1. Len(w.result) \in Nat /\ DOMAIN w.result = 1 .. Len(w.result) /\ Len(w.queue) \in Nat
    <3>. HIDE DEF E
    <3>. QED  BY <1>3
  <2>2. /\ Len(rels) \in Nat /\ IsFiniteSet(F) /\ Cardinality(F) <= Len(rels) /\ Cardinality(F) \in Nat
    BY ListFacts
  <2>3. PN!IsInjective(w.result) /\ PN!ToSet(w.result) \subseteq F
    BY <1>1 DEF WalkInv
  <2>. HIDE DEF F
  <2>4. w.result \in Injection(1 .. Len(w.result), F)
    <3>1. \A i \in 1 .. Len(w.result) : w.result[i] \in F
      BY <2>1, <2>3 DEF PN!ToSet
    <3>2. w.result \in [1 .. Len(w.result) -> F]
      <4>. HIDE DEF E
      <4>. QED  BY <1>3, <3>1
    <3>. QED  BY <2>1, <2>3, <3>2 DEF Injection, PN!IsInjective, IsInjective
  <2>5. Cardinality(1 .. Len(w.result)) <= Cardinality(F)
    BY <2>2, <2>4, FS_Injection
  <2>6. Cardinality(1 .. Len(w.result)) = Len(w.result)
    <3>. DEFINE found == Len(w.result)
    <3>. HIDE DEF found
    <3>1. found \in Nat
      BY <2>1 DEF found
    <3>2. Cardinality(1 .. found) = found
      BY <3>1, Counting
    <3>. QED  BY <3>2 DEF found
  <2>7. CASE Len(rels) + 1 + Len(w.queue) = 1 + Len(w.result)
    <3>. DEFINE queued == Len(w.queue)
                found == Len(w.result)
                all == Len(rels)
                most == Cardinality(F)
    <3>1. /\ all + 1 + queued = 1 + found /\ found <= most /\ most <= all
          /\ all \in Nat /\ queued \in Nat /\ found \in Nat /\ most \in Nat
      BY <2>1, <2>2, <2>5, <2>6, <2>7
    <3>. HIDE DEF queued, found, all, most
    <3>2. queued = 0
      BY <3>1
    <3>3. Len(w.queue) = 0
      BY <3>2 DEF queued
    <3>. HIDE DEF E
    <3>. QED  BY <1>3, <3>3
  <2>. QED  BY <1>1, <2>7 DEF WalkInv
<1>5. /\ PN!IsInjective(w.result) /\ start \notin PN!ToSet(w.result)
      /\ PN!ToSet(w.result) \subseteq F
      /\ \A S \in SUBSET E : start \in S /\ PnClosed(rels, S) => visited \subseteq S
  BY <1>1 DEF WalkInv
<1>6. PnClosed(rels, visited) /\ visited \in SUBSET E
  <2>1. PN!ToSet(w.queue) = {}
    BY <1>4 DEF PN!ToSet
  <2>2. \A d \in visited : PN!DependentsOf(rels, d) \subseteq visited
    BY <1>1, <2>1 DEF WalkInv
  <2>. QED  BY <1>5, <2>2 DEF PnClosed, Entities
<1>7. PN!Affected(rels, start)
        = {e \in E : \A S \in SUBSET E : start \in S /\ PnClosed(rels, S) => e \in S} \ {start}
  BY DEF PN!Affected, Entities, PnClosed
<1>8. PN!ToSet(w.result) = PN!Affected(rels, start)
  <2>. HIDE DEF E, F
  <2>1. ASSUME NEW e \in PN!ToSet(w.result) PROVE e \in PN!Affected(rels, start)
    BY <1>5, <1>6, <1>7
  <2>2. ASSUME NEW e \in PN!Affected(rels, start) PROVE e \in PN!ToSet(w.result)
    BY <1>6, <1>7
  <2>. QED  BY <2>1, <2>2
<1>. QED  BY <1>4, <1>5, <1>8 DEF PN!ImpactIsComplete, w

LEMMA RowFacts ==
  ASSUME NEW rows \in PN!Rows
  PROVE  /\ Len(rows) \in Nat /\ DOMAIN rows = 1 .. Len(rows)
         /\ \A i \in DOMAIN rows : /\ rows[i].cell.number \in Int \cup {None} /\ rows[i].cell.text \in Int
                                   /\ rows[i].matches \in BOOLEAN /\ rows[i].tagged \in BOOLEAN /\ rows[i].field \in BOOLEAN
<1>. DEFINE R == [cell : [number : Int \cup {None}, text : Int], matches : BOOLEAN, tagged : BOOLEAN, field : BOOLEAN]
<1>1. rows \in Seq(R)
  BY DEF PN!Rows
<1>. HIDE DEF R
<1>2. Len(rows) \in Nat /\ DOMAIN rows = 1 .. Len(rows) /\ \A i \in DOMAIN rows : rows[i] \in R
  BY <1>1
<1>. QED  BY <1>2 DEF R

\* In a uniform column, the order of the rows is that of the comparison.
LEMMA UniformOrder ==
  ASSUME NEW rows \in PN!Rows, NEW asked, PN!Uniform(rows),
         NEW i \in DOMAIN rows, NEW j \in DOMAIN rows
  PROVE  /\ PN!Less(rows[i].cell, rows[j].cell, asked.dir) => PN!InOrder(rows, asked, i, j)
         /\ ~PN!Less(rows[i].cell, rows[j].cell, asked.dir) /\ j < i => PN!InOrder(rows, asked, j, i)
         /\ \A k \in DOMAIN rows :
              PN!InOrder(rows, asked, i, j) /\ PN!InOrder(rows, asked, j, k) => PN!InOrder(rows, asked, i, k)
<1>. DEFINE key(r) == IF rows[r].cell.number # None THEN rows[r].cell.number ELSE rows[r].cell.text
<1>0. i \in Nat /\ j \in Nat /\ DOMAIN rows \subseteq Nat
  BY RowFacts
<1>1. ASSUME NEW r \in DOMAIN rows PROVE key(r) \in Int
  BY RowFacts
<1>2. ASSUME NEW r \in DOMAIN rows, NEW s \in DOMAIN rows
      PROVE  /\ PN!CompareValues(rows[r].cell, rows[s].cell) = key(r) - key(s)
             /\ PN!InOrder(rows, asked, r, s)
                  <=> \/ IF asked.dir = "desc" THEN key(s) - key(r) < 0 ELSE key(s) - key(r) > 0
                      \/ key(s) - key(r) = 0 /\ r < s
  <2>1. rows[r].cell.number # None <=> rows[s].cell.number # None
    BY DEF PN!Uniform
  <2>. QED  BY <2>1 DEF PN!CompareValues, PN!InOrder
<1>. HIDE DEF key
<1>3. PN!Less(rows[i].cell, rows[j].cell, asked.dir)
        <=> IF asked.dir = "desc" THEN key(i) - key(j) > 0 ELSE key(i) - key(j) < 0
  BY <1>2 DEF PN!Less
<1>4. PN!Less(rows[i].cell, rows[j].cell, asked.dir) => PN!InOrder(rows, asked, i, j)
  <2>1. key(i) \in Int /\ key(j) \in Int
    BY <1>1
  <2>. QED  BY <1>0, <1>2, <1>3, <2>1
<1>5. ~PN!Less(rows[i].cell, rows[j].cell, asked.dir) /\ j < i => PN!InOrder(rows, asked, j, i)
  <2>1. key(i) \in Int /\ key(j) \in Int
    BY <1>1
  <2>. QED  BY <1>0, <1>2, <1>3, <2>1
<1>6. ASSUME NEW k \in DOMAIN rows, PN!InOrder(rows, asked, i, j), PN!InOrder(rows, asked, j, k)
      PROVE  PN!InOrder(rows, asked, i, k)
  <2>1. key(i) \in Int /\ key(j) \in Int /\ key(k) \in Int /\ k \in Nat
    BY <1>0, <1>1
  <2>2. /\ \/ IF asked.dir = "desc" THEN key(j) - key(i) < 0 ELSE key(j) - key(i) > 0
           \/ key(j) - key(i) = 0 /\ i < j
        /\ \/ IF asked.dir = "desc" THEN key(k) - key(j) < 0 ELSE key(k) - key(j) > 0
           \/ key(k) - key(j) = 0 /\ j < k
    BY <1>2, <1>6
  <2>3. \/ IF asked.dir = "desc" THEN key(k) - key(i) < 0 ELSE key(k) - key(i) > 0
        \/ key(k) - key(i) = 0 /\ i < k
    BY <1>0, <2>1, <2>2
  <2>. QED  BY <1>2, <2>3
<1>. QED  BY <1>4, <1>5, <1>6

LEMMA MaxOf ==
  ASSUME NEW N \in Nat, NEW T, T \subseteq 1 .. N, T # {}
  PROVE  PN!Max(T) \in T /\ \A x \in T : PN!Max(T) >= x
<1>. DEFINE U == {N - x : x \in T}
<1>1. U \subseteq Nat /\ U # {}
  <2>1. \A x \in T : N - x \in Nat
    OBVIOUS
  <2>. QED  BY <2>1
<1>2. PICK u \in U : \A v \in U : u <= v
  BY <1>1, Least
<1>3. PICK y \in T : u = N - y
  BY <1>2
<1>4. ASSUME NEW x \in T PROVE y >= x
  <2>1. N - y <= N - x
    BY <1>2, <1>3
  <2>. QED  BY <2>1
<1>. QED  BY <1>4 DEF PN!Max

\* t is the list l with e at m.
IsInsertion(t, l, m, e) ==
  /\ t \in Seq(Nat) /\ Len(t) = Len(l) + 1 /\ t[m] = e
  /\ \A k \in 1 .. m - 1 : t[k] = l[k]
  /\ \A k \in m + 1 .. Len(l) + 1 : t[k] = l[k - 1]

LEMMA InsertFacts ==
  ASSUME NEW s \in Seq(Nat), NEW m \in 1 .. Len(s) + 1, NEW e \in Nat
  PROVE  IsInsertion(PN!InsertAt(s, m, e), s, m, e)
<1>. DEFINE left == SubSeq(s, 1, m - 1)
            T == Nat
            right == SubSeq(s, m, Len(s))
<1>1. Len(s) \in Nat /\ m \in Nat /\ s \in Seq(T) /\ e \in T
  OBVIOUS
<1>. HIDE DEF T
<1>2. /\ left \in Seq(T) /\ Len(left) = m - 1 /\ \A k \in 1 .. m - 1 : left[k] = s[k]
  BY <1>1
<1>3. /\ right \in Seq(T) /\ Len(right) = Len(s) - m + 1
      /\ \A k \in 1 .. Len(s) - m + 1 : right[k] = s[m + k - 1]
  BY <1>1
<1>. HIDE DEF left, right
<1>. DEFINE l == left \o <<e>>
            t == l \o right
<1>a. /\ l \in Seq(T) /\ Len(l) = m /\ l[m] = e
      /\ \A k \in 1 .. m - 1 : l[k] = left[k]
  BY <1>1, <1>2
<1>. HIDE DEF l
<1>4. t \in Seq(T) /\ Len(t) = Len(s) + 1
  <2>0. l \in Seq(T) /\ right \in Seq(T)
    BY <1>3, <1>a
  <2>1. t \in Seq(T) /\ Len(t) = Len(l) + Len(right)
    BY <2>0, Concatenated
  <2>. HIDE DEF t
  <2>2. Len(l) = m /\ Len(right) = Len(s) - m + 1 /\ m \in Nat /\ Len(s) \in Nat
    BY <1>1, <1>3, <1>a
  <2>. QED  BY <2>1, <2>2
<1>5. /\ t[m] = e
      /\ \A k \in 1 .. m - 1 : t[k] = left[k]
      /\ \A k \in m + 1 .. Len(s) + 1 : t[k] = right[k - m]
  <2>0. l \in Seq(T) /\ right \in Seq(T)
    BY <1>3, <1>a
  <2>1. /\ \A k \in 1 .. Len(l) : t[k] = l[k]
        /\ \A k \in Len(l) + 1 .. Len(l) + Len(right) : t[k] = right[k - Len(l)]
    BY <2>0, Concatenated
  <2>. HIDE DEF t
  <2>a. Len(l) = m /\ Len(l) + Len(right) = Len(s) + 1
    BY <1>1, <1>3, <1>a
  <2>2. /\ \A k \in 1 .. m : t[k] = l[k]
        /\ \A k \in m + 1 .. Len(s) + 1 : t[k] = right[k - m]
    BY <2>1, <2>a
  <2>. QED  BY <1>1, <1>a, <2>2
<1>6. ASSUME NEW k \in m + 1 .. Len(s) + 1 PROVE t[k] = s[k - 1]
  <2>1. k - m \in 1 .. Len(s) - m + 1 /\ m + (k - m) - 1 = k - 1
    BY <1>1
  <2>. QED  BY <1>3, <1>5, <2>1
<1>7. PN!InsertAt(s, m, e) = t
  BY DEF PN!InsertAt, left, right, l
<1>. HIDE DEF t
<1>. QED  BY <1>2, <1>4, <1>5, <1>6, <1>7 DEF IsInsertion, T

\* The list after n rows.
ListInv(rows, asked, n, l) ==
  /\ l \in Seq(Nat)
  /\ \A k \in DOMAIN l : l[k] \in 1 .. n /\ PN!Wanted(rows[l[k]], asked)
  /\ \A i \in 1 .. n : PN!Wanted(rows[i], asked) => \E k \in DOMAIN l : l[k] = i
  /\ \A k, j \in DOMAIN l : l[k] = l[j] => k = j
  /\ asked.sort /\ PN!Uniform(rows) => \A k, j \in DOMAIN l : k < j => PN!InOrder(rows, asked, l[k], l[j])
  /\ ~asked.sort => \A k, j \in DOMAIN l : k < j => l[k] < l[j]

\* A row that goes where the comparison says leaves a list in order.
LEMMA RowIsInserted ==
  ASSUME NEW rows, NEW asked, NEW n \in Nat, NEW l, ListInv(rows, asked, n, l),
         PN!Wanted(rows[n + 1], asked),
         NEW m \in 1 .. Len(l) + 1, NEW t, IsInsertion(t, l, m, n + 1),
         asked.sort /\ PN!Uniform(rows) =>
           /\ \A k \in 1 .. m - 1 : PN!InOrder(rows, asked, l[k], n + 1)
           /\ \A k \in m .. Len(l) : PN!InOrder(rows, asked, n + 1, l[k]),
         ~asked.sort => m = Len(l) + 1
  PROVE  ListInv(rows, asked, n + 1, t)
<1>. DEFINE size == Len(l)
<1>1. /\ l \in Seq(Nat) /\ size \in Nat /\ DOMAIN l = 1 .. size /\ m \in 1 .. size + 1
      /\ t \in Seq(Nat) /\ DOMAIN t = 1 .. size + 1 /\ t[m] = n + 1
  BY DEF ListInv, IsInsertion
<1>0. /\ \A k \in 1 .. m - 1 : t[k] = l[k]
      /\ \A k \in m + 1 .. size + 1 : t[k] = l[k - 1]
      /\ ~asked.sort => m = size + 1
      /\ asked.sort /\ PN!Uniform(rows) =>
           /\ \A k \in 1 .. m - 1 : PN!InOrder(rows, asked, l[k], n + 1)
           /\ \A k \in m .. size : PN!InOrder(rows, asked, n + 1, l[k])
  BY DEF IsInsertion
<1>. HIDE DEF size

\* Where an element of t comes from: a position of l, in the same order.
<1>. DEFINE from(k) == IF k < m THEN k ELSE k - 1
<1>2. ASSUME NEW k \in DOMAIN t, k # m PROVE from(k) \in DOMAIN l /\ t[k] = l[from(k)]
  <2>1. CASE k < m
    <3>1. k \in 1 .. m - 1 /\ k \in DOMAIN l
      BY <1>1, <2>1
    <3>. QED  BY <1>0, <2>1, <3>1
  <2>2. CASE ~(k < m)
    <3>1. k \in m + 1 .. size + 1 /\ k - 1 \in DOMAIN l
      BY <1>1, <1>2, <2>2
    <3>. QED  BY <1>0, <2>2, <3>1
  <2>. QED  BY <2>1, <2>2
<1>3. ASSUME NEW k \in DOMAIN l PROVE \E j \in DOMAIN t : t[j] = l[k]
  <2>1. CASE k < m
    <3>1. k \in 1 .. m - 1 /\ k \in DOMAIN t
      BY <1>1, <2>1
    <3>. QED  BY <1>0, <3>1
  <2>2. CASE ~(k < m)
    <3>1. k + 1 \in m + 1 .. size + 1 /\ k + 1 \in DOMAIN t /\ (k + 1) - 1 = k
      BY <1>1, <2>2
    <3>2. t[k + 1] = l[k]
      BY <1>0, <3>1
    <3>. QED  BY <3>1, <3>2
  <2>. QED  BY <2>1, <2>2
<1>4. ASSUME NEW k \in DOMAIN t, NEW j \in DOMAIN t, k # m, j # m
      PROVE  (from(k) = from(j) => k = j) /\ (k < j => from(k) < from(j))
  <2>1. k \in Nat /\ j \in Nat /\ m \in Nat
    BY <1>1
  <2>. QED  BY <1>4, <2>1
<1>5. ASSUME NEW k \in DOMAIN t
      PROVE  (k < m => from(k) \in 1 .. m - 1) /\ (k > m => from(k) \in m .. size)
  BY <1>1
<1>. HIDE DEF from
<1>6. \A k \in DOMAIN l : l[k] \in 1 .. n /\ PN!Wanted(rows[l[k]], asked)
  BY DEF ListInv
<1>7. ASSUME NEW k \in DOMAIN t PROVE t[k] \in 1 .. n + 1 /\ PN!Wanted(rows[t[k]], asked)
  <2>1. CASE k = m
    BY <1>1, <2>1
  <2>2. CASE k # m
    <3>1. t[k] \in 1 .. n /\ PN!Wanted(rows[t[k]], asked)
      BY <1>2, <1>6, <2>2
    <3>. QED  BY <3>1
  <2>. QED  BY <2>1, <2>2
<1>8. ASSUME NEW i \in 1 .. n + 1, PN!Wanted(rows[i], asked) PROVE \E k \in DOMAIN t : t[k] = i
  <2>1. CASE i = n + 1
    <3>1. m \in DOMAIN t
      BY <1>1
    <3>. QED  BY <1>1, <2>1, <3>1
  <2>2. CASE i # n + 1
    <3>1. i \in 1 .. n
      BY <2>2
    <3>2. PICK k \in DOMAIN l : l[k] = i
      BY <1>8, <3>1 DEF ListInv
    <3>. QED  BY <1>3, <3>2
  <2>. QED  BY <2>1, <2>2
<1>9. ASSUME NEW k \in DOMAIN t, k # m PROVE t[k] # n + 1
  <2>1. t[k] \in 1 .. n
    BY <1>2, <1>6, <1>9
  <2>. QED  BY <2>1
<1>10. ASSUME NEW k \in DOMAIN t, NEW j \in DOMAIN t, t[k] = t[j] PROVE k = j
  <2>1. CASE k = m \/ j = m
    BY <1>1, <1>9, <1>10, <2>1
  <2>2. CASE k # m /\ j # m
    <3>1. from(k) \in DOMAIN l /\ from(j) \in DOMAIN l /\ l[from(k)] = l[from(j)]
      BY <1>2, <1>10, <2>2
    <3>2. from(k) = from(j)
      BY <3>1 DEF ListInv
    <3>. QED  BY <1>4, <2>2, <3>2
  <2>. QED  BY <2>1, <2>2
<1>11. ASSUME asked.sort, PN!Uniform(rows), NEW k \in DOMAIN t, NEW j \in DOMAIN t, k < j
       PROVE  PN!InOrder(rows, asked, t[k], t[j])
  <2>0. k \in Nat /\ j \in Nat
    BY <1>1
  <2>1. CASE k = m
    <3>1. from(j) \in m .. size /\ t[j] = l[from(j)]
      BY <1>1, <1>2, <1>5, <1>11, <2>0, <2>1
    <3>. QED  BY <1>0, <1>1, <1>11, <2>1, <3>1
  <2>2. CASE j = m
    <3>1. from(k) \in 1 .. m - 1 /\ t[k] = l[from(k)]
      BY <1>1, <1>2, <1>5, <1>11, <2>0, <2>2
    <3>. QED  BY <1>0, <1>1, <1>11, <2>2, <3>1
  <2>3. CASE k # m /\ j # m
    <3>1. /\ from(k) \in DOMAIN l /\ from(j) \in DOMAIN l /\ from(k) < from(j)
          /\ t[k] = l[from(k)] /\ t[j] = l[from(j)]
      BY <1>2, <1>4, <1>11, <2>3
    <3>. QED  BY <1>11, <3>1 DEF ListInv
  <2>. QED  BY <2>1, <2>2, <2>3
<1>12. ASSUME ~asked.sort, NEW k \in DOMAIN t, NEW j \in DOMAIN t, k < j PROVE t[k] < t[j]
  <2>0. k \in Nat /\ j \in Nat /\ m = size + 1
    BY <1>0, <1>1, <1>12
  <2>1. k # m
    BY <1>1, <1>12, <2>0
  <2>2. from(k) \in DOMAIN l /\ t[k] = l[from(k)] /\ t[k] \in 1 .. n
    BY <1>2, <1>6, <2>1
  <2>3. CASE j = m
    BY <1>1, <2>2, <2>3
  <2>4. CASE j # m
    <3>1. from(j) \in DOMAIN l /\ from(k) < from(j) /\ t[j] = l[from(j)]
      BY <1>2, <1>4, <1>12, <2>1, <2>4
    <3>. QED  BY <1>12, <2>2, <3>1 DEF ListInv
  <2>. QED  BY <2>3, <2>4
<1>. QED  BY <1>1, <1>7, <1>8, <1>10, <1>11, <1>12 DEF ListInv
\* What the loop does with a row.
Pass(rows, asked, n, l) ==
  IF ~PN!Wanted(rows[n], asked) THEN l
  ELSE IF asked.sort THEN PN!Inserted(rows, l, n, asked.dir)
  ELSE Append(l, n)

\* The place of a row.
Place(rows, asked, n, l) ==
  LET stays == {k \in DOMAIN l : ~PN!Less(rows[n].cell, rows[l[k]].cell, asked.dir)}
  IN IF ~asked.sort THEN Len(l) + 1 ELSE IF stays = {} THEN 1 ELSE PN!Max(stays) + 1

LEMMA PlaceFacts ==
  ASSUME NEW rows, NEW asked, NEW n \in Nat, NEW l \in Seq(Nat)
  PROVE  /\ Place(rows, asked, n, l) \in 1 .. Len(l) + 1
         /\ PN!Wanted(rows[n], asked) => IsInsertion(Pass(rows, asked, n, l), l, Place(rows, asked, n, l), n)
         /\ Pass(rows, asked, n, l) \in Seq(Nat)
<1>. DEFINE stays == {k \in DOMAIN l : ~PN!Less(rows[n].cell, rows[l[k]].cell, asked.dir)}
            m == Place(rows, asked, n, l)
            t == Pass(rows, asked, n, l)
<1>. DEFINE size == Len(l)
<1>1. size \in Nat /\ DOMAIN l = 1 .. size
  OBVIOUS
<1>. HIDE DEF size
<1>2. m \in 1 .. size + 1
  <2>1. CASE ~asked.sort
    BY <1>1, <2>1 DEF Place, size
  <2>2. CASE asked.sort /\ stays = {}
    BY <1>1, <2>2 DEF Place, size
  <2>3. CASE asked.sort /\ stays # {}
    <3>1. stays \subseteq 1 .. size
      BY <1>1
    <3>2. m = PN!Max(stays) + 1
      BY <2>3 DEF Place
    <3>. HIDE DEF stays, m
    <3>3. PN!Max(stays) \in 1 .. size
      BY <1>1, <2>3, <3>1, MaxOf
    <3>. QED  BY <1>1, <3>2, <3>3
  <2>. QED  BY <2>1, <2>2, <2>3
<1>3. ASSUME PN!Wanted(rows[n], asked) PROVE IsInsertion(t, l, m, n)
  <2>1. CASE asked.sort
    <3>1. t = PN!InsertAt(l, m, n)
      BY <1>3, <2>1 DEF Pass, PN!Inserted, Place
    <3>. HIDE DEF m, t
    <3>2. m \in 1 .. Len(l) + 1
      BY <1>2 DEF size
    <3>. QED  BY <3>1, <3>2, InsertFacts
  <2>2. CASE ~asked.sort
    <3>1. t = Append(l, n) /\ m = Len(l) + 1
      BY <1>3, <2>2 DEF Pass, Place
    <3>. HIDE DEF m, t
    <3>2. t \in Seq(Nat) /\ Len(t) = Len(l) + 1 /\ t[Len(l) + 1] = n /\ \A k \in 1 .. Len(l) : t[k] = l[k]
      BY <3>1
    <3>3. m - 1 = Len(l) /\ m + 1 .. Len(l) + 1 = {}
      BY <3>1
    <3>. QED  BY <3>1, <3>2, <3>3 DEF IsInsertion
  <2>. QED  BY <2>1, <2>2
<1>4. t \in Seq(Nat)
  <2>1. CASE PN!Wanted(rows[n], asked)
    BY <1>3, <2>1 DEF IsInsertion
  <2>2. CASE ~PN!Wanted(rows[n], asked)
    BY <2>2 DEF Pass
  <2>. QED  BY <2>1, <2>2
<1>. QED  BY <1>2, <1>3, <1>4 DEF size

LEMMA ListGoesOn ==
  ASSUME NEW rows \in PN!Rows, NEW asked, NEW n \in Nat, n + 1 \in DOMAIN rows,
         NEW l, ListInv(rows, asked, n, l)
  PROVE  ListInv(rows, asked, n + 1, Pass(rows, asked, n + 1, l))
<1>. DEFINE m == Place(rows, asked, n + 1, l)
            t == Pass(rows, asked, n + 1, l)
            size == Len(l)
            less(k) == PN!Less(rows[n + 1].cell, rows[l[k]].cell, asked.dir)
            stays == {k \in DOMAIN l : ~less(k)}
<1>1. l \in Seq(Nat) /\ size \in Nat /\ DOMAIN l = 1 .. size /\ n + 1 \in Nat
  BY DEF ListInv
<1>2. /\ m \in 1 .. size + 1 /\ t \in Seq(Nat)
      /\ PN!Wanted(rows[n + 1], asked) => IsInsertion(t, l, m, n + 1)
  BY <1>1, PlaceFacts
<1>3. CASE ~PN!Wanted(rows[n + 1], asked)
  <2>1. t = l
    BY <1>3 DEF Pass
  <2>2. ASSUME NEW i \in 1 .. n + 1, PN!Wanted(rows[i], asked) PROVE i \in 1 .. n
    BY <1>3, <2>2
  <2>3. \A k \in DOMAIN l : l[k] \in 1 .. n + 1
    <3>. SUFFICES ASSUME NEW k \in DOMAIN l PROVE l[k] \in 1 .. n + 1
      OBVIOUS
    <3>1. l[k] \in 1 .. n
      BY DEF ListInv
    <3>. QED  BY <3>1
  <2>4. /\ l \in Seq(Nat)
        /\ \A k \in DOMAIN l : PN!Wanted(rows[l[k]], asked)
        /\ \A i \in 1 .. n : PN!Wanted(rows[i], asked) => \E k \in DOMAIN l : l[k] = i
        /\ \A k, j \in DOMAIN l : l[k] = l[j] => k = j
        /\ asked.sort /\ PN!Uniform(rows) => \A k, j \in DOMAIN l : k < j => PN!InOrder(rows, asked, l[k], l[j])
        /\ ~asked.sort => \A k, j \in DOMAIN l : k < j => l[k] < l[j]
    BY DEF ListInv
  <2>5. ListInv(rows, asked, n + 1, l)
    BY <2>2, <2>3, <2>4 DEF ListInv
  <2>. HIDE DEF t
  <2>. QED  BY <2>1, <2>5 DEF t
<1>4. CASE PN!Wanted(rows[n + 1], asked)
  <2>1. ASSUME NEW k \in DOMAIN l PROVE l[k] \in DOMAIN rows /\ l[k] < n + 1
    <3>1. l[k] \in 1 .. n
      BY DEF ListInv
    <3>. QED  BY <3>1, RowFacts
  <2>2. ASSUME asked.sort, PN!Uniform(rows)
        PROVE  /\ \A k \in 1 .. m - 1 : PN!InOrder(rows, asked, l[k], n + 1)
               /\ \A k \in m .. size : PN!InOrder(rows, asked, n + 1, l[k])
    <3>1. stays \subseteq 1 .. size
      BY <1>1
    <3>2. m = IF stays = {} THEN 1 ELSE PN!Max(stays) + 1
      BY <2>2 DEF Place
    <3>3. stays # {} => PN!Max(stays) \in stays /\ \A k \in stays : PN!Max(stays) >= k
      <4>. HIDE DEF stays, size
      <4>. QED  BY <1>1, <3>1, MaxOf
    <3>4. ASSUME NEW k \in m .. size PROVE PN!InOrder(rows, asked, n + 1, l[k])
      <4>1. k \in DOMAIN l
        BY <1>1, <1>2
      <4>2. k \notin stays
        <5>. SUFFICES ASSUME k \in stays PROVE FALSE
          OBVIOUS
        <5>. DEFINE s == PN!Max(stays)
        <5>1. s \in stays /\ s >= k /\ m = s + 1
          <6>. HIDE DEF stays, m
          <6>. QED  BY <3>2, <3>3
        <5>2. s \in Nat /\ k \in Nat /\ k >= m /\ m \in Nat
          <6>. HIDE DEF stays, m, s, size
          <6>. QED  BY <1>1, <1>2, <3>1, <5>1
        <5>. HIDE DEF s, m
        <5>. QED  BY <5>1, <5>2
      <4>3. less(k)
        BY <4>1, <4>2
      <4>. QED  BY <2>1, <2>2, <4>1, <4>3, UniformOrder
    <3>5. ASSUME NEW k \in 1 .. m - 1 PROVE PN!InOrder(rows, asked, l[k], n + 1)
      <4>. DEFINE s == PN!Max(stays)
      <4>1. s \in stays /\ s \in 1 .. size /\ m = s + 1
        <5>1. stays # {}
          <6>1. m # 1
            <7>. HIDE DEF m
            <7>. QED  BY <1>2
          <6>. HIDE DEF stays, m
          <6>. QED  BY <3>2, <6>1
        <5>. HIDE DEF stays, size, m
        <5>. QED  BY <3>1, <3>2, <3>3, <5>1
      <4>2. PN!InOrder(rows, asked, l[s], n + 1)
        <5>1. s \in DOMAIN l /\ ~less(s)
          BY <4>1
        <5>. HIDE DEF s
        <5>. QED  BY <2>1, <2>2, <5>1, UniformOrder
      <4>. HIDE DEF s, m, size
      <4>3. k \in DOMAIN l /\ s \in DOMAIN l /\ (k = s \/ k < s)
        BY <1>1, <4>1
      <4>4. CASE k = s
        BY <4>2, <4>4
      <4>5. CASE k < s
        <5>1. PN!InOrder(rows, asked, l[k], l[s])
          BY <2>2, <4>3, <4>5 DEF ListInv
        <5>. QED  BY <2>1, <2>2, <4>2, <4>3, <5>1, UniformOrder
      <4>. QED  BY <4>3, <4>4, <4>5
    <3>. QED  BY <3>4, <3>5
  <2>3. ~asked.sort => m = size + 1
    BY DEF Place
  <2>4. asked.sort /\ PN!Uniform(rows) =>
          /\ \A k \in 1 .. m - 1 : PN!InOrder(rows, asked, l[k], n + 1)
          /\ \A k \in m .. Len(l) : PN!InOrder(rows, asked, n + 1, l[k])
    <3>. HIDE DEF m
    <3>. QED  BY <2>2
  <2>5. IsInsertion(t, l, m, n + 1) /\ m \in 1 .. Len(l) + 1 /\ (~asked.sort => m = Len(l) + 1)
    BY <1>2, <1>4, <2>3
  <2>. HIDE DEF m, t
  <2>6. ListInv(rows, asked, n + 1, t)
    BY <1>4, <2>4, <2>5, RowIsInserted
  <2>. QED  BY <2>6 DEF t
<1>. QED  BY <1>3, <1>4

\* FilterSort is a function defined by recursion, and its steps are passes.
LEMMA ListEnds ==
  ASSUME NEW rows \in PN!Rows, NEW asked
  PROVE  ListInv(rows, asked, Len(rows), PN!FilterSort(rows, asked))
<1>. DEFINE N == Len(rows)
            Eq(f) == f = [n \in 0 .. N |->
                            IF n = 0 THEN <<>>
                            ELSE IF ~PN!Wanted(rows[n], asked) THEN f[n - 1]
                            ELSE IF asked.sort THEN PN!Inserted(rows, f[n - 1], n, asked.dir)
                            ELSE Append(f[n - 1], n)]
            lists == CHOOSE f : Eq(f)
            Ls == Seq(Nat)
            step == [p \in (1 .. N) \X Ls |-> Pass(rows, asked, p[1], p[2])]
<1>1. PN!FilterSort(rows, asked) = lists[N]
  BY DEF PN!FilterSort
<1>2. N \in Nat /\ DOMAIN rows = 1 .. N /\ <<>> \in Ls
  BY RowFacts
<1>. HIDE DEF N, lists
<1>3. \A n \in 1 .. N, l \in Ls : step[<<n, l>>] = Pass(rows, asked, n, l)
  OBVIOUS
<1>. HIDE DEF step
<1>4. ASSUME NEW n \in 1 .. N, NEW l \in Ls PROVE Pass(rows, asked, n, l) \in Ls
  BY <1>2, PlaceFacts
<1>. HIDE DEF Ls
<1>5. StepsIn(N, Ls, step)
  BY <1>3, <1>4 DEF StepsIn
<1>6. PICK g \in [0 .. N -> Ls] : Follows(g, N, <<>>, step)
  BY <1>2, <1>5, Recursion
<1>7. g[0] = <<>> /\ \A n \in 1 .. N : g[n] = step[<<n, g[n - 1]>>]
  BY <1>6 DEF Follows
<1>8. ASSUME NEW n \in 1 .. N PROVE g[n] = Pass(rows, asked, n, g[n - 1])
  <2>1. g[n - 1] \in Ls
    BY <1>2
  <2>. QED  BY <1>3, <1>7, <2>1
<1>9. Eq(g)
  <2>1. ASSUME NEW n \in 0 .. N
        PROVE  g[n] = IF n = 0 THEN <<>>
                      ELSE IF ~PN!Wanted(rows[n], asked) THEN g[n - 1]
                      ELSE IF asked.sort THEN PN!Inserted(rows, g[n - 1], n, asked.dir)
                      ELSE Append(g[n - 1], n)
    <3>1. CASE n = 0
      BY <1>7, <3>1
    <3>2. CASE n # 0
      <4>1. n \in 1 .. N
        BY <1>2, <3>2
      <4>. QED  BY <1>8, <3>2, <4>1 DEF Pass
    <3>. QED  BY <3>1, <3>2
  <2>. QED  BY <2>1
<1>10. Eq(lists)
  <2>. HIDE DEF Eq
  <2>. QED  BY <1>9 DEF lists
<1>11. lists[0] = <<>> /\ \A n \in 0 .. N - 1 : lists[n + 1] = Pass(rows, asked, n + 1, lists[n])
  <2>1. lists[0] = <<>>
    BY <1>2, <1>10
  <2>2. ASSUME NEW n \in 0 .. N - 1 PROVE lists[n + 1] = Pass(rows, asked, n + 1, lists[n])
    <3>1. n + 1 \in 0 .. N /\ n + 1 # 0 /\ (n + 1) - 1 = n
      BY <1>2
    <3>2. lists[n + 1] = IF ~PN!Wanted(rows[n + 1], asked) THEN lists[(n + 1) - 1]
                       ELSE IF asked.sort THEN PN!Inserted(rows, lists[(n + 1) - 1], n + 1, asked.dir)
                       ELSE Append(lists[(n + 1) - 1], n + 1)
      BY <1>10, <3>1
    <3>. HIDE DEF Eq
    <3>. QED  BY <3>1, <3>2 DEF Pass
  <2>. QED  BY <2>1, <2>2
<1>. HIDE DEF Eq
<1>. DEFINE S == {n \in 0 .. N : ListInv(rows, asked, n, lists[n])}
<1>12. 0 \in S
  <2>1. ListInv(rows, asked, 0, <<>>)
    BY DEF ListInv
  <2>. QED  BY <1>2, <1>11, <2>1
<1>13. ASSUME NEW n \in 0 .. N - 1, n \in S PROVE n + 1 \in S
  <2>1. n \in Nat /\ n + 1 \in 0 .. N /\ n + 1 \in DOMAIN rows /\ ListInv(rows, asked, n, lists[n])
    BY <1>2, <1>13
  <2>2. ListInv(rows, asked, n + 1, Pass(rows, asked, n + 1, lists[n]))
    BY <2>1, ListGoesOn
  <2>. QED  BY <1>11, <2>1, <2>2
<1>. HIDE DEF S
<1>14. 0 .. N \subseteq S
  BY <1>2, <1>12, <1>13, Upwards
<1>15. N \in S
  BY <1>2, <1>14
<1>. QED  BY <1>1, <1>15 DEF S, N

LEMMA ListHolds ==
  ASSUME NEW rows \in PN!Rows, NEW asked
  PROVE  PN!UniformListsAreSorted(rows, asked)
<1>. DEFINE l == PN!FilterSort(rows, asked)
<1>1. ListInv(rows, asked, Len(rows), l) /\ DOMAIN rows = 1 .. Len(rows)
  BY ListEnds, RowFacts
<1>. HIDE DEF l
<1>2. PN!ToSet(l) = {i \in DOMAIN rows : PN!Wanted(rows[i], asked)} /\ PN!IsInjective(l)
  BY <1>1 DEF ListInv, PN!ToSet, PN!IsInjective
<1>3. asked.sort /\ PN!Uniform(rows) =>
         \A k \in DOMAIN l, j \in DOMAIN l : k < j => PN!InOrder(rows, asked, l[k], l[j])
  BY <1>1 DEF ListInv
<1>4. ~asked.sort => \A k \in DOMAIN l, j \in DOMAIN l : k < j => l[k] < l[j]
  BY <1>1 DEF ListInv
<1>. QED  BY <1>2, <1>3, <1>4 DEF PN!UniformListsAreSorted, l

(***************************************************************************)
(* Whatever a rack holds, however the relationships run, whatever hosts     *)
(* share and whatever the rows of a list: no box of an elevation hides      *)
(* another unflagged, the impact walk ends with just what depends on the    *)
(* entity, duplicates name each other, and a list shows what its filters    *)
(* accept, each once and a uniform column in order.                         *)
(***************************************************************************)
THEOREM PanelsAlwaysShowAll == AllSpec => []PanelsShowAll
<1>1. ASSUME NEW t \in DOMAIN Pages, NEW q \in Pages[t]
      PROVE  /\ t = "rack" => PN!NoHiddenOverlap(q.units, q.occs)
             /\ t = "impact" => PN!ImpactIsComplete(q.rels, q.start)
             /\ t = "duplicates" => PN!DuplicatesFindEachOther(q)
             /\ t = "list" => PN!UniformListsAreSorted(q.rows, q.asked)
  <2>1. ASSUME t = "rack" PROVE PN!NoHiddenOverlap(q.units, q.occs)
    BY <2>1, QuestionsAssumption, ElevationHolds
  <2>2. ASSUME t = "impact" PROVE PN!ImpactIsComplete(q.rels, q.start)
    BY <2>2, QuestionsAssumption, ImpactHolds
  <2>3. ASSUME t = "list" PROVE PN!UniformListsAreSorted(q.rows, q.asked)
    BY <2>3, QuestionsAssumption, ListHolds
  <2>. QED  BY <2>1, <2>2, <2>3, DuplicatesHold
<1>. USE DEF PanelsShowAll, NoHiddenOverlap, ImpactIsComplete, DuplicatesFindEachOther, UniformListsAreSorted
<1>2. AllInit => PanelsShowAll
  BY <1>1 DEF AllInit, PageInit
<1>3. PanelsShowAll /\ [AllNext]_allVars => PanelsShowAll'
  <2>. SUFFICES ASSUME PanelsShowAll, [AllNext]_allVars PROVE PanelsShowAll'
    OBVIOUS
  <2>1. topic' = topic /\ ask' = ask
    BY DEF AllNext, PairsNext, StartNext, ScanNext, DiscoveryNext, allVars
  <2>2. /\ PN!NoHiddenOverlap(ask.units, ask.occs)' <=> PN!NoHiddenOverlap(ask.units, ask.occs)
        /\ PN!ImpactIsComplete(ask.rels, ask.start)' <=> PN!ImpactIsComplete(ask.rels, ask.start)
        /\ PN!DuplicatesFindEachOther(ask)' <=> PN!DuplicatesFindEachOther(ask)
        /\ PN!UniformListsAreSorted(ask.rows, ask.asked)' <=> PN!UniformListsAreSorted(ask.rows, ask.asked)
    BY <2>1
  <2>. QED  BY <2>1, <2>2
<1>. QED  BY <1>2, <1>3, PTL DEF AllSpec
-----------------------------------------------------------------------------
(* All parts together                                                        *)

LEMMA PairsRestOK == ASSUME PairsRest PROVE LoopInv
<1>1. file.ports = {} /\ file.peer = <<>> /\ file.pos = <<>> /\ file.owner = <<>> /\ file.nic = <<>>
      /\ file.nicHost = <<>> /\ out = <<>> /\ todo = {} /\ cleared = 0 /\ failed = FALSE
  BY DEF PairsRest
<1>2. \A S : <<>> \in [{} -> S]
  OBVIOUS
<1>3. <<>> \in Orders({})
  BY <1>2 DEF Orders
<1>4. IsFile(file)
  <2>1. DOMAIN file.nicHost = {}
    BY <1>1
  <2>. QED  BY <1>1, <1>2, <1>3, <2>1 DEF IsFile
<1>5. TypeOK /\ PassedPortsPaired
  BY <1>1, <1>2, <1>4 DEF TypeOK, PassedPortsPaired
<1>6. Counted
  <2>1. {p \in Done : Dangling(file, p)} = {}
    BY <1>1 DEF Done
  <2>. QED  BY <1>1, <2>1, FS_EmptySet DEF Counted
<1>. QED  BY <1>1, <1>5, <1>6 DEF LoopInv, InOrder, Accounted, Kept, Done

LEMMA ScanRestsOK == ASSUME ScanRests PROVE ScanInv
<1>1. /\ alive = {} /\ unfed = <<>> /\ listed = <<>> /\ jobs = "closed" /\ results = "closed"
      /\ returned = TRUE /\ ended = FALSE /\ worker = [w \in Worker |-> SC!Gone]
  BY DEF ScanRests
<1>2. SC!ToSet(<<>>) = {} /\ Once(<<>>) /\ <<>> \in Seq(Ip) /\ DOMAIN <<>> = {}
  BY DEF SC!ToSet, Once
<1>3. \A w \in Worker : worker[w] = SC!Gone /\ ~Busy(w)
  BY <1>1 DEF Busy, SC!Gone
<1>4. ScanTypeOK
  BY <1>1, <1>2 DEF ScanTypeOK, WorkerState
<1>5. OnePlace /\ OnlyTheAlive /\ NoneLost
  BY <1>1, <1>2, <1>3 DEF OnePlace, OnlyTheAlive, NoneLost, SC!Gone
<1>6. Closing
  BY <1>1, <1>2, <1>3 DEF Closing
<1>. QED  BY <1>4, <1>5, <1>6 DEF ScanInv

LEMMA DiscoveryRestsOK == ASSUME DiscoveryRests PROVE DiscoveryInv
<1>1. FromProxmox(cluster)
  BY FS_EmptySet DEF DiscoveryRests, FromProxmox
<1>2. tab = [t \in Tab |-> tab[t]] /\ \A t \in Tab : TabOK(tab[t])
  BY AwayOK DEF DiscoveryRests
<1>. QED  BY <1>1, <1>2 DEF DiscoveryRests, DiscoveryInv

\* A step is one of a part, and the others rest.
LEMMA OneAtATime ==
  ASSUME [AllNext]_allVars
  PROVE  [Next]_vars /\ [MG!Next]_MG!vars /\ [SC!Next]_SC!vars /\ [DC!Next]_DC!vars
BY DEF AllNext, PairsNext, StartNext, ScanNext, DiscoveryNext, allVars, pairVars, startVars, scanVars,
       discoveryVars, vars, MG!vars, SC!vars, DC!vars

(***************************************************************************)
(* Whichever part a behaviour is about, the promises of all of them hold:   *)
(* the loop of pairPortLinks, the starts (Migrate), the scan                *)
(* (NetworkScanner.Scan) and the imports (importNetwork, importProxmox)     *)
(* keep theirs beside one another and at rest.                              *)
(***************************************************************************)
THEOREM PartsKeepTheirPromises ==
  ASSUME IsFiniteSet(PortId)
  PROVE  AllSpec => /\ [](PassedPortsPaired /\ LoopMeetsItsReference /\ StartsAreSafe /\ ListsTheAlive)
                    /\ ImportsAddTheMissing
<1>. DEFINE Inv == LoopInv /\ StartInv /\ ScanInv /\ DiscoveryInv
<1>1. AllInit => Inv
  <2>1. (PairsRest => LoopInv) /\ (Init => LoopInv)
    BY PairsRestOK, LoopInitOK
  <2>2. (ScanRests => ScanInv) /\ (SC!Init => ScanInv)
    BY ScanRestsOK, ScanInitOK
  <2>3. (StartRests => StartInv) /\ (MG!Init => StartInv)
    BY StartInitOK DEF StartRests
  <2>4. (DiscoveryRests => DiscoveryInv) /\ (DC!Init => DiscoveryInv)
    BY DiscoveryRestsOK, DiscoveryInitOK
  <2>. QED  BY <2>1, <2>2, <2>3, <2>4 DEF AllInit, PageInit
<1>2. Inv /\ [AllNext]_allVars => Inv'
  <2>. SUFFICES ASSUME Inv, [AllNext]_allVars PROVE Inv'
    OBVIOUS
  <2>1. [Next]_vars /\ [MG!Next]_MG!vars /\ [SC!Next]_SC!vars /\ [DC!Next]_DC!vars
    BY OneAtATime
  <2>2. LoopInv'
    BY <2>1, LoopInductive
  <2>3. StartInv'
    BY <2>1, StartInductive, ReleasesAssumption
  <2>4. ScanInv'
    BY <2>1, ScanInductive
  <2>5. DiscoveryInv'
    BY <2>1, DiscoveryInvariant
  <2>. QED  BY <2>2, <2>3, <2>4, <2>5
<1>3. Inv => PassedPortsPaired /\ LoopMeetsItsReference /\ StartsAreSafe /\ ListsTheAlive
  BY LoopInvIsEnough, StartInvIsEnough, ScanInvIsEnough DEF LoopInv
<1>4. Inv /\ [AllNext]_allVars => [NotTwice]_DC!vars /\ [OnTheirNodes]_DC!vars /\ [AsPicked]_DC!vars
  BY OneAtATime, DiscoverySteps
<1>. QED  BY <1>1, <1>2, <1>3, <1>4, PTL
     DEF AllSpec, ImportsAddTheMissing, DC!ImportsAddTheMissing, DC!NothingImportedTwice,
         DC!GuestsRunOnTheirNodes, DC!PickedIsImported, NotTwice, OnTheirNodes, AsPicked
=============================================================================
