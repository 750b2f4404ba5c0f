------------------------------ MODULE Algorithms ------------------------------
(***************************************************************************)
(* The parts of the program that can be looked at one by one. A behaviour   *)
(* is about one topic. For pairPortLinks, Migrate, a subnet scan and manual *)
(* discovery it is a behaviour of that module; for a chain of middlewares,  *)
(* a page or a report it is a single state, ask: what it is asked. The      *)
(* variables of the other topics rest.                                      *)
(***************************************************************************)
EXTENDS PairPortLinks, Integers, SequencesExt

CONSTANTS
  Starter, Releases, MaxStarts,                              \* Migrations
  Ips, Worker,                                               \* Scan
  Tab, Address, Name, Clusters, MaxHosts, MaxEdits, Unknown, \* Discovery
  Token,                                                     \* Gates
  Width, Enumerable, Countable, Scannable,                   \* Ipam
  Pages  \* what each page, by its topic, is asked

VARIABLES
  topic, ask,
  schema, recorded, run, starts,                                \* Migrations
  alive, unfed, jobs, worker, results, listed, returned, ended, \* Scan
  hosts, lastId, edges, cluster, tab, edits                     \* Discovery

pairVars == <<file, out, todo, cleared, failed>>
startVars == <<schema, recorded, run, starts>>
scanVars == <<alive, unfed, jobs, worker, results, listed, returned, ended>>
discoveryVars == <<hosts, lastId, edges, cluster, tab, edits>>
allVars == <<topic, ask, pairVars, startVars, scanVars, discoveryVars>>

GT == INSTANCE Gates WITH Nobody <- None, Stranger <- "stranger"
MG == INSTANCE Migrations
SC == INSTANCE Scan WITH NoIp <- None
DC == INSTANCE Discovery
IP == INSTANCE Ipam WITH NoAddress <- None
PN == INSTANCE Panels

\* ExpandCIDR counts the addresses up.
ASSUME IpsAssumption ==
  Ips \in Seq(Nat) /\ \A i, j \in DOMAIN Ips : i < j => Ips[i] < Ips[j]

\* Concurrency is 64 when it is not set (NetworkScanner.Scan).
ASSUME WorkerAssumption == Worker # {}

\* The number a migration's file name starts with.
ASSUME ReleasesAssumption == Releases \in Nat

\* What a scan finds and what Proxmox answers is finite, and the ids of its
\* resources ("qemu/100") are not those that stand for other origins of a host.
ASSUME AddressAssumption == IsFiniteSet(Address)
ASSUME ClustersAssumption ==
  \A c \in Clusters : IsFiniteSet(c) /\ \A r \in c : r.id \notin {"scan", "by hand"}

ASSUME NobodyAssumption == None \notin GT!Role \cup GT!Scope \cup Token

ASSUME PagesAssumption ==
  DOMAIN Pages \cap {"gates", "pairs", "start", "scan", "discovery"} = {}

\* What the pages are asked is what can be in the tables.
ASSUME QuestionsAssumption ==
  \A t \in DOMAIN Pages : \A q \in Pages[t] :
    /\ t = "ipam" => IP!Tables(q.nets, q.hosts, q.reservations)
    /\ t = "rack" => q.units \in Nat \ {0} /\ q.occs \in PN!Occupants
    /\ t = "impact" => PN!IsList(q.rels)
    /\ t = "list" => q.rows \in PN!Rows

\* 16 bits, 31 and 20.
ASSUME BitsAssumption ==
  {Width, Enumerable, Countable, Scannable} \subseteq Nat /\ Enumerable < Countable
-----------------------------------------------------------------------------
\* How the variables rest.
PairsRest ==
  /\ file = [ports |-> {}, owner |-> <<>>, nic |-> <<>>, peer |-> <<>>, pos |-> <<>>, nicHost |-> <<>>]
  /\ out = <<>> /\ todo = {} /\ cleared = 0 /\ failed = FALSE
StartRests == MG!Init
ScanRests ==
  /\ alive = {} /\ unfed = <<>> /\ jobs = "closed" /\ worker = [w \in Worker |-> SC!Gone]
  /\ results = "closed" /\ listed = <<>> /\ returned = TRUE /\ ended = FALSE
DiscoveryRests ==
  /\ hosts = {} /\ lastId = 0 /\ edges = {} /\ cluster = {}
  /\ tab = [t \in Tab |-> DC!Away] /\ edits = 0

PageInit ==
  /\ topic \in DOMAIN Pages /\ ask \in Pages[topic]
  /\ PairsRest /\ StartRests /\ ScanRests /\ DiscoveryRests

AllInit ==
  \/ PageInit
  \/ topic = "gates" /\ ask \in GT!Request /\ PairsRest /\ StartRests /\ ScanRests /\ DiscoveryRests
  \/ topic = "pairs" /\ ask = None /\ Init /\ StartRests /\ ScanRests /\ DiscoveryRests
  \/ topic = "start" /\ ask = None /\ PairsRest /\ MG!Init /\ ScanRests /\ DiscoveryRests
  \/ topic = "scan" /\ ask = None /\ PairsRest /\ StartRests /\ SC!Init /\ DiscoveryRests
  \/ topic = "discovery" /\ ask = None /\ PairsRest /\ StartRests /\ ScanRests /\ DC!Init

PairsNext == topic = "pairs" /\ Next /\ UNCHANGED <<topic, ask, startVars, scanVars, discoveryVars>>
StartNext == topic = "start" /\ MG!Next /\ UNCHANGED <<topic, ask, pairVars, scanVars, discoveryVars>>
ScanNext == topic = "scan" /\ SC!Next /\ UNCHANGED <<topic, ask, pairVars, startVars, discoveryVars>>
DiscoveryNext == topic = "discovery" /\ DC!Next /\ UNCHANGED <<topic, ask, pairVars, startVars, scanVars>>

AllNext == PairsNext \/ StartNext \/ ScanNext \/ DiscoveryNext

\* A scan's goroutines go on.
AllSpec == AllInit /\ [][AllNext]_allVars /\ WF_scanVars(SC!Work)
-----------------------------------------------------------------------------
\* The middlewares let through what the documents grant, and a lookup that
\* fails is an error and never a missing credential (Gates).
GatesHold == topic = "gates" => GT!GatesHold(ask)

\* Every view of the address space follows one set of rules (Ipam).
AddressesAddUp == topic = "ipam" => IP!AddressesAddUp(ask.nets, ask.hosts, ask.reservations)

\* Boxes of an elevation that hide one another are flagged (Panels).
NoHiddenOverlap == topic = "rack" => PN!NoHiddenOverlap(ask.units, ask.occs)

\* The impact walk finds all that depends on the start, over cycles too (Panels).
ImpactIsComplete == topic = "impact" => PN!ImpactIsComplete(ask.rels, ask.start)

\* Records of one machine name each other (Panels).
DuplicatesFindEachOther == topic = "duplicates" => PN!DuplicatesFindEachOther(ask)

\* Lists show what the filters accept, and sort uniform columns (Panels).
UniformListsAreSorted == topic = "list" => PN!UniformListsAreSorted(ask.rows, ask.asked)

\* The four panels show all they should: no box hidden unflagged, no dependent
\* or duplicate missed, no row dropped or out of order (Panels).
PanelsShowAll ==
  NoHiddenOverlap /\ ImpactIsComplete /\ DuplicatesFindEachOther /\ UniformListsAreSorted

\* Starts that die leave a database that its records describe and a backup of
\* what it was (Migrations).
StartsAreSafe == MG!StartsAreSafe

\* A scan lists the hosts that answer (Scan).
ListsTheAlive == SC!ListsTheAlive

\* A scan returns (Scan).
ScanReturns == SC!ScanReturns

\* An import adds what was picked and is missing, linked to its node (Discovery).
ImportsAddTheMissing == DC!ImportsAddTheMissing
=============================================================================
