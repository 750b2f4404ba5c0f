--------------------------------- MODULE Ipam ---------------------------------
(***************************************************************************)
(* IP address management (internal/domain/ipam.go, ipam_conflicts.go,       *)
(* reservation.go): which network an address of a host counts for, how full *)
(* a network is, which address is handed out next, and the inconsistencies  *)
(* the health report lists.                                                 *)
(*                                                                          *)
(* Addresses are numbers of Width bits, all of one family: the networks'    *)
(* rows say of which. A network is its base, aligned, and the length of its *)
(* prefix. The order of the lists is left out, but for the order of the      *)
(* networks, which breaks ties.                                              *)
(*                                                                           *)
(* The rows have passed Validate, which trims a gateway and the ends of a    *)
(* reservation before it parses them. What is stored is not trimmed when it  *)
(* comes by the JSON API or an import, and the code below parses it as it is *)
(* (reservation.go:26-30, network.go:30; ipam.go:182, 260-264): a padded row *)
(* is valid, and yet its address is none.                                    *)
(***************************************************************************)
EXTENDS Integers, Sequences, FiniteSets, FiniteSetsExt

CONSTANTS
  Width,       \* 32, or 128
  Enumerable,  \* maxEnumerableHostBits, 16
  Countable,   \* the host bits from which a network is unbounded, 31
  Scannable,   \* the host bits up to which a network is scanned, 20
  NoAddress    \* an empty gateway, or no next address

\* 1 << b
Size[b \in 0 .. Width] == IF b = 0 THEN 1 ELSE 2 * Size[b - 1]

HostBits(n) == Width - n.ones
Last(n) == n.base + Size[HostBits(n)] - 1
Addresses(n) == n.base .. Last(n)

\* What is in the tables once Validate has let it in.
Tables(nets, hosts, reservations) ==
  /\ nets \in Seq([id : Nat, v4 : BOOLEAN, base : Nat, ones : 0 .. Width,
                   gateway : Nat \cup {NoAddress}, padded : BOOLEAN])
  /\ \A i \in DOMAIN nets : nets[i].base % Size[HostBits(nets[i])] = 0
  /\ \A i, j \in DOMAIN nets : nets[i].id = nets[j].id => i = j
  /\ hosts \in Seq(Seq(Nat))
  /\ reservations \subseteq [network : Nat, start : Nat, end : Nat, padded : BOOLEAN]
  /\ \A r \in reservations : r.start <= r.end

\* net.ParseIP of what is stored: nothing if there are spaces around it. The ends
\* of a range are used if both parse.
Gateway(n) == IF n.padded THEN NoAddress ELSE n.gateway
Parsed(ranges) == {r \in ranges : ~r.padded}

\* A host's addresses are a list: one of them may be there twice.
Claims(hosts) == UNION {{[ip |-> hosts[h][i], host |-> h, at |-> i] : i \in DOMAIN hosts[h]} : h \in DOMAIN hosts}

-----------------------------------------------------------------------------
(* attribute                                                                 *)

\* The index of the network with the longest prefix, the first of several; or 0.
Best(nets, a) ==
  LET containing == {i \in DOMAIN nets : a \in Addresses(nets[i])}
      longest == {i \in containing : \A j \in containing : nets[j].ones <= nets[i].ones}
  IN IF containing = {} THEN 0 ELSE Min(longest)

\* The claims of each network, and under 0 those of none. All of them, or only
\* those of one network.
Attribute(nets, hosts, only) ==
  [i \in 0 .. Len(nets) |->
     IF only \in {0, i} THEN {c \in Claims(hosts) : Best(nets, c.ip) = i} ELSE {}]

-----------------------------------------------------------------------------
(* buildUsage                                                                *)

ReservesEnds(n) == n.v4 /\ HostBits(n) >= 2

\* The addresses the walk of nextFree looks at.
Usable(n) == IF ReservesEnds(n) THEN Addresses(n) \ {n.base, Last(n)} ELSE Addresses(n)
TotalUsable(n) == IF ReservesEnds(n) THEN Size[HostBits(n)] - 2 ELSE Size[HostBits(n)]

Unbounded(n) == HostBits(n) >= Countable

\* Faulty: the walk starts where the range does.
WalkedFromStart(n, r) ==
  {r.start + i : i \in 0 .. Min({Size[HostBits(n)], r.end - r.start})} \cap Addresses(n)

\* The walk over one range: from the network's base if the range starts below,
\* and no more steps than the network has addresses.
Walked(n, r) ==
  LET first == Max({r.start, n.base}) IN
  IF first > r.end THEN {}
  ELSE {first + i : i \in 0 .. Min({Size[HostBits(n)], r.end - first})} \cap Addresses(n)

ReservedAddrs(n, ranges) ==
  IF HostBits(n) > Enumerable THEN {} ELSE UNION {Walked(n, r) : r \in Parsed(ranges)}

Taken(n, ips, ranges) ==
  ips \cup ReservedAddrs(n, ranges) \cup ({Gateway(n)} \cap Addresses(n))

NextFree(n, taken) ==
  IF HostBits(n) > Enumerable \/ Usable(n) \subseteq taken THEN NoAddress
  ELSE Min(Usable(n) \ taken)

BuildUsage(n, used, ranges) ==
  LET ips == {c.ip : c \in used}
      reserved == ReservedAddrs(n, ranges) \ ips
      shared == {ip \in ips : Cardinality({c \in used : c.ip = ip}) >= 2}
      left == TotalUsable(n) - Cardinality(ips) - Cardinality(reserved)
  IN [used          |-> ips,
      conflicts     |-> shared,
      totalUsable   |-> IF Unbounded(n) THEN 0 ELSE TotalUsable(n),
      reservedCount |-> IF Unbounded(n) THEN 0 ELSE Cardinality(reserved),
      freeCount     |-> IF Unbounded(n) \/ left < 0 THEN 0 ELSE left,
      nextFree      |-> IF Unbounded(n) THEN NoAddress ELSE NextFree(n, Taken(n, ips, ranges))]

\* ExpandCIDR: the addresses a scan of the network asks.
ExpandCIDR(n, maxHosts) ==
  LET all == Addresses(n)
      ends == IF n.v4 /\ HostBits(n) >= 2 THEN {Min(all), Max(all)} ELSE {}
  IN IF HostBits(n) > Scannable \/ Cardinality(all \ ends) > maxHosts THEN {} ELSE all \ ends

For(n, reservations) == {r \in reservations : r.network = n.id}

BuildIPAM(nets, hosts, reservations) ==
  LET claims == Attribute(nets, hosts, 0) IN
  [networks   |-> [i \in DOMAIN nets |-> BuildUsage(nets[i], claims[i], For(nets[i], reservations))],
   unassigned |-> claims[0]]

\* The page of the i-th network.
BuildNetworkUsage(i, nets, hosts, reservations) ==
  BuildUsage(nets[i], Attribute(nets, hosts, i)[i], For(nets[i], reservations))

-----------------------------------------------------------------------------
(* BuildIPAMConflicts                                                        *)

\* An address and the hosts that claim it; a host counts once.
DuplicateIPs(hosts) ==
  LET by(ip) == {c.host : c \in {d \in Claims(hosts) : d.ip = ip}}
  IN {[ip |-> c.ip, hosts |-> by(c.ip)] : c \in {d \in Claims(hosts) : Cardinality(by(d.ip)) >= 2}}

OutsideNetworks(nets, hosts) == Attribute(nets, hosts, 0)[0]

SameBlock(m, n) == m.ones = n.ones /\ m.base = n.base

OverlappingNetworks(nets) ==
  {p \in (DOMAIN nets) \X (DOMAIN nets) : p[1] < p[2] /\ SameBlock(nets[p[1]], nets[p[2]])}

\* The page of the i-th network.
NetworkOverlaps(i, nets) == {j \in DOMAIN nets : nets[j].id # nets[i].id /\ SameBlock(nets[i], nets[j])}
-----------------------------------------------------------------------------

\* What is there to hand out, by definition, of the reservations that parse.
Covered(n, reservations) ==
  {a \in Addresses(n) : \E r \in Parsed(For(n, reservations)) : r.start <= a /\ a <= r.end}
ReallyFree(n, used, reservations) == Usable(n) \ (used \cup Covered(n, reservations))

(***************************************************************************)
(* The address handed out next is usable and neither claimed by a host of   *)
(* the network, nor reserved, nor the gateway; it is the lowest such; and   *)
(* one is handed out whenever the network is small enough to be walked and  *)
(* more than the gateway is counted free. The count of free addresses is    *)
(* too high by the gateway at most, it never counts a reserved address,     *)
(* wherever the ends of its range lie, and the total is that of the         *)
(* addresses walked (buildUsage, nextFree, reservedAddrs).                  *)
(*                                                                          *)
(* All of this is of the reservations and gateways that parse. One that is  *)
(* stored with spaces around it is valid, and reserves nothing: its         *)
(* addresses are counted free and handed out, although                      *)
(* docs/inventory-model.md:79-82 says that reserved addresses are skipped   *)
(* and subtracted.                                                          *)
(***************************************************************************)
NextIsFree(nets, hosts, reservations) ==
  \A i \in DOMAIN nets :
    LET n == nets[i]
        u == BuildIPAM(nets, hosts, reservations).networks[i]
        free == ReallyFree(n, u.used, reservations) \ {Gateway(n)}
    IN HostBits(n) <= Enumerable =>
         /\ u.nextFree = (IF free = {} THEN NoAddress ELSE Min(free))
         /\ u.totalUsable = Cardinality(Usable(n))
         /\ u.freeCount <= Cardinality(free) + 1
         /\ u.reservedCount = Cardinality(Covered(n, reservations) \ u.used)

(***************************************************************************)
(* The page of one network, which does less work, shows what the report of  *)
(* all networks shows for it; the addresses listed outside every network    *)
(* are those of the report; an overlap is on the pages of both networks;    *)
(* and a scan asks the addresses that the page counts, in another package   *)
(* (BuildNetworkUsage: "matches BuildIPAM exactly"; ExpandCIDR).            *)
(***************************************************************************)
ViewsAgree(nets, hosts, reservations) ==
  /\ \A i \in DOMAIN nets :
       /\ BuildNetworkUsage(i, nets, hosts, reservations) = BuildIPAM(nets, hosts, reservations).networks[i]
       /\ HostBits(nets[i]) <= Scannable =>
            ExpandCIDR(nets[i], Cardinality(Addresses(nets[i]))) = Usable(nets[i])
       /\ \A j \in NetworkOverlaps(i, nets) :
            <<Min({i, j}), Max({i, j})>> \in OverlappingNetworks(nets)
  /\ \A p \in OverlappingNetworks(nets) :
       p[2] \in NetworkOverlaps(p[1], nets) /\ p[1] \in NetworkOverlaps(p[2], nets)
  /\ OutsideNetworks(nets, hosts) = BuildIPAM(nets, hosts, reservations).unassigned

(***************************************************************************)
(* Every claim counts for one network, the most specific one that has it,   *)
(* or for none; and an address that two hosts claim is a conflict on the    *)
(* page of its network, whichever of nested networks that is                *)
(* (attribute, duplicateIPs).                                               *)
(***************************************************************************)
ClaimsCountOnce(nets, hosts) ==
  LET claims == Attribute(nets, hosts, 0) IN
  /\ \A c \in Claims(hosts) : \E i \in 0 .. Len(nets) :
       /\ \A k \in 0 .. Len(nets) : c \in claims[k] <=> k = i
       /\ i = 0 <=> \A k \in DOMAIN nets : c.ip \notin Addresses(nets[k])
       /\ i # 0 => c.ip \in Addresses(nets[i])
  /\ \A i \in DOMAIN nets, k \in DOMAIN nets :
       \A c \in claims[i] : c.ip \in Addresses(nets[k]) => nets[k].ones <= nets[i].ones
  /\ \A d \in DuplicateIPs(hosts) :
       LET i == Best(nets, d.ip) IN
       /\ d.hosts = {c.host : c \in {e \in claims[i] : e.ip = d.ip}}
       /\ i # 0 => d.ip \in BuildNetworkUsage(i, nets, hosts, {}).conflicts

(***************************************************************************)
(* The address space adds up: free, reserved, claimed and outside addresses  *)
(* are each what one set of rules says, in every view and for nested, tiny   *)
(* and huge networks; "reserved" is what parses (NextIsFree).                *)
(***************************************************************************)
AddressesAddUp(nets, hosts, reservations) ==
  /\ NextIsFree(nets, hosts, reservations)
  /\ ViewsAgree(nets, hosts, reservations)
  /\ ClaimsCountOnce(nets, hosts)
=============================================================================
