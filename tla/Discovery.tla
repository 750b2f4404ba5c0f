------------------------------ MODULE Discovery ------------------------------
(***************************************************************************)
(* Manual discovery (internal/web/discovery.go, internal/discovery/         *)
(* propose.go): somebody scans the network or asks Proxmox, reviews what    *)
(* was found, and submits a selection. Others do the same, or edit hosts by *)
(* hand, and the cluster changes, between any two of these steps.           *)
(*                                                                          *)
(* A submit from the network page carries the rows of the page; one from    *)
(* the Proxmox page carries ids, and the cluster is asked again before the  *)
(* transaction. Transactions are serial. The import from Docker goes the    *)
(* way of Proxmox's; its transaction is in EntityStore.                     *)
(***************************************************************************)
EXTENDS Integers, FiniteSets, SequencesExt

CONSTANTS
  Tab,         \* browser tabs
  Address,     \* addresses, as hosts have them: trimmed
  Name,        \* names, as <<the normalized name, a spelling of it>>
  Clusters,    \* what Proxmox may answer: sets of [id, name, node, type]
  MaxHosts, MaxEdits, \* bounds on the hosts, and on edits by hand and changes of the cluster
  Unknown      \* the name of a host that was found by the network scan

VARIABLES
  hosts,    \* table hosts: [id, name, ips, from], from what it was imported
  lastId,   \* AUTOINCREMENT
  edges,    \* table relationships: <<guest's id, node's id>>, "runs on"
  cluster,  \* what Proxmox would answer now
  tab,      \* what each tab shows or its request has read
  edits

vars == <<hosts, lastId, edges, cluster, tab, edits>>

NormalizeName(name) == name[1]

Away == [at |-> "away", rows |-> {}, shown |-> {}, res |-> {}, picked |-> {}, link |-> FALSE, seen |-> {}]
\* What a host is from, when it is not a resource.
ByHand == [id |-> "by hand", name |-> Unknown, node |-> Unknown, type |-> "none"]
ByScan == [ByHand EXCEPT !.id = "scan"]

Init ==
  /\ hosts = {} /\ lastId = 0 /\ edges = {}
  /\ cluster \in Clusters
  /\ tab = [t \in Tab |-> Away]
  /\ edits = 0

TrackedIPs(hs) == UNION {h.ips : h \in hs}
TrackedNames(hs) == {NormalizeName(h.name) : h \in hs}

-----------------------------------------------------------------------------
(* The network                                                               *)

\* The scan answers with the addresses it found; a row that is tracked has no
\* checkbox.
ScanNetwork(t, found) ==
  /\ tab[t].at # "submitted"
  /\ tab' = [tab EXCEPT ![t] = [Away EXCEPT !.at = "network", !.rows = found \ TrackedIPs(hosts), !.seen = hosts]]
  /\ UNCHANGED <<hosts, lastId, edges, cluster, edits>>

HostsFrom(ips) ==
  LET order == SetToSeq(ips) IN
  {[id |-> lastId + i, name |-> Unknown, ips |-> {order[i]}, from |-> ByScan] : i \in DOMAIN order}

ImportNetwork(t, picked) ==
  LET new == picked \ TrackedIPs(hosts) IN
  /\ tab[t].at = "network" /\ picked \subseteq tab[t].rows
  /\ Cardinality(hosts) + Cardinality(new) <= MaxHosts
  /\ hosts' = hosts \cup HostsFrom(new)
  /\ lastId' = lastId + Cardinality(new)
  /\ tab' = [tab EXCEPT ![t] = Away]
  /\ UNCHANGED <<edges, cluster, edits>>

-----------------------------------------------------------------------------
(* Proxmox                                                                   *)

\* The page shows what Proxmox has; the rows that are not tracked can be picked.
ScanProxmox(t) ==
  LET new == {r \in cluster : NormalizeName(r.name) \notin TrackedNames(hosts)} IN
  /\ tab[t].at # "submitted"
  /\ tab' = [tab EXCEPT ![t] =
       [Away EXCEPT !.at = "proxmox", !.seen = hosts, !.shown = new, !.rows = {r.id : r \in new}]]
  /\ UNCHANGED <<hosts, lastId, edges, cluster, edits>>

\* The submit asks the cluster again.
Requery(t, picked, link) ==
  /\ tab[t].at = "proxmox" /\ picked \subseteq tab[t].rows
  /\ tab' = [tab EXCEPT ![t].at = "submitted", ![t].res = cluster, ![t].picked = picked, ![t].link = link]
  /\ UNCHANGED <<hosts, lastId, edges, cluster, edits>>

IsGuest(r) == r.type \in {"qemu", "lxc"}

\* Hosts for the proposals that are picked and not tracked, against a list of
\* the hosts.
Created(t, list) ==
  LET new == {r \in tab[t].res : r.id \in tab[t].picked /\ NormalizeName(r.name) \notin TrackedNames(list)}
      order == SetToSeq(new)
  IN {[id |-> lastId + i, name |-> order[i].name, ips |-> {}, from |-> order[i]] : i \in DOMAIN order}

\* The hosts that may stand for the node of a guest: nodes that came with it,
\* or else those that were there. Of several the last of the list is taken,
\* and lists are in no order among equals.
Nodes(guest, created) ==
  LET named == {h \in hosts \cup created :
                  /\ NormalizeName(h.name) = NormalizeName(guest.from.node)
                  /\ h \in hosts \/ ~IsGuest(h.from)}
  IN IF named \cap created # {} THEN named \cap created ELSE named

Commit(t, created) ==
  LET guests == {g \in created : tab[t].link /\ IsGuest(g.from) /\ Nodes(g, created) # {}} IN
  /\ Cardinality(hosts) + Cardinality(created) <= MaxHosts
  /\ hosts' = hosts \cup created
  /\ lastId' = lastId + Cardinality(created)
  /\ \E node \in [guests -> hosts \cup created] :
       /\ \A g \in guests : node[g] \in Nodes(g, created)
       /\ edges' = edges \cup {<<g.id, node[g].id>> : g \in guests}
  /\ tab' = [tab EXCEPT ![t] = Away]
  /\ UNCHANGED <<cluster, edits>>

\* Faulty: the hosts are listed before the transaction.
ImportProxmoxAsReviewed(t) ==
  /\ tab[t].at = "submitted"
  /\ Commit(t, Created(t, tab[t].seen))

\* The hosts are listed inside the transaction, as the edges are written.
ImportProxmox(t) ==
  /\ tab[t].at = "submitted"
  /\ Commit(t, Created(t, hosts))

\* Proxmox does not answer, or a statement fails: nothing is written.
Fail(t) ==
  /\ tab[t].at = "submitted"
  /\ tab' = [tab EXCEPT ![t] = [Away EXCEPT !.at = "error"]]
  /\ UNCHANGED <<hosts, lastId, edges, cluster, edits>>

-----------------------------------------------------------------------------
(* Meanwhile                                                                 *)

CreateByHand(name, ips) ==
  /\ edits < MaxEdits /\ Cardinality(hosts) < MaxHosts
  /\ hosts' = hosts \cup {[id |-> lastId + 1, name |-> name, ips |-> ips, from |-> ByHand]}
  /\ lastId' = lastId + 1
  /\ edits' = edits + 1
  /\ UNCHANGED <<edges, cluster, tab>>

\* A host goes with its relationships.
Delete(h) ==
  /\ edits < MaxEdits /\ h \in hosts
  /\ hosts' = hosts \ {h}
  /\ edges' = {e \in edges : h.id \notin {e[1], e[2]}}
  /\ edits' = edits + 1
  /\ UNCHANGED <<lastId, cluster, tab>>

ClusterChanges(c) ==
  /\ edits < MaxEdits /\ c # cluster
  /\ cluster' = c
  /\ edits' = edits + 1
  /\ UNCHANGED <<hosts, lastId, edges, tab>>

Next ==
  \/ \E t \in Tab :
       \/ \E found \in SUBSET Address : ScanNetwork(t, found)
       \/ \E picked \in SUBSET tab[t].rows :
            \/ ImportNetwork(t, picked)
            \/ \E link \in BOOLEAN : Requery(t, picked, link)
       \/ ScanProxmox(t)
       \/ ImportProxmox(t)
       \/ Fail(t)
  \/ \E name \in Name, ips \in SUBSET Address : CreateByHand(name, ips)
  \/ \E h \in hosts : Delete(h)
  \/ \E c \in Clusters : ClusterChanges(c)

Spec == Init /\ [][Next]_vars
-----------------------------------------------------------------------------
New == hosts' \ hosts

(***************************************************************************)
(* Whatever others have imported or entered since the review, a submit adds *)
(* no host whose address, or whose Proxmox name, some host has by then      *)
(* ("listing outside let a concurrent submit or a double-click import the   *)
(* same guest twice"), and no address twice.                                *)
(***************************************************************************)
NothingImportedTwice ==
  [][\A h \in New :
       /\ h.from.id = "scan" => \A g \in hosts' \ {h} : g.ips \cap h.ips = {}
       /\ h.from.id \notin {"scan", "by hand"} =>
            NormalizeName(h.name) \notin TrackedNames(hosts)]_vars

(***************************************************************************)
(* Every new edge leads from a guest that came with it to a host that has   *)
(* the name of the guest's own node, also when guests of one name live on   *)
(* several nodes, and never to the guest itself; and it leads to the node's *)
(* own record when that came with the guest.                                *)
(***************************************************************************)
GuestsRunOnTheirNodes ==
  [][\A e \in edges' \ edges :
       \E g \in New, n \in hosts' :
         /\ e = <<g.id, n.id>> /\ g # n
         /\ NormalizeName(n.name) = NormalizeName(g.from.node)
         /\ (\E m \in New : ~IsGuest(m.from) /\ NormalizeName(m.name) = NormalizeName(g.from.node)) => n \in New]_vars

(***************************************************************************)
(* What a review shows as new is imported when it is picked and submitted   *)
(* before any host changes: all of it that the cluster still has under that *)
(* name, and never what was not picked; and with it an edge for every guest *)
(* whose node is known.                                                     *)
(***************************************************************************)
PickedIsImported ==
  [][\A t \in Tab : tab[t].at = "submitted" /\ tab'[t].at = "away" =>
       LET chosen == {r \in tab[t].res : r.id \in tab[t].picked}
           asShown == {r \in chosen : \E s \in tab[t].shown :
                         s.id = r.id /\ NormalizeName(s.name) = NormalizeName(r.name)}
           imported == {h.from : h \in New}
       IN /\ imported \subseteq chosen
          /\ hosts = tab[t].seen => asShown \subseteq imported
          /\ tab[t].link =>
               \A g \in New : IsGuest(g.from) /\ NormalizeName(g.from.node) \in TrackedNames(hosts) =>
                 \E n \in hosts' : <<g.id, n.id>> \in edges']_vars

(***************************************************************************)
(* An import adds what was picked and is missing, no more and no less, and   *)
(* links it to the right node.                                               *)
(***************************************************************************)
ImportsAddTheMissing == NothingImportedTwice /\ GuestsRunOnTheirNodes /\ PickedIsImported
=============================================================================
