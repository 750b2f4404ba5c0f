----------------------------- MODULE MCAlgorithms -----------------------------
(***************************************************************************)
(* Small values for the parts of Algorithms, and what the pages and reports *)
(* are asked.                                                               *)
(***************************************************************************)
EXTENDS MCPairPortLinks, Algorithms

CONSTANTS p1, p2, x1, x2, b1, b2, token1, token2

MCStarter == {p1, p2}
MCIps == <<1, 2, 3>>
MCWorker == {x1, x2}
MCToken == {token1, token2}

NodeN == [id |-> "node/n", name |-> <<"n", "n">>, node |-> <<"n", "n">>, type |-> "node"]
GuestOnN == [id |-> "qemu/1", name |-> <<"a", "a">>, node |-> <<"n", "n">>, type |-> "qemu"]
Renamed == [GuestOnN EXCEPT !.name = <<"n", "N">>]
GuestOnM == [id |-> "lxc/2", name |-> <<"a", "A">>, node |-> <<"m", "m">>, type |-> "lxc"]

MCTab == {b1, b2}
MCAddress == {"10.0.0.1"}
MCName == {<<"n", "N">>, <<"a", "a">>}
MCClusters == {{NodeN, GuestOnN, GuestOnM}, {GuestOnN}, {Renamed}}
MCUnknown == <<"?", "?">>
-----------------------------------------------------------------------------
(* What is asked                                                             *)

UpTo(S, n) == UNION {[1 .. m -> S] : m \in 0 .. n}

Nets ==
  LET NetRows(id, bases, lengths, gateways) ==
        {n \in [id : {id}, v4 : BOOLEAN, base : bases, ones : lengths, gateway : gateways, padded : BOOLEAN] :
           n.padded => n.gateway = 1}
      Net(id) == NetRows(id, {0, 4}, {2}, {None, 1, 2}) \cup NetRows(id, {0}, {0, 1, 3}, {None, 1})
  IN {<<n>> : n \in Net(1)}
     \cup {nets \in Net(1) \X {x \in Net(2) : x.gateway = None} : nets[1].v4 = nets[2].v4}

IpamQuestions ==
  [nets : Nets,
   hosts : {<<a, b>> : a \in UpTo({1, 2, 5}, 2), b \in {<<>>, <<1>>, <<9>>}},
   reservations : {{}} \cup {{[network |-> 1, start |-> r[1], end |-> r[2], padded |-> FALSE]} :
                               r \in {<<0, 1>>, <<2, 5>>, <<0, 15>>, <<3, 3>>}}
                  \cup {{[network |-> 1, start |-> 2, end |-> 5, padded |-> TRUE]}}]

RackQuestions == [units : 1 .. 3, occs : UpTo([pos : 1 .. 4, height : 1 .. 3], 3)]

ImpactQuestions ==
  [start : {1}, rels : UpTo({1, 2, 3} \X {1, 2, 3} \X {"dependency", "other"}, 3)]

DuplicateQuestions == UpTo([name : {"a", "b"}, ips : SUBSET {1, 2}, bound : BOOLEAN], 3)

\* The texts "10", "1x", "9" and "9.0", in their order.
Cells == {[number |-> 10, text |-> 1], [number |-> None, text |-> 2],
          [number |-> 9, text |-> 3], [number |-> 9, text |-> 4]}
Rows == {r \in [cell : Cells, matches : BOOLEAN, tagged : BOOLEAN, field : BOOLEAN] :
           <<r.matches, r.tagged, r.field>> \in {<<TRUE, TRUE, TRUE>>, <<FALSE, TRUE, TRUE>>, <<TRUE, FALSE, FALSE>>}}
ListQuestions ==
  [rows : UpTo(Rows, 3),
   asked : {a \in [query : BOOLEAN, tag : BOOLEAN, field : BOOLEAN, sort : BOOLEAN, dir : {"asc", "desc"}] :
              a.sort \/ a.dir = "asc"}]

MCPages ==
  [t \in {"ipam", "rack", "impact", "duplicates", "list"} |->
     CASE t = "ipam" -> IpamQuestions
       [] t = "rack" -> RackQuestions
       [] t = "impact" -> ImpactQuestions
       [] t = "duplicates" -> DuplicateQuestions
       [] t = "list" -> ListQuestions]

\* The lists alone.
ListsSpec == topic = "list" /\ PageInit /\ [][FALSE]_allVars
-----------------------------------------------------------------------------
\* Numbers of a sorted column are in order, whatever else is in it (Panels).
NumbersInOrder == topic = "list" => PN!NumbersInOrder(ask.rows, ask.asked)
=============================================================================
