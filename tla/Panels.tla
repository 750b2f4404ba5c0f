-------------------------------- MODULE Panels --------------------------------
(***************************************************************************)
(* What pages work out from the tables when they are shown: the elevation   *)
(* of a rack (elevation.go), what depends on an entity (store/impact.go),   *)
(* the other records of a machine (agent_section.go), and a filtered and    *)
(* sorted list (list_filter.go). Labels and links are left out.             *)
(***************************************************************************)
EXTENDS Integers, Sequences, FiniteSets, SequencesExt, FiniteSetsExt

CONSTANT None  \* not a number, or no reason

-----------------------------------------------------------------------------
(* buildElevationSection. An occupant is its lowest unit and its height, both *)
(* 1 or more once Validate has passed; a rack counts its units from below,    *)
(* its page's grid from above.                                                *)

Occupants == Seq([pos : Nat \ {0}, height : Nat \ {0}])

UnitsOf(o) == o.pos .. o.pos + o.height - 1

\* Faulty: an occupant claims its lowest unit only.
ClaimsLowest(occs, u) == Cardinality({i \in DOMAIN occs : occs[i].pos = u})

Claims(occs, u) == Cardinality({i \in DOMAIN occs : u \in UnitsOf(occs[i])})

Elevation(units, occs) ==
  [i \in DOMAIN occs |->
     LET o == occs[i]
         top == o.pos + o.height - 1
         drawn == Min({top, units})
     IN [row         |-> units - drawn + 1,
         span        |-> Max({drawn - o.pos + 1, 1}),
         outOfBounds |-> top > units,
         overlap     |-> \E u \in UnitsOf(o) \cap (1 .. units) : Claims(occs, u) > 1]]

RowsOf(box) == box.row .. box.row + box.span - 1

(***************************************************************************)
(* Every box is drawn on the grid of the rack; one that is not flagged out  *)
(* of bounds covers just the rows of its own units; and of two boxes that   *)
(* share a row both are flagged as overlapping, or one as out of bounds. So *)
(* no two boxes hide one another without a word.                            *)
(***************************************************************************)
NoHiddenOverlap(units, occs) ==
  LET boxes == Elevation(units, occs) IN
  /\ \A i \in DOMAIN boxes :
       /\ RowsOf(boxes[i]) \subseteq 1 .. units
       /\ ~boxes[i].outOfBounds => RowsOf(boxes[i]) = {units - u + 1 : u \in UnitsOf(occs[i])}
  /\ \A i \in DOMAIN boxes, j \in DOMAIN boxes :
       i # j /\ RowsOf(boxes[i]) \cap RowsOf(boxes[j]) # {} =>
         \/ boxes[i].overlap /\ boxes[j].overlap
         \/ boxes[i].outOfBounds \/ boxes[j].outOfBounds

-----------------------------------------------------------------------------
(* Impact. A relationship is a sequence <<from, to, kind>>: from depends on to *)
(* if the kind is a dependency. The order of what depends on one entity is     *)
(* left out.                                                                   *)

IsList(rels) == rels \in Seq(ToSet(rels))

DependentsOf(rels, e) ==
  {rels[i][1] : i \in {j \in DOMAIN rels : rels[j][3] = "dependency" /\ rels[j][2] = e}}

\* One turn of the loop: the head of the queue, and what depends on it and has
\* not been visited.
Turn(rels, w) ==
  LET visited == {w.start} \cup ToSet(w.result)
      new == SetToSeq(DependentsOf(rels, Head(w.queue)) \ visited)
  IN IF w.queue = <<>> THEN w
     ELSE [start |-> w.start, queue |-> Tail(w.queue) \o new, result |-> w.result \o new]

\* Nothing is queued twice, and each relationship queues one entity at most.
Impact(rels, start) ==
  LET walk[n \in 0 .. Len(rels) + 1] ==
        IF n = 0 THEN [start |-> start, queue |-> <<start>>, result |-> <<>>]
        ELSE Turn(rels, walk[n - 1])
  IN walk[Len(rels) + 1]

\* By definition: in every set that has the start and, with an entity, all that
\* depends on it.
Affected(rels, start) ==
  LET all == {start} \cup {rels[i][1] : i \in DOMAIN rels} IN
  {e \in all : \A S \in SUBSET all : start \in S /\ (\A d \in S : DependentsOf(rels, d) \subseteq S) => e \in S} \ {start}

(***************************************************************************)
(* The walk ends, with exactly the entities that depend on the start over   *)
(* any number of dependencies, each once and never the start itself,        *)
(* whatever cycles there are ("breadth-first and cycle-safe").              *)
(***************************************************************************)
ImpactIsComplete(rels, start) ==
  LET w == Impact(rels, start) IN
  /\ w.queue = <<>>
  /\ ToSet(w.result) = Affected(rels, start)
  /\ IsInjective(w.result)

-----------------------------------------------------------------------------
(* duplicatesOf. A host is [name, ips, bound]: its normalized name, its       *)
(* addresses, and whether an agent is bound to it.                            *)

DuplicatesOf(h, hosts) ==
  {[of |-> o, reason |-> IF hosts[o].name = hosts[h].name THEN "name" ELSE "address"] :
     o \in {p \in DOMAIN hosts \ {h} :
              /\ hosts[h].bound \/ hosts[p].bound
              /\ hosts[p].name = hosts[h].name \/ hosts[p].ips \cap hosts[h].ips # {}}}

(***************************************************************************)
(* Two records of one machine name each other on their pages, with the same *)
(* reason; and a record that an agent would adopt by its name is on the     *)
(* page of the host the agent is bound to ("the panel agrees with the       *)
(* server", duplicatesOf), so an operator can merge from either.            *)
(***************************************************************************)
DuplicatesFindEachOther(hosts) ==
  \A h \in DOMAIN hosts, o \in DOMAIN hosts : h # o =>
    /\ \A reason \in {"name", "address"} :
         [of |-> o, reason |-> reason] \in DuplicatesOf(h, hosts)
           <=> [of |-> h, reason |-> reason] \in DuplicatesOf(o, hosts)
    /\ hosts[h].bound /\ ~hosts[o].bound /\ hosts[o].name = hosts[h].name =>
         \E d \in DuplicatesOf(o, hosts) : d.of = h /\ d.reason = "name"

-----------------------------------------------------------------------------
(* filterSort. A row is [cell, matches, tagged, field]: its cell in the column *)
(* that is sorted by, and whether the search, the tag and the field filter     *)
(* accept it. A cell has a number, or None, and a rank among texts.            *)

Rows ==
  Seq([cell : [number : Int \cup {None}, text : Int], matches : BOOLEAN, tagged : BOOLEAN, field : BOOLEAN])

Wanted(row, asked) ==
  /\ asked.query => row.matches
  /\ asked.tag => row.tagged
  /\ asked.field => row.field

CompareValues(a, b) ==
  IF a.number # None /\ b.number # None THEN a.number - b.number ELSE a.text - b.text

Less(a, b, dir) == IF dir = "desc" THEN CompareValues(a, b) > 0 ELSE CompareValues(a, b) < 0

\* sort.SliceStable of up to 20 elements: each moves left while it is less
\* than its neighbour. A list is the indices of its rows.
Inserted(rows, list, i, dir) ==
  LET stays == {k \in DOMAIN list : ~Less(rows[i].cell, rows[list[k]].cell, dir)} IN
  InsertAt(list, IF stays = {} THEN 1 ELSE Max(stays) + 1, i)

\* The filter and the sort go through the rows in the same order, so they are
\* one pass here.
FilterSort(rows, asked) ==
  LET out[n \in 0 .. Len(rows)] ==
        IF n = 0 THEN <<>>
        ELSE IF ~Wanted(rows[n], asked) THEN out[n - 1]
        ELSE IF asked.sort THEN Inserted(rows, out[n - 1], n, asked.dir)
        ELSE Append(out[n - 1], n)
  IN out[Len(rows)]

\* The column that is sorted by has numbers only, or none.
Uniform(rows) ==
  \/ \A i \in DOMAIN rows : rows[i].cell.number # None
  \/ \A i \in DOMAIN rows : rows[i].cell.number = None

\* The rows i and j are in order: the i-th comes before, or they are equal and
\* it was before.
InOrder(rows, asked, i, j) ==
  LET a == rows[i].cell
      b == rows[j].cell
      diff == IF a.number # None THEN b.number - a.number ELSE b.text - a.text
  IN \/ IF asked.dir = "desc" THEN diff < 0 ELSE diff > 0
     \/ diff = 0 /\ i < j

(***************************************************************************)
(* A list shows the rows its filters accept and no others, each once; when  *)
(* the cells of the column are all numbers, or all not, they are in order,  *)
(* and rows with equal cells keep theirs, as do all without a sort.         *)
(***************************************************************************)
UniformListsAreSorted(rows, asked) ==
  LET shown == FilterSort(rows, asked) IN
  /\ ToSet(shown) = {i \in DOMAIN rows : Wanted(rows[i], asked)} /\ IsInjective(shown)
  /\ asked.sort /\ Uniform(rows) =>
       \A k \in DOMAIN shown, l \in DOMAIN shown : k < l => InOrder(rows, asked, shown[k], shown[l])
  /\ ~asked.sort => \A k \in DOMAIN shown, l \in DOMAIN shown : k < l => shown[k] < shown[l]

(***************************************************************************)
(* The comment of compareValues: two cells that are numbers are compared as *)
(* numbers, "so 10 sorts after 9". So in a column sorted upwards a number   *)
(* is not followed by a smaller one.                                        *)
(***************************************************************************)
NumbersInOrder(rows, asked) ==
  LET shown == FilterSort(rows, asked)
      number(k) == rows[shown[k]].cell.number
  IN asked.sort /\ asked.dir = "asc" =>
       \A k \in DOMAIN shown, l \in DOMAIN shown :
         k < l /\ number(k) # None /\ number(l) # None => number(k) <= number(l)
=============================================================================
