---------------------------- MODULE MCEntityStore ----------------------------
EXTENDS EntityStore, TLC

CONSTANTS e1, e2, d1, v1, v2, r1, r2

TwoEntities == {e1, e2}
OneDef == {d1}
TwoValues == {v1, v2}
OneRequest == {r1}
TwoRequests == {r1, r2}

FileOf(ents, sides, rels, defs, values) ==
  [ents |-> ents, val |-> [e \in Entity |-> IF e \in ents THEN v1 ELSE None],
   sides |-> sides, rels |-> rels, defs |-> defs, values |-> values]

\* An empty file, and two whose rows point at what they have and at what they
\* lack. Files treat the two entities alike, so that they may be permuted.
OtherThan(e) == CHOOSE f \in Entity : f # e
SideFiles ==
  { FileOf({}, {}, {}, {}, {}) } \cup
  { FileOf({e}, {<<"tag", e>>, <<"tag", OtherThan(e)>>}, {<<e, OtherThan(e)>>}, {},
           {<<e, d1>>}) : e \in Entity }
NoFiles == {}

Symmetry == Permutations(Entity) \cup Permutations(Request)
=============================================================================
