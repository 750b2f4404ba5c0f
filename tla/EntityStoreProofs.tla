-------------------------- MODULE EntityStoreProofs --------------------------
(***************************************************************************)
(* The safety properties of EntityStore, for any entities, definitions and  *)
(* requests and any bound on the changelog.                                 *)
(*                                                                          *)
(* The inductive invariant says of the open transaction's tables what it    *)
(* says of the committed ones, that the transaction only adds to the        *)
(* changelog, and that the events it has gathered are the rows it added.    *)
(***************************************************************************)
EXTENDS EntityStore, TLAPS

InTxStages == {"save", "saved", "rows", "delete", "tags"}
Outside == {"idle", "parsed"}

Good(t) == t \in Tables /\ Hanging(t) /\ Agrees(t)

Extends(s, t) ==
  /\ Len(s) <= Len(t)
  /\ \A i \in 1 .. Len(s) : t[i] = s[i]

TypedRest ==
  /\ lock \in Request \cup {None}
  /\ stage \in [Request -> Stages]
  /\ fields \in [Request -> Fields]
  /\ pending \in [Request -> SUBSET (Nat \ {0})]
  /\ sent \in SUBSET (Nat \ {0})

Locking ==
  /\ lock = None => work = db
  /\ \A r \in Request : lock = r <=> stage[r] \in InTxStages

NewRows(old, new) == EventRows(new) \ EventRows(old)

Gathered ==
  \A r \in Request :
    /\ stage[r] \in Outside => pending[r] = {}
    /\ stage[r] \in InTxStages => pending[r] = NewRows(db.log, work.log)

IInv ==
  /\ TypedRest
  /\ Good(db) /\ Good(work)
  /\ Locking
  /\ Extends(db.log, work.log)
  /\ Gathered
  /\ EventsMatchHistory

-----------------------------------------------------------------------------
(* The statements on the tables. *)

\* A row of the changelog.
LEMMA AboutIs ==
  \A e \in Entity \cup {None}, a \in RowActions :
    /\ About(e, a) \in Row
    /\ About(e, a).entity = e /\ About(e, a).action = a
    /\ HasEvent(About(e, a)) <=> a \in EventActions
BY DEF About, Row, HasEvent

LEMMA UpdateOfIs ==
  \A e \in Entity, f \in {"tags", "agent"} :
    /\ UpdateOf(e, f) \in Row
    /\ UpdateOf(e, f).entity = e /\ UpdateOf(e, f).action = "update"
    /\ ~HasEvent(UpdateOf(e, f))
BY DEF UpdateOf, Row, HasEvent, RowActions, EventActions

LEMMA RowsAre ==
  /\ \A e \in Entity :
       /\ About(e, "create") \in Row /\ HasEvent(About(e, "create"))
       /\ About(e, "update") \in Row /\ HasEvent(About(e, "update"))
       /\ About(e, "delete") \in Row /\ HasEvent(About(e, "delete"))
       /\ About(e, "import") \in Row /\ ~HasEvent(About(e, "import"))
       /\ About(e, "acknowledge") \in Row /\ ~HasEvent(About(e, "acknowledge"))
  /\ About(None, "import") \in Row /\ ~HasEvent(About(None, "import"))
BY AboutIs DEF RowActions, EventActions

\* What a row about an entity says.
LEMMA AboutSays ==
  \A e, a : About(e, a).entity = e /\ About(e, a).action = a
BY DEF About

\* An append leaves the rows there were.
LEMMA AppendRow ==
  ASSUME NEW log \in Seq(Row), NEW row \in Row
  PROVE  /\ Append(log, row) \in Seq(Row)
         /\ Len(Append(log, row)) = Len(log) + 1
         /\ Append(log, row)[Len(log) + 1] = row
         /\ \A i \in 1 .. Len(log) : Append(log, row)[i] = log[i]
OBVIOUS

LEMMA LoggedIs ==
  ASSUME NEW t \in Tables, NEW row \in Row
  PROVE  /\ Logged(t, row) \in Tables
         /\ Logged(t, row).log = Append(t.log, row)
         /\ Logged(t, row).ents = t.ents
         /\ Logged(t, row).sides = t.sides
         /\ Logged(t, row).rels = t.rels
         /\ Logged(t, row).values = t.values
<1>1. Append(t.log, row) \in Seq(Row)
  BY AppendRow DEF Tables
<1> QED
  BY <1>1 DEF Logged, Tables

LEMMA InsertedIs ==
  ASSUME NEW t \in Tables, NEW e \in Entity, NEW v \in Value
  PROVE  /\ Inserted(t, e, v) \in Tables
         /\ Inserted(t, e, v).log = t.log
         /\ Inserted(t, e, v).ents = t.ents \cup {e}
         /\ Inserted(t, e, v).sides = t.sides
         /\ Inserted(t, e, v).rels = t.rels
         /\ Inserted(t, e, v).values = t.values
BY DEF Inserted, Tables

LEMMA WithFieldsIs ==
  ASSUME NEW t \in Tables, NEW e \in Entity, NEW f \in Fields
  PROVE  /\ WithFields(t, e, f) \in Tables
         /\ WithFields(t, e, f).log = t.log
         /\ WithFields(t, e, f).ents = t.ents
         /\ WithFields(t, e, f).sides = t.sides
         /\ WithFields(t, e, f).rels = t.rels
         /\ \A c \in WithFields(t, e, f).values : c \in t.values \/ c[1] = e
<1>1. (t.values \ ({e} \X f.clear)) \cup ({e} \X f.set) \in SUBSET (Entity \X Def)
  BY DEF Tables, Fields
<1>2. WithFields(t, e, f).values = (t.values \ ({e} \X f.clear)) \cup ({e} \X f.set)
  BY DEF WithFields, Tables
<1>3. \A c \in WithFields(t, e, f).values : c \in t.values \/ c[1] = e
  BY <1>2
<1> QED
  BY <1>1, <1>3 DEF WithFields, Tables

LEMMA RemovedIs ==
  ASSUME NEW t \in Tables, NEW e \in Entity
  PROVE  /\ Removed(t, e) \in Tables
         /\ Removed(t, e).log = t.log
         /\ Removed(t, e).ents = t.ents \ {e}
         /\ Removed(t, e).sides = {s \in t.sides : s[2] # e}
         /\ Removed(t, e).rels = {x \in t.rels : x[1] # e /\ x[2] # e}
         /\ Removed(t, e).values = {c \in t.values : c[1] # e}
BY DEF Removed, Tables

LEMMA ImportedIs ==
  ASSUME NEW t \in Tables, NEW f \in Files
  PROVE  /\ Imported(t, f) \in Tables
         /\ Imported(t, f).log = t.log
         /\ Imported(t, f).ents = f.ents
         /\ \A s \in Imported(t, f).sides : s[2] \in f.ents
         /\ \A x \in Imported(t, f).rels : x[1] \in f.ents
         /\ \A c \in Imported(t, f).values : c[1] \in f.ents
<1> DEFINE sides == {s \in f.sides : s[2] \in f.ents} \cup
                    {s \in t.sides : s[1] = "attachment" /\ s[2] \in f.ents}
           rels == {x \in f.rels : x[1] \in f.ents /\ x[2] \in f.ents}
           values == {c \in f.values : c[1] \in f.ents /\ c[2] \in f.defs}
           val == [e \in Entity |-> IF e \in f.ents THEN f.val[e] ELSE None]
<1>1. f \in File
  BY FilesAssumption
<1>2. /\ sides \in SUBSET (Kind \X Entity)
      /\ rels \in SUBSET (Entity \X Entity)
      /\ values \in SUBSET (Entity \X Def)
      /\ t.used \cup f.ents \cup f.defs \in SUBSET (Entity \cup Def)
      /\ f.ents \in SUBSET Entity /\ f.defs \in SUBSET Def
  BY <1>1 DEF File, Tables
<1>3. val \in [Entity -> Value \cup {None}]
  BY <1>1 DEF File
<1>4. /\ \A s \in sides : s[2] \in f.ents
      /\ \A x \in rels : x[1] \in f.ents
      /\ \A c \in values : c[1] \in f.ents
  OBVIOUS
<1> HIDE DEF sides, rels, values, val
<1>5. /\ Imported(t, f).log = t.log
      /\ Imported(t, f).ents = f.ents
      /\ Imported(t, f).sides = sides
      /\ Imported(t, f).rels = rels
      /\ Imported(t, f).values = values
  BY DEF Imported, Tables, sides, rels, values, val
<1>6. Imported(t, f) =
        [t EXCEPT !.ents = f.ents, !.used = t.used \cup f.ents \cup f.defs, !.val = val,
                  !.sides = sides, !.rels = rels, !.defs = f.defs, !.values = values]
  BY DEF Imported, Tables, sides, rels, values, val
<1>7. Imported(t, f) \in Tables
  BY <1>2, <1>3, <1>6 DEF Tables
<1> QED
  BY <1>4, <1>5, <1>7

-----------------------------------------------------------------------------
(* The changelog keeps agreeing with the tables. *)

\* A row that tells whether e exists is added to the changelog.
LEMMA AgreesRow ==
  ASSUME NEW t \in Tables, NEW u \in Tables, NEW e \in Entity, NEW row \in Row,
         Agrees(t),
         u.log = Append(t.log, row),
         row.entity = e,
         row.action # "acknowledge",
         u.ents \ {e} = t.ents \ {e},
         e \in u.ents <=> row.action # "delete"
  PROVE  Agrees(u)
<1> DEFINE n == Len(t.log)
<1>1. t.log \in Seq(Row) /\ row \in Row /\ n \in Nat
  BY DEF Tables
<1>2. /\ Len(u.log) = n + 1
      /\ u.log[n + 1] = row
      /\ \A i \in 1 .. n : u.log[i] = t.log[i]
  BY <1>1, AppendRow
<1>3. row.entity = e /\ row.action # "acknowledge"
  OBVIOUS
<1> HIDE DEF n
<1> SUFFICES ASSUME NEW g \in Entity
             PROVE  /\ \A i \in 1 .. Len(u.log) :
                         LastAbout(u.log, g, i) => (g \in u.ents <=> u.log[i].action # "delete")
                    /\ g \in u.ents => \E i \in 1 .. Len(u.log) : u.log[i].entity \in {g, None}
  BY DEF Agrees
<1>4. ASSUME NEW i \in 1 .. Len(u.log), LastAbout(u.log, g, i)
      PROVE  g \in u.ents <=> u.log[i].action # "delete"
  <2>1. CASE i = n + 1
    <3>1. u.log[i].entity = g
      BY <1>4 DEF LastAbout
    <3>2. g = e
      BY <3>1, <2>1, <1>2, <1>3
    <3> QED
      BY <3>2, <2>1, <1>2, <1>3
  <2>2. CASE i # n + 1
    <3>1. i \in 1 .. n /\ n + 1 \in i + 1 .. Len(u.log)
      BY <2>2, <1>1, <1>2
    <3>2. g # e
      BY <3>1, <1>4, <1>2, <1>3 DEF LastAbout
    <3>3. \A j \in i + 1 .. n : j \in i + 1 .. Len(u.log) /\ u.log[j] = t.log[j]
      BY <1>1, <1>2, <3>1
    <3>4. LastAbout(t.log, g, i)
      BY <1>4, <1>2, <3>1, <3>3 DEF LastAbout, n
    <3>5. g \in t.ents <=> t.log[i].action # "delete"
      BY <3>1, <3>4 DEF Agrees, n
    <3>6. g \in u.ents <=> g \in t.ents
      BY <3>2
    <3> QED
      BY <3>1, <3>5, <3>6, <1>2
  <2> QED
    BY <2>1, <2>2
<1>5. ASSUME g \in u.ents
      PROVE  \E i \in 1 .. Len(u.log) : u.log[i].entity \in {g, None}
  <2>1. CASE g = e
    <3>1. n + 1 \in 1 .. Len(u.log) /\ u.log[n + 1].entity = g
      BY <2>1, <1>1, <1>2, <1>3
    <3> QED
      BY <3>1
  <2>2. CASE g # e
    <3>1. g \in t.ents
      BY <2>2, <1>5
    <3>2. PICK i \in 1 .. n : t.log[i].entity \in {g, None}
      BY <3>1 DEF Agrees, n
    <3>3. i \in 1 .. Len(u.log) /\ u.log[i] = t.log[i]
      BY <1>1, <1>2
    <3> QED
      BY <3>2, <3>3
  <2> QED
    BY <2>1, <2>2
<1> QED
  BY <1>4, <1>5

\* An acknowledgement changes nothing.
LEMMA AgreesAcknowledge ==
  ASSUME NEW t \in Tables, NEW u \in Tables, NEW e \in Entity,
         Agrees(t),
         u.log = Append(t.log, About(e, "acknowledge")),
         u.ents = t.ents
  PROVE  Agrees(u)
<1> DEFINE n == Len(t.log)
           row == About(e, "acknowledge")
<1>1. t.log \in Seq(Row) /\ row \in Row /\ n \in Nat
  BY AboutIs DEF Tables, RowActions
<1>2. /\ Len(u.log) = n + 1
      /\ u.log[n + 1] = row
      /\ \A i \in 1 .. n : u.log[i] = t.log[i]
  BY <1>1, AppendRow
<1>3. row.entity = e /\ row.action = "acknowledge"
  BY AboutIs DEF RowActions
<1> HIDE DEF n, row
<1> SUFFICES ASSUME NEW g \in Entity
             PROVE  /\ \A i \in 1 .. Len(u.log) :
                         LastAbout(u.log, g, i) => (g \in u.ents <=> u.log[i].action # "delete")
                    /\ g \in u.ents => \E i \in 1 .. Len(u.log) : u.log[i].entity \in {g, None}
  BY DEF Agrees
<1>4. ASSUME NEW i \in 1 .. Len(u.log), LastAbout(u.log, g, i)
      PROVE  g \in u.ents <=> u.log[i].action # "delete"
  <2>1. i # n + 1
    BY <1>4, <1>2, <1>3 DEF LastAbout
  <2>2. i \in 1 .. n
    BY <2>1, <1>1, <1>2
  <2>3. \A j \in i + 1 .. n : j \in i + 1 .. Len(u.log) /\ u.log[j] = t.log[j]
    BY <1>1, <1>2, <2>2
  <2>4. LastAbout(t.log, g, i)
    BY <1>4, <1>2, <2>2, <2>3 DEF LastAbout, n
  <2> QED
    BY <2>2, <2>4, <1>2 DEF Agrees, n
<1>5. ASSUME g \in u.ents
      PROVE  \E i \in 1 .. Len(u.log) : u.log[i].entity \in {g, None}
  <2>1. PICK i \in 1 .. n : t.log[i].entity \in {g, None}
    BY <1>5 DEF Agrees, n
  <2>2. i \in 1 .. Len(u.log) /\ u.log[i] = t.log[i]
    BY <1>1, <1>2
  <2> QED
    BY <2>1, <2>2
<1> QED
  BY <1>4, <1>5

\* The import of an inventory accounts for every entity.
LEMMA AgreesImport ==
  ASSUME NEW t \in Tables, NEW u \in Tables,
         u.log = Append(t.log, About(None, "import"))
  PROVE  Agrees(u)
<1> DEFINE n == Len(t.log)
           row == About(None, "import")
<1>1. t.log \in Seq(Row) /\ row \in Row /\ n \in Nat
  BY AboutIs DEF Tables, RowActions
<1>2. Len(u.log) = n + 1 /\ u.log[n + 1] = row
  BY <1>1, AppendRow
<1>3. row.entity = None /\ row.action = "import"
  BY AboutIs DEF RowActions
<1> HIDE DEF n, row
<1>4. \A g \in Entity : \A i \in 1 .. Len(u.log) : ~ LastAbout(u.log, g, i)
  <2> SUFFICES ASSUME NEW g \in Entity, NEW i \in 1 .. Len(u.log), LastAbout(u.log, g, i)
               PROVE  FALSE
    OBVIOUS
  <2>1. CASE i = n + 1
    BY <2>1, <1>2, <1>3, NoneAssumption DEF LastAbout
  <2>2. CASE i # n + 1
    <3>1. n + 1 \in i + 1 .. Len(u.log)
      BY <2>2, <1>1, <1>2
    <3> QED
      BY <3>1, <1>2, <1>3 DEF LastAbout
  <2> QED
    BY <2>1, <2>2
<1>5. n + 1 \in 1 .. Len(u.log) /\ u.log[n + 1].entity = None
  BY <1>1, <1>2, <1>3
<1> QED
  BY <1>4, <1>5 DEF Agrees

\* Tables with the same entities and the same changelog agree alike.
LEMMA AgreesSame ==
  ASSUME NEW t, NEW u, Agrees(t), u.ents = t.ents, u.log = t.log
  PROVE  Agrees(u)
BY DEF Agrees

-----------------------------------------------------------------------------
(* Every operation leaves good tables, and a changelog that goes on. *)

LEMMA CreateGood ==
  ASSUME NEW t, NEW e \in Entity, NEW v \in Value, NEW f \in Fields, Good(t)
  PROVE  LET u == Logged(WithFields(Inserted(t, e, v), e, f), About(e, "create"))
         IN  Good(u) /\ u.log = Append(t.log, About(e, "create"))
<1> DEFINE p == Inserted(t, e, v)
           q == WithFields(p, e, f)
           u == Logged(q, About(e, "create"))
<1>1. /\ p \in Tables /\ p.log = t.log /\ p.ents = t.ents \cup {e}
      /\ p.sides = t.sides /\ p.rels = t.rels /\ p.values = t.values
  BY InsertedIs DEF Good
<1> HIDE DEF p
<1>2. /\ q \in Tables /\ q.log = p.log /\ q.ents = p.ents
      /\ q.sides = p.sides /\ q.rels = p.rels
      /\ \A c \in q.values : c \in p.values \/ c[1] = e
  BY <1>1, WithFieldsIs
<1> HIDE DEF q
<1>3. /\ u \in Tables /\ u.log = Append(q.log, About(e, "create"))
      /\ u.ents = q.ents /\ u.sides = q.sides /\ u.rels = q.rels /\ u.values = q.values
  BY <1>2, LoggedIs, RowsAre
<1> HIDE DEF u
<1>4. u.log = Append(t.log, About(e, "create")) /\ u.ents = t.ents \cup {e}
  BY <1>1, <1>2, <1>3
<1>5. Agrees(u)
  <2>1. u.ents \ {e} = t.ents \ {e} /\ e \in u.ents
    BY <1>4
  <2> QED
    BY <1>3, <1>4, <2>1, AgreesRow, AboutSays, RowsAre DEF Good
<1>6. Hanging(u)
  BY <1>1, <1>2, <1>3 DEF Good, Hanging
<1> QED
  BY <1>3, <1>4, <1>5, <1>6 DEF Good, u, q, p

LEMMA FieldsGood ==
  ASSUME NEW t, NEW e \in Entity, NEW f \in Fields, Good(t), e \in t.ents
  PROVE  Good(WithFields(t, e, f)) /\ WithFields(t, e, f).log = t.log
<1> DEFINE u == WithFields(t, e, f)
<1>1. /\ u \in Tables /\ u.log = t.log /\ u.ents = t.ents
      /\ u.sides = t.sides /\ u.rels = t.rels
      /\ \A c \in u.values : c \in t.values \/ c[1] = e
  BY WithFieldsIs DEF Good
<1> HIDE DEF u
<1>2. Agrees(u)
  BY <1>1, AgreesSame DEF Good
<1>3. Hanging(u)
  BY <1>1 DEF Good, Hanging
<1> QED
  BY <1>1, <1>2, <1>3 DEF Good, u

LEMMA UpdateGood ==
  ASSUME NEW t, NEW e \in Entity, NEW v \in Value, NEW f \in Fields, Good(t), e \in t.ents
  PROVE  LET u == Logged([WithFields(t, e, f) EXCEPT !.val[e] = v], About(e, "update"))
         IN  Good(u) /\ u.log = Append(t.log, About(e, "update"))
<1> DEFINE p == WithFields(t, e, f)
           q == [p EXCEPT !.val[e] = v]
           u == Logged(q, About(e, "update"))
<1>1. Good(p) /\ p.log = t.log /\ p.ents = t.ents
  BY FieldsGood, WithFieldsIs DEF Good
<1> HIDE DEF p
<1>2. /\ q \in Tables /\ q.log = p.log /\ q.ents = p.ents
      /\ q.sides = p.sides /\ q.rels = p.rels /\ q.values = p.values
  BY <1>1 DEF Good, Tables
<1> HIDE DEF q
<1>3. /\ u \in Tables /\ u.log = Append(q.log, About(e, "update"))
      /\ u.ents = q.ents /\ u.sides = q.sides /\ u.rels = q.rels /\ u.values = q.values
  BY <1>2, LoggedIs, RowsAre
<1> HIDE DEF u
<1>4. u.log = Append(t.log, About(e, "update")) /\ u.ents = t.ents
  BY <1>1, <1>2, <1>3
<1>5. Agrees(u)
  BY <1>3, <1>4, AgreesRow, AboutSays, RowsAre DEF Good
<1>6. Hanging(u)
  BY <1>1, <1>2, <1>3 DEF Good, Hanging
<1> QED
  BY <1>3, <1>4, <1>5, <1>6 DEF Good, u, q, p

LEMMA DeleteGood ==
  ASSUME NEW t, NEW e \in Entity, Good(t)
  PROVE  LET u == Logged(Removed(t, e), About(e, "delete"))
         IN  Good(u) /\ u.log = Append(t.log, About(e, "delete"))
<1> DEFINE p == Removed(t, e)
           u == Logged(p, About(e, "delete"))
<1>1. /\ p \in Tables /\ p.log = t.log /\ p.ents = t.ents \ {e}
      /\ p.sides = {s \in t.sides : s[2] # e}
      /\ p.rels = {x \in t.rels : x[1] # e /\ x[2] # e}
      /\ p.values = {c \in t.values : c[1] # e}
  BY RemovedIs DEF Good
<1> HIDE DEF p
<1>2. /\ u \in Tables /\ u.log = Append(p.log, About(e, "delete"))
      /\ u.ents = p.ents /\ u.sides = p.sides /\ u.rels = p.rels /\ u.values = p.values
  BY <1>1, LoggedIs, RowsAre
<1> HIDE DEF u
<1>3. u.log = Append(t.log, About(e, "delete")) /\ u.ents = t.ents \ {e}
  BY <1>1, <1>2
<1>4. Agrees(u)
  <2>1. u.ents \ {e} = t.ents \ {e} /\ e \notin u.ents
    BY <1>3
  <2> QED
    BY <1>2, <1>3, <2>1, AgreesRow, AboutSays, RowsAre DEF Good
<1>5. Hanging(u)
  BY <1>1, <1>2 DEF Good, Hanging
<1> QED
  BY <1>2, <1>3, <1>4, <1>5 DEF Good, u, p

\* Side rows of an entity that exists, in or out, and a row that says so.
LEMMA SidesGood ==
  ASSUME NEW t, NEW sides \in SUBSET (Kind \X Entity), Good(t),
         \A s \in sides : s \in t.sides \/ s[2] \in t.ents
  PROVE  /\ Good([t EXCEPT !.sides = sides])
         /\ [t EXCEPT !.sides = sides].log = t.log
         /\ [t EXCEPT !.sides = sides].ents = t.ents
<1> DEFINE u == [t EXCEPT !.sides = sides]
<1>1. /\ u \in Tables /\ u.log = t.log /\ u.ents = t.ents
      /\ u.sides = sides /\ u.rels = t.rels /\ u.values = t.values
  BY DEF Good, Tables
<1> HIDE DEF u
<1>2. Agrees(u)
  BY <1>1, AgreesSame DEF Good
<1>3. Hanging(u)
  BY <1>1 DEF Good, Hanging
<1> QED
  BY <1>1, <1>2, <1>3 DEF Good, u

\* A row about an entity that exists, about something else than its deletion.
LEMMA LoggedGood ==
  ASSUME NEW t, NEW e \in Entity, NEW row \in Row,
         Good(t), e \in t.ents,
         row.entity = e, row.action \notin {"acknowledge", "delete"}
  PROVE  Good(Logged(t, row))
<1> DEFINE u == Logged(t, row)
<1>1. /\ u \in Tables /\ u.log = Append(t.log, row)
      /\ u.ents = t.ents /\ u.sides = t.sides /\ u.rels = t.rels /\ u.values = t.values
  BY LoggedIs DEF Good
<1> HIDE DEF u
<1>2. Agrees(u)
  BY <1>1, AgreesRow DEF Good
<1>3. Hanging(u)
  BY <1>1 DEF Good, Hanging
<1> QED
  BY <1>1, <1>2, <1>3 DEF Good, u

-----------------------------------------------------------------------------
(* The rows with an event in a changelog that goes on. *)

LEMMA EventRowsAppend ==
  ASSUME NEW log \in Seq(Row), NEW row \in Row
  PROVE  /\ Extends(log, Append(log, row))
         /\ ~HasEvent(row) => EventRows(Append(log, row)) = EventRows(log)
         /\ HasEvent(row) =>
              EventRows(Append(log, row)) = EventRows(log) \cup {Len(log) + 1}
<1> DEFINE n == Len(log)
           new == Append(log, row)
<1>1. n \in Nat /\ new \in Seq(Row) /\ Len(new) = n + 1
  BY AppendRow
<1>2. new[n + 1] = row /\ \A i \in 1 .. n : new[i] = log[i]
  BY AppendRow
<1>3. 1 .. Len(new) = (1 .. n) \cup {n + 1} /\ n <= n + 1 /\ n + 1 \notin 1 .. n
  BY <1>1
<1> HIDE DEF new
<1>4. Extends(log, new)
  BY <1>1, <1>2, <1>3 DEF Extends, n
<1>5. ~HasEvent(row) => EventRows(new) = EventRows(log)
  <2> HIDE DEF n
  <2> QED
    BY <1>2, <1>3 DEF EventRows, n
<1>6. HasEvent(row) => EventRows(new) = EventRows(log) \cup {n + 1}
  <2> HIDE DEF n
  <2> QED
    BY <1>2, <1>3 DEF EventRows, n
<1> QED
  BY <1>4, <1>5, <1>6 DEF new, n

LEMMA ExtendsTrans ==
  ASSUME NEW a \in Seq(Row), NEW b \in Seq(Row), NEW c \in Seq(Row),
         Extends(a, b), Extends(b, c)
  PROVE  Extends(a, c)
<1>1. Len(a) \in Nat /\ Len(b) \in Nat /\ Len(c) \in Nat
  OBVIOUS
<1>2. 1 .. Len(a) \subseteq 1 .. Len(b) /\ Len(a) <= Len(c)
  BY <1>1 DEF Extends
<1>3. \A i \in 1 .. Len(a) : c[i] = a[i]
  BY <1>2 DEF Extends
<1> QED
  BY <1>2, <1>3 DEF Extends

LEMMA ExtendsSame ==
  ASSUME NEW a \in Seq(Row)
  PROVE  Extends(a, a)
BY DEF Extends

\* A longer changelog has the rows of the shorter one.
LEMMA EventRowsExtend ==
  ASSUME NEW a \in Seq(Row), NEW b \in Seq(Row), Extends(a, b)
  PROVE  EventRows(a) \subseteq EventRows(b)
<1>1. Len(a) \in Nat /\ Len(b) \in Nat
  OBVIOUS
<1>2. 1 .. Len(a) \subseteq 1 .. Len(b)
  BY <1>1 DEF Extends
<1> QED
  BY <1>2 DEF EventRows, Extends

LEMMA NextRowIsNew ==
  ASSUME NEW a \in Seq(Row), NEW b \in Seq(Row), Extends(a, b)
  PROVE  Len(b) + 1 \notin EventRows(a)
<1>1. Len(a) \in Nat /\ Len(b) \in Nat /\ Len(a) <= Len(b)
  BY DEF Extends
<1>2. Len(b) + 1 \notin 1 .. Len(a)
  BY <1>1
<1> QED
  BY <1>2 DEF EventRows

-----------------------------------------------------------------------------
(* The steps. *)

THEOREM InitInv == Init => IInv
<1> SUFFICES ASSUME Init PROVE IInv
  OBVIOUS
<1>1. /\ db = Empty /\ work = Empty /\ lock = None /\ sent = {}
      /\ stage = [r \in Request |-> "idle"]
      /\ fields = [r \in Request |-> NoFields]
      /\ pending = [r \in Request |-> {}]
  BY DEF Init
<1>2. /\ Empty.log = << >> /\ Empty.ents = {} /\ Empty.sides = {}
      /\ Empty.rels = {} /\ Empty.values = {}
  BY DEF Empty
<1>3. Empty \in Tables
  <2>1. << >> \in Seq(Row)
    OBVIOUS
  <2> QED
    BY <2>1 DEF Empty, Tables
<1>4. Agrees(Empty)
  <2>1. 1 .. Len(<< >>) = {}
    OBVIOUS
  <2> QED
    BY <1>2, <2>1 DEF Agrees
<1>5. Good(Empty)
  BY <1>2, <1>3, <1>4 DEF Good, Hanging
<1>6. TypedRest
  BY <1>1 DEF TypedRest, Stages, Fields, NoFields
<1>7. Locking
  BY <1>1, NoneAssumption DEF Locking, InTxStages
<1>8. Extends(db.log, work.log)
  BY <1>1, <1>3, ExtendsSame DEF Tables
<1>9. Gathered
  BY <1>1 DEF Gathered, InTxStages
<1>10. EventsMatchHistory
  <2>1. Committed = {}
    BY <1>1 DEF Committed
  <2>2. EventRows(db.log) = {}
    <3>1. 1 .. Len(<< >>) = {}
      OBVIOUS
    <3> QED
      BY <1>1, <1>2, <3>1 DEF EventRows
  <2>3. UNION {pending[r] : r \in Committed} = {}
    BY <2>1
  <2> QED
    BY <1>1, <2>1, <2>2, <2>3 DEF EventsMatchHistory
<1> QED
  BY <1>1, <1>5, <1>6, <1>7, <1>8, <1>9, <1>10 DEF IInv

\* What an operation of the open transaction does to the changelog and events.
Grows(r) ==
  \/ work'.log = work.log /\ pending' = pending
  \/ \E row \in Row :
       ~HasEvent(row) /\ work'.log = Append(work.log, row) /\ pending' = pending
  \/ \E row \in Row :
       HasEvent(row) /\ work'.log = Append(work.log, row) /\ Tell(r)

\* The events of what the open transaction adds.
LEMMA GrowsGathers ==
  ASSUME NEW r \in Request, IInv, Good(work'), Grows(r), UNCHANGED db,
         stage[r] \in InTxStages
  PROVE  /\ Extends(db.log, work'.log)
         /\ pending'[r] = NewRows(db.log, work'.log)
         /\ \A q \in Request \ {r} : pending'[q] = pending[q]
         /\ pending' \in [Request -> SUBSET (Nat \ {0})]
<1>1. /\ db.log \in Seq(Row) /\ work.log \in Seq(Row) /\ work'.log \in Seq(Row)
      /\ Extends(db.log, work.log)
  BY DEF IInv, Good, Tables
<1>2. pending[r] = NewRows(db.log, work.log) /\ pending \in [Request -> SUBSET (Nat \ {0})]
  BY DEF IInv, Gathered, TypedRest
<1>3. CASE work'.log = work.log /\ pending' = pending
  BY <1>1, <1>2, <1>3
<1>4. ASSUME NEW row \in Row, ~HasEvent(row),
             work'.log = Append(work.log, row), pending' = pending
      PROVE  Extends(db.log, work'.log) /\ pending'[r] = NewRows(db.log, work'.log)
  <2>1. Extends(work.log, work'.log) /\ EventRows(work'.log) = EventRows(work.log)
    BY <1>1, <1>4, EventRowsAppend
  <2>2. Extends(db.log, work'.log)
    BY <1>1, <2>1, ExtendsTrans
  <2> QED
    BY <1>2, <1>4, <2>1, <2>2 DEF NewRows
<1>5. ASSUME NEW row \in Row, HasEvent(row),
             work'.log = Append(work.log, row), Tell(r)
      PROVE  /\ Extends(db.log, work'.log)
             /\ pending'[r] = NewRows(db.log, work'.log)
             /\ \A q \in Request \ {r} : pending'[q] = pending[q]
             /\ pending' \in [Request -> SUBSET (Nat \ {0})]
  <2>2. /\ Extends(work.log, work'.log)
        /\ EventRows(work'.log) = EventRows(work.log) \cup {Len(work.log) + 1}
    BY <1>1, <1>5, EventRowsAppend
  <2>3. Extends(db.log, work'.log)
    BY <1>1, <2>2, ExtendsTrans
  <2>4. Len(work.log) + 1 \notin EventRows(db.log)
    BY <1>1, NextRowIsNew
  <2>5. Len(work.log) + 1 \in Nat \ {0}
    BY <1>1
  <2>6. /\ pending'[r] = pending[r] \cup {Len(work.log) + 1}
        /\ \A q \in Request \ {r} : pending'[q] = pending[q]
        /\ pending' \in [Request -> SUBSET (Nat \ {0})]
    BY <1>2, <1>5, <2>5 DEF Tell
  <2> QED
    BY <1>2, <2>2, <2>3, <2>4, <2>6 DEF NewRows
<1> QED
  BY <1>2, <1>3, <1>4, <1>5 DEF Grows

\* An operation of the open transaction keeps the invariant.
LEMMA OperationInv ==
  ASSUME NEW r \in Request, NEW s \in InTxStages,
         IInv, Good(work'), Grows(r), UNCHANGED <<db, lock, fields, sent>>,
         lock = r, stage' = [stage EXCEPT ![r] = s]
  PROVE  IInv'
<1>1. stage[r] \in InTxStages /\ stage \in [Request -> Stages]
  BY DEF IInv, Locking, TypedRest
<1>2. /\ Extends(db.log, work'.log)
      /\ pending'[r] = NewRows(db.log, work'.log)
      /\ \A q \in Request \ {r} : pending'[q] = pending[q]
      /\ pending' \in [Request -> SUBSET (Nat \ {0})]
  BY <1>1, GrowsGathers
<1>3. /\ stage'[r] = s /\ stage' \in [Request -> Stages]
      /\ \A q \in Request \ {r} : stage'[q] = stage[q]
  BY <1>1 DEF InTxStages, Stages
<1>4. \A q \in Request \ {r} : stage[q] \notin InTxStages
  BY DEF IInv, Locking
<1>5. Good(db)' /\ Good(work)' /\ Extends(db.log, work.log)'
  BY <1>2 DEF IInv
<1>6. TypedRest'
  BY <1>2, <1>3 DEF IInv, TypedRest
<1>7. Locking'
  <2>1. lock' = r /\ r # None
    BY NoneAssumption
  <2> QED
    BY <2>1, <1>3, <1>4 DEF Locking
<1>8. Gathered'
  <2>1. s \notin Outside
    BY DEF InTxStages, Outside
  <2>2. \A q \in Request \ {r} : stage[q] \in Outside => pending[q] = {}
    BY DEF IInv, Gathered
  <2> QED
    BY <1>2, <1>3, <1>4, <2>1, <2>2 DEF Gathered
<1>9. EventsMatchHistory'
  <2>1. stage[r] # "committed" /\ s # "committed"
    BY <1>1 DEF InTxStages
  <2>2. Committed' = Committed /\ r \notin Committed /\ Committed \subseteq Request
    BY <1>3, <2>1 DEF Committed
  <2>3. \A q \in Committed : pending'[q] = pending[q]
    BY <1>2, <2>2
  <2>4. UNION {pending'[q] : q \in Committed'} = UNION {pending[q] : q \in Committed}
    BY <2>2, <2>3
  <2> QED
    BY <2>2, <2>3, <2>4 DEF IInv, EventsMatchHistory
<1> QED
  BY <1>5, <1>6, <1>7, <1>8, <1>9 DEF IInv

\* What a transaction of one step makes of the tables.
WritesGood(t) ==
  /\ Good(t) /\ Extends(db.log, t.log)
  /\ EventRows(t.log) = EventRows(db.log)

LEMMA SameLogWrites ==
  ASSUME NEW t, Good(db), Good(t), t.log = db.log
  PROVE  WritesGood(t)
<1>1. db.log \in Seq(Row)
  BY DEF Good, Tables
<1> QED
  BY <1>1, ExtendsSame DEF WritesGood

LEMMA RowWrites ==
  ASSUME NEW t, NEW row \in Row, ~HasEvent(row),
         Good(db), Good(t), t.log = Append(db.log, row)
  PROVE  WritesGood(t)
<1>1. db.log \in Seq(Row)
  BY DEF Good, Tables
<1> QED
  BY <1>1, EventRowsAppend DEF WritesGood

LEMMA AttachWrites ==
  ASSUME IInv, NEW k \in Kind, NEW e \in Entity, Attach(k, e) \/ Detach(k, e)
  PROVE  WritesGood(db')
<1>1. Good(db) /\ db.sides \in SUBSET (Kind \X Entity)
  BY DEF IInv, Good, Tables
<1>2. CASE Attach(k, e)
  <2>1. e \in db.ents /\ db' = [db EXCEPT !.sides = db.sides \cup {<<k, e>>}]
    BY <1>2 DEF Attach, Write
  <2>2. db.sides \cup {<<k, e>>} \in SUBSET (Kind \X Entity)
    BY <1>1
  <2>3. \A s \in db.sides \cup {<<k, e>>} : s \in db.sides \/ s[2] \in db.ents
    BY <2>1
  <2> QED
    BY <1>1, <2>1, <2>2, <2>3, SidesGood, SameLogWrites
<1>3. CASE Detach(k, e)
  <2>1. db' = [db EXCEPT !.sides = db.sides \ {<<k, e>>}]
    BY <1>3 DEF Detach, Write
  <2>2. db.sides \ {<<k, e>>} \in SUBSET (Kind \X Entity)
    BY <1>1
  <2> QED
    BY <1>1, <2>1, <2>2, SidesGood, SameLogWrites
<1> QED
  BY <1>2, <1>3

\* A write of relationships or definitions, with no row in the changelog.
LEMMA OtherWrites ==
  ASSUME NEW t, NEW u \in Tables, Good(t),
         u.log = t.log, u.ents = t.ents, u.sides = t.sides, u.values \subseteq t.values,
         \A x \in u.rels : x \in t.rels \/ x[1] \in t.ents
  PROVE  Good(u)
<1>1. Agrees(u)
  BY AgreesSame DEF Good
<1>2. Hanging(u)
  BY DEF Good, Hanging
<1> QED
  BY <1>1, <1>2 DEF Good

LEMMA RelateWrites ==
  ASSUME IInv, NEW e \in Entity, NEW f \in Entity, Relate(e, f) \/ Unrelate(e, f)
  PROVE  WritesGood(db')
<1>1. Good(db) /\ db \in Tables
  BY DEF IInv, Good
<1>2. PICK R \in SUBSET (Entity \X Entity) :
        /\ db' = [db EXCEPT !.rels = R]
        /\ \A x \in R : x \in db.rels \/ x[1] \in db.ents
  <2>1. db.rels \in SUBSET (Entity \X Entity)
    BY <1>1 DEF Tables
  <2>2. CASE Relate(e, f)
    <3>1. e \in db.ents /\ db' = [db EXCEPT !.rels = db.rels \cup {<<e, f>>}]
      BY <2>2 DEF Relate, Write
    <3> QED
      BY <2>1, <3>1
  <2>3. CASE Unrelate(e, f)
    <3>1. db' = [db EXCEPT !.rels = db.rels \ {<<e, f>>}]
      BY <2>3 DEF Unrelate, Write
    <3> QED
      BY <2>1, <3>1
  <2> QED
    BY <2>2, <2>3
<1>3. /\ db' \in Tables /\ db'.log = db.log /\ db'.ents = db.ents /\ db'.sides = db.sides
      /\ db'.values = db.values /\ db'.rels = R
  BY <1>1, <1>2 DEF Tables
<1>4. Good(db')
  BY <1>1, <1>2, <1>3, OtherWrites
<1> QED
  BY <1>1, <1>3, <1>4, SameLogWrites

LEMMA DefWrites ==
  ASSUME IInv, NEW d \in Def, CreateDef(d) \/ DeleteDef(d)
  PROVE  WritesGood(db')
<1>1. Good(db) /\ db \in Tables
  BY DEF IInv, Good
<1>2. /\ db' \in Tables /\ db'.log = db.log /\ db'.ents = db.ents /\ db'.sides = db.sides
      /\ db'.values \subseteq db.values /\ db'.rels = db.rels
  <2>1. CASE CreateDef(d)
    <3>1. db' = [db EXCEPT !.defs = @ \cup {d}, !.used = @ \cup {d}]
      BY <2>1 DEF CreateDef, Write
    <3> QED
      BY <1>1, <3>1 DEF Tables
  <2>2. CASE DeleteDef(d)
    <3>1. db' = [db EXCEPT !.defs = @ \ {d}, !.values = {c \in @ : c[2] # d}]
      BY <2>2 DEF DeleteDef, Write
    <3> QED
      BY <1>1, <3>1 DEF Tables
  <2> QED
    BY <2>1, <2>2
<1>3. Good(db')
  BY <1>1, <1>2, OtherWrites
<1> QED
  BY <1>1, <1>2, <1>3, SameLogWrites

LEMMA ImportWrites ==
  ASSUME IInv, NEW f \in Files, Import(f)
  PROVE  WritesGood(db')
<1> DEFINE p == Imported(db, f)
<1>1. Good(db) /\ db \in Tables
  BY DEF IInv, Good
<1>2. /\ p \in Tables /\ p.log = db.log /\ p.ents = f.ents
      /\ \A s \in p.sides : s[2] \in f.ents
      /\ \A x \in p.rels : x[1] \in f.ents
      /\ \A c \in p.values : c[1] \in f.ents
  BY <1>1, ImportedIs
<1>3. db' = Logged(p, About(None, "import"))
  BY DEF Import, Write
<1> HIDE DEF p
<1>4. /\ db' \in Tables /\ db'.log = Append(p.log, About(None, "import"))
      /\ db'.ents = p.ents /\ db'.sides = p.sides /\ db'.rels = p.rels /\ db'.values = p.values
  BY <1>2, <1>3, LoggedIs, RowsAre
<1>5. Agrees(db')
  BY <1>1, <1>2, <1>4, AgreesImport
<1>6. Hanging(db')
  BY <1>2, <1>4 DEF Hanging
<1>7. Good(db')
  BY <1>4, <1>5, <1>6 DEF Good
<1> QED
  BY <1>1, <1>2, <1>4, <1>7, RowWrites, RowsAre

LEMMA DiscoverWrites ==
  ASSUME IInv, NEW e \in Entity, NEW v \in Value, NEW host \in Entity \cup {None},
         Discover(e, v, host)
  PROVE  WritesGood(db')
<1> DEFINE p == Inserted(db, e, v)
           q == Logged(p, About(e, "import"))
           R == IF host = None THEN q.rels ELSE q.rels \cup {<<e, host>>}
<1>1. Good(db) /\ db \in Tables
  BY DEF IInv, Good
<1>2. /\ p \in Tables /\ p.log = db.log /\ p.ents = db.ents \cup {e}
      /\ p.sides = db.sides /\ p.rels = db.rels /\ p.values = db.values
  BY <1>1, InsertedIs
<1> HIDE DEF p
<1>3. /\ q \in Tables /\ q.log = Append(p.log, About(e, "import"))
      /\ q.ents = p.ents /\ q.sides = p.sides /\ q.rels = p.rels /\ q.values = p.values
  BY <1>2, LoggedIs, RowsAre
<1>4. db' = [q EXCEPT !.rels = R]
  BY DEF Discover, Write, p
<1> HIDE DEF q
<1>5. R \in SUBSET (Entity \X Entity) /\ \A x \in R : x \in q.rels \/ x[1] = e
  BY <1>3 DEF Tables
<1> HIDE DEF R
<1>6. /\ db' \in Tables /\ db'.log = q.log /\ db'.ents = q.ents
      /\ db'.sides = q.sides /\ db'.rels = R /\ db'.values = q.values
  BY <1>3, <1>4, <1>5 DEF Tables
<1>7. db'.log = Append(db.log, About(e, "import"))
  BY <1>2, <1>3, <1>6
<1>8. Agrees(db')
  <2>1. db'.ents \ {e} = db.ents \ {e} /\ e \in db'.ents
    BY <1>2, <1>3, <1>6
  <2> QED
    BY <1>1, <1>6, <1>7, <2>1, AgreesRow, AboutSays, RowsAre DEF Good
<1>9. Hanging(db')
  BY <1>1, <1>2, <1>3, <1>5, <1>6 DEF Good, Hanging
<1>10. Good(db')
  BY <1>6, <1>8, <1>9 DEF Good
<1> QED
  BY <1>1, <1>7, <1>10, RowWrites, RowsAre

LEMMA AcknowledgeWrites ==
  ASSUME IInv, NEW e \in Entity, Acknowledge(e)
  PROVE  WritesGood(db')
<1>1. Good(db) /\ db \in Tables
  BY DEF IInv, Good
<1>2. db' = Logged(db, About(e, "acknowledge"))
  BY DEF Acknowledge, Write
<1>3. /\ db' \in Tables /\ db'.log = Append(db.log, About(e, "acknowledge"))
      /\ db'.ents = db.ents /\ db'.sides = db.sides /\ db'.rels = db.rels
      /\ db'.values = db.values
  BY <1>1, <1>2, LoggedIs, RowsAre
<1>4. Agrees(db')
  BY <1>1, <1>3, AgreesAcknowledge DEF Good
<1>5. Hanging(db')
  BY <1>1, <1>3 DEF Good, Hanging
<1>6. Good(db')
  BY <1>3, <1>4, <1>5 DEF Good
<1> QED
  BY <1>1, <1>3, <1>6, RowWrites, RowsAre

LEMMA UnbindWrites ==
  ASSUME IInv, NEW e \in Entity, Unbind(e)
  PROVE  WritesGood(db')
<1>1. Good(db) /\ db \in Tables /\ e \in db.ents
  BY DEF IInv, Good, Unbind
<1>2. db' = Logged(db, UpdateOf(e, "agent"))
  BY DEF Unbind, Write
<1>3. db'.log = Append(db.log, UpdateOf(e, "agent"))
  BY <1>1, <1>2, LoggedIs, UpdateOfIs
<1>4. Good(db')
  BY <1>1, <1>2, LoggedGood, UpdateOfIs
<1> QED
  BY <1>1, <1>3, <1>4, RowWrites, UpdateOfIs

LEMMA WriteStepInv ==
  ASSUME IInv, WriteStep
  PROVE  IInv' /\ Extends(db.log, db'.log)
<1>1. WritesGood(db')
  <2>1. ASSUME NEW k \in Kind, NEW e \in Entity, Attach(k, e) \/ Detach(k, e)
        PROVE  WritesGood(db')
    BY <2>1, AttachWrites
  <2>2. ASSUME NEW e \in Entity, NEW f \in Entity, Relate(e, f) \/ Unrelate(e, f)
        PROVE  WritesGood(db')
    BY <2>2, RelateWrites
  <2>3. ASSUME NEW d \in Def, CreateDef(d) \/ DeleteDef(d)
        PROVE  WritesGood(db')
    BY <2>3, DefWrites
  <2>4. ASSUME NEW f \in Files, Import(f)
        PROVE  WritesGood(db')
    BY <2>4, ImportWrites
  <2>5. ASSUME NEW e \in Entity, Acknowledge(e)
        PROVE  WritesGood(db')
    BY <2>5, AcknowledgeWrites
  <2>6. ASSUME NEW e \in Entity, NEW v \in Value, NEW host \in Entity \cup {None},
               Discover(e, v, host)
        PROVE  WritesGood(db')
    BY <2>6, DiscoverWrites
  <2>7. ASSUME NEW e \in Entity, Unbind(e)
        PROVE  WritesGood(db')
    BY <2>7, UnbindWrites
  <2> QED
    BY <2>1, <2>2, <2>3, <2>4, <2>5, <2>6, <2>7 DEF WriteStep
<1>2. /\ lock = None /\ work' = db' /\ lock' = lock /\ sent' = sent
      /\ stage' = stage /\ fields' = fields /\ pending' = pending
  BY DEF WriteStep, Attach, Detach, Relate, Unrelate, CreateDef, DeleteDef, Import, Discover,
         Acknowledge, Unbind, Write, requestVars
<1>3. \A r \in Request : stage[r] \notin InTxStages
  BY <1>2, NoneAssumption DEF IInv, Locking
<1>4. TypedRest'
  BY <1>2 DEF IInv, TypedRest
<1>5. Good(db)' /\ Good(work)'
  BY <1>1, <1>2 DEF WritesGood
<1>6. Locking'
  BY <1>2, <1>3 DEF IInv, Locking
<1>7. Extends(db.log, work.log)'
  BY <1>2, <1>5, ExtendsSame DEF Good, Tables
<1>8. Gathered'
  BY <1>2, <1>3 DEF IInv, Gathered
<1>9. EventsMatchHistory'
  <2>1. EventRows(db'.log) = EventRows(db.log)
    BY <1>1 DEF WritesGood
  <2> QED
    BY <1>2, <2>1 DEF IInv, EventsMatchHistory, Committed
<1> QED
  BY <1>1, <1>4, <1>5, <1>6, <1>7, <1>8, <1>9 DEF IInv, WritesGood

LEMMA CreateInv ==
  ASSUME IInv, NEW r \in Request, NEW e \in Entity, NEW v \in Value, Create(r, e, v)
  PROVE  IInv'
<1>1. /\ lock = r /\ stage[r] \in {"save", "rows"}
      /\ work' = Logged(WithFields(Inserted(work, e, v), e, fields[r]), About(e, "create"))
      /\ Tell(r) /\ Continue(r) /\ UNCHANGED <<db, lock, fields, sent>>
  BY DEF Create, InTx
<1>2. fields[r] \in Fields /\ Good(work)
  BY DEF IInv, TypedRest
<1>3. Good(work') /\ work'.log = Append(work.log, About(e, "create"))
  BY <1>1, <1>2, CreateGood
<1>4. Grows(r)
  BY <1>1, <1>3, RowsAre DEF Grows
<1>5. \E s \in InTxStages : stage' = [stage EXCEPT ![r] = s]
  BY <1>1 DEF Continue, InTxStages
<1> QED
  BY <1>1, <1>3, <1>4, <1>5, OperationInv

LEMMA UpdateInv ==
  ASSUME IInv, NEW r \in Request, NEW e \in Entity, NEW v \in Value, Update(r, e, v)
  PROVE  IInv'
<1>1. /\ lock = r /\ stage[r] \in {"save", "rows"} /\ e \in work.ents
      /\ Continue(r) /\ UNCHANGED <<db, lock, fields, sent>>
      /\ \/ work' = WithFields(work, e, fields[r]) /\ UNCHANGED pending
         \/ /\ work' = Logged([WithFields(work, e, fields[r]) EXCEPT !.val[e] = v], About(e, "update"))
            /\ Tell(r)
  BY DEF Update, InTx
<1>2. fields[r] \in Fields /\ Good(work)
  BY DEF IInv, TypedRest
<1>3. Good(work') /\ Grows(r)
  <2>1. CASE work' = WithFields(work, e, fields[r]) /\ UNCHANGED pending
    BY <1>1, <1>2, <2>1, FieldsGood DEF Grows
  <2>2. CASE /\ work' = Logged([WithFields(work, e, fields[r]) EXCEPT !.val[e] = v], About(e, "update"))
             /\ Tell(r)
    <3>1. Good(work') /\ work'.log = Append(work.log, About(e, "update"))
      BY <1>1, <1>2, <2>2, UpdateGood
    <3> QED
      BY <2>2, <3>1, RowsAre DEF Grows
  <2> QED
    BY <1>1, <2>1, <2>2
<1>4. \E s \in InTxStages : stage' = [stage EXCEPT ![r] = s]
  BY <1>1 DEF Continue, InTxStages
<1> QED
  BY <1>1, <1>3, <1>4, OperationInv

\* A request that goes on stays where it is.
LEMMA StageStays ==
  ASSUME IInv, NEW r \in Request, stage' = stage
  PROVE  stage' = [stage EXCEPT ![r] = stage[r]]
BY DEF IInv, TypedRest

LEMMA DeleteInv ==
  ASSUME IInv, NEW r \in Request, NEW e \in Entity, Delete(r, e)
  PROVE  IInv'
<1>1. /\ lock = r /\ stage[r] \in InTxStages
      /\ work' = Logged(Removed(work, e), About(e, "delete"))
      /\ Tell(r) /\ stage' = stage /\ UNCHANGED <<db, lock, fields, sent>>
  BY DEF Delete, InTx, InTxStages
<1>2. Good(work') /\ work'.log = Append(work.log, About(e, "delete"))
  BY <1>1, DeleteGood DEF IInv
<1>3. Grows(r)
  BY <1>1, <1>2, RowsAre DEF Grows
<1> QED
  BY <1>1, <1>2, <1>3, StageStays, OperationInv

LEMMA BulkTagInv ==
  ASSUME IInv, NEW r \in Request, NEW e \in Entity, BulkTag(r, e)
  PROVE  IInv'
<1>1. /\ lock = r /\ stage[r] \in InTxStages /\ "tag" \in Kind /\ e \in work.ents
      /\ stage' = stage /\ pending' = pending /\ UNCHANGED <<db, lock, fields, sent>>
      /\ \E T \in {work.sides \cup {<<"tag", e>>}, work.sides \ {<<"tag", e>>}} :
           work' = Logged([work EXCEPT !.sides = T], UpdateOf(e, "tags"))
  BY DEF BulkTag, InTx, InTxStages, requestVars
<1>2. PICK T \in {work.sides \cup {<<"tag", e>>}, work.sides \ {<<"tag", e>>}} :
        work' = Logged([work EXCEPT !.sides = T], UpdateOf(e, "tags"))
  BY <1>1
<1>3. Good(work) /\ work.sides \in SUBSET (Kind \X Entity)
  BY DEF IInv, Good, Tables
<1>4. T \in SUBSET (Kind \X Entity) /\ \A s \in T : s \in work.sides \/ s[2] \in work.ents
  BY <1>1, <1>3
<1> DEFINE p == [work EXCEPT !.sides = T]
<1>5. Good(p) /\ p.log = work.log /\ p.ents = work.ents
  BY <1>3, <1>4, SidesGood
<1> HIDE DEF p
<1>6. Good(Logged(p, UpdateOf(e, "tags")))
  BY <1>1, <1>5, LoggedGood, UpdateOfIs
<1>7. Logged(p, UpdateOf(e, "tags")).log = Append(p.log, UpdateOf(e, "tags"))
  BY <1>5, LoggedIs, UpdateOfIs DEF Good
<1>8. work' = Logged(p, UpdateOf(e, "tags"))
  BY <1>2 DEF p
<1>9. Grows(r)
  BY <1>1, <1>5, <1>7, <1>8, UpdateOfIs DEF Grows
<1> QED
  BY <1>1, <1>6, <1>8, <1>9, StageStays, OperationInv

\* Steps outside the transaction that leave the tables and the events alone.
LEMMA ParseInv ==
  ASSUME IInv, NEW r \in Request, NEW f \in Fields, ParseFields(r, f)
  PROVE  IInv'
<1>1. /\ stage[r] = "idle" /\ stage' = [stage EXCEPT ![r] = "parsed"]
      /\ fields' = [fields EXCEPT ![r] = f]
      /\ db' = db /\ work' = work /\ lock' = lock /\ pending' = pending /\ sent' = sent
  BY DEF ParseFields
<1>2. stage \in [Request -> Stages] /\ fields \in [Request -> Fields]
  BY DEF IInv, TypedRest
<1>3. stage'[r] = "parsed" /\ \A q \in Request \ {r} : stage'[q] = stage[q]
  BY <1>1, <1>2
<1>4. TypedRest'
  BY <1>1, <1>2 DEF IInv, TypedRest, Stages
<1>5. Locking'
  BY <1>1, <1>3 DEF IInv, Locking, InTxStages
<1>6. Gathered'
  BY <1>1, <1>3 DEF IInv, Gathered, InTxStages, Outside
<1>7. EventsMatchHistory'
  <2>1. Committed' = Committed
    BY <1>1, <1>3 DEF Committed
  <2> QED
    BY <1>1, <2>1 DEF IInv, EventsMatchHistory
<1> QED
  BY <1>1, <1>4, <1>5, <1>6, <1>7 DEF IInv

LEMMA BeginInv ==
  ASSUME IInv, NEW r \in Request, NEW h \in {"save", "rows", "delete", "tags"}, Begin(r, h)
  PROVE  IInv'
<1>1. /\ lock = None /\ lock' = r /\ stage[r] \in Outside /\ stage' = [stage EXCEPT ![r] = h]
      /\ db' = db /\ work' = work /\ fields' = fields /\ pending' = pending /\ sent' = sent
  BY DEF Begin, Outside
<1>2. stage \in [Request -> Stages] /\ r # None
  BY NoneAssumption DEF IInv, TypedRest
<1>3. stage'[r] = h /\ h \in InTxStages /\ \A q \in Request \ {r} : stage'[q] = stage[q]
  BY <1>1, <1>2 DEF InTxStages
<1>4. \A q \in Request : stage[q] \notin InTxStages
  BY <1>1, NoneAssumption DEF IInv, Locking
<1>5. TypedRest'
  BY <1>1, <1>2 DEF IInv, TypedRest, Stages
<1>6. Locking'
  BY <1>1, <1>2, <1>3, <1>4 DEF Locking
<1>7. Gathered'
  <2>1. work = db
    BY <1>1 DEF IInv, Locking
  <2>2. NewRows(db.log, work.log) = {} /\ pending[r] = {}
    BY <1>1, <2>1 DEF IInv, Gathered, NewRows
  <2>3. h \notin Outside
    BY DEF Outside
  <2> QED
    BY <1>1, <1>3, <1>4, <2>2, <2>3 DEF IInv, Gathered
<1>8. EventsMatchHistory'
  <2>1. Committed' = Committed
    BY <1>1, <1>3 DEF Committed, InTxStages, Outside
  <2> QED
    BY <1>1, <2>1 DEF IInv, EventsMatchHistory
<1> QED
  BY <1>1, <1>5, <1>6, <1>7, <1>8 DEF IInv

LEMMA CommitInv ==
  ASSUME IInv, NEW r \in Request, Commit(r)
  PROVE  IInv' /\ Extends(db.log, db'.log)
<1>1. /\ lock = r /\ db' = work /\ lock' = None /\ stage' = [stage EXCEPT ![r] = "committed"]
      /\ work' = work /\ fields' = fields /\ pending' = pending /\ sent' = sent
  BY DEF Commit
<1>2. stage \in [Request -> Stages] /\ stage[r] \in InTxStages
  BY <1>1 DEF IInv, TypedRest, Locking
<1>3. stage'[r] = "committed" /\ \A q \in Request \ {r} : stage'[q] = stage[q]
  BY <1>1, <1>2
<1>4. \A q \in Request \ {r} : stage[q] \notin InTxStages
  BY <1>1 DEF IInv, Locking
<1>5. /\ Good(db) /\ Good(work) /\ Extends(db.log, work.log)
      /\ db.log \in Seq(Row) /\ work.log \in Seq(Row)
  BY DEF IInv, Good, Tables
<1>6. TypedRest'
  BY <1>1, <1>2 DEF IInv, TypedRest, Stages
<1>7. Locking'
  BY <1>1, <1>3, <1>4, NoneAssumption DEF Locking, InTxStages
<1>8. Extends(db.log, work.log)'
  BY <1>1, <1>5, ExtendsSame
<1>9. Gathered'
  BY <1>1, <1>3, <1>4 DEF IInv, Gathered, InTxStages, Outside
<1>10. EventsMatchHistory'
  <2>1. Committed' = Committed \cup {r} /\ r \notin Committed
    BY <1>2, <1>3 DEF Committed, InTxStages
  <2>2. pending[r] = EventRows(work.log) \ EventRows(db.log)
    BY <1>2 DEF IInv, Gathered, NewRows
  <2>3. EventRows(db.log) \subseteq EventRows(work.log)
    BY <1>5, EventRowsExtend
  <2>4. sent \cup UNION {pending[q] : q \in Committed} = EventRows(db.log)
    BY DEF IInv, EventsMatchHistory
  <2>5. UNION {pending[q] : q \in Committed \cup {r}} =
          (UNION {pending[q] : q \in Committed}) \cup pending[r]
    OBVIOUS
  <2>6. sent \cup UNION {pending[q] : q \in Committed \cup {r}} = EventRows(work.log)
    BY <2>2, <2>3, <2>4, <2>5
  <2>7. pending[r] \cap sent = {} /\ \A q \in Committed : pending[r] \cap pending[q] = {}
    BY <2>2, <2>4
  <2>8. \A q \in Committed \cup {r} :
          /\ pending[q] \cap sent = {}
          /\ \A p \in (Committed \cup {r}) \ {q} : pending[q] \cap pending[p] = {}
    BY <2>1, <2>7 DEF IInv, EventsMatchHistory
  <2> QED
    BY <1>1, <2>1, <2>6, <2>8 DEF EventsMatchHistory
<1> QED
  BY <1>1, <1>5, <1>6, <1>7, <1>8, <1>9, <1>10 DEF IInv

LEMMA RollbackInv ==
  ASSUME IInv, NEW r \in Request, Rollback(r)
  PROVE  IInv'
<1>1. /\ lock = r /\ work' = db /\ lock' = None /\ stage' = [stage EXCEPT ![r] = "idle"]
      /\ fields' = [fields EXCEPT ![r] = NoFields] /\ pending' = [pending EXCEPT ![r] = {}]
      /\ db' = db /\ sent' = sent
  BY DEF Rollback
<1>2. /\ stage \in [Request -> Stages] /\ stage[r] \in InTxStages
      /\ pending \in [Request -> SUBSET (Nat \ {0})] /\ fields \in [Request -> Fields]
  BY <1>1 DEF IInv, TypedRest, Locking
<1>3. /\ stage'[r] = "idle" /\ \A q \in Request \ {r} : stage'[q] = stage[q]
      /\ pending'[r] = {} /\ \A q \in Request \ {r} : pending'[q] = pending[q]
  BY <1>1, <1>2
<1>4. \A q \in Request \ {r} : stage[q] \notin InTxStages
  BY <1>1 DEF IInv, Locking
<1>5. Good(db) /\ db.log \in Seq(Row)
  BY DEF IInv, Good, Tables
<1>6. TypedRest'
  <2>1. NoFields \in Fields
    BY DEF NoFields, Fields
  <2> QED
    BY <1>1, <1>2, <2>1 DEF IInv, TypedRest, Stages
<1>7. Locking'
  BY <1>1, <1>3, <1>4, NoneAssumption DEF Locking, InTxStages
<1>8. Extends(db.log, work.log)'
  BY <1>1, <1>5, ExtendsSame
<1>9. Gathered'
  BY <1>3, <1>4 DEF IInv, Gathered, InTxStages
<1>10. EventsMatchHistory'
  <2>1. Committed' = Committed /\ r \notin Committed /\ Committed \subseteq Request
    BY <1>2, <1>3 DEF Committed, InTxStages
  <2>2. \A q \in Committed : pending'[q] = pending[q]
    BY <1>3, <2>1
  <2>3. UNION {pending'[q] : q \in Committed'} = UNION {pending[q] : q \in Committed}
    BY <2>1, <2>2
  <2> QED
    BY <1>1, <2>1, <2>2, <2>3 DEF IInv, EventsMatchHistory
<1> QED
  BY <1>1, <1>5, <1>6, <1>7, <1>8, <1>9, <1>10 DEF IInv

LEMMA DispatchInv ==
  ASSUME IInv, NEW r \in Request, Dispatch(r)
  PROVE  IInv'
<1>1. /\ stage[r] = "committed" /\ sent' = sent \cup pending[r]
      /\ stage' = [stage EXCEPT ![r] = "idle"]
      /\ fields' = [fields EXCEPT ![r] = NoFields] /\ pending' = [pending EXCEPT ![r] = {}]
      /\ db' = db /\ work' = work /\ lock' = lock
  BY DEF Dispatch
<1>2. /\ stage \in [Request -> Stages] /\ fields \in [Request -> Fields]
      /\ pending \in [Request -> SUBSET (Nat \ {0})] /\ sent \in SUBSET (Nat \ {0})
  BY DEF IInv, TypedRest
<1>3. /\ stage'[r] = "idle" /\ \A q \in Request \ {r} : stage'[q] = stage[q]
      /\ pending'[r] = {} /\ \A q \in Request \ {r} : pending'[q] = pending[q]
  BY <1>1, <1>2
<1>4. TypedRest'
  <2>1. NoFields \in Fields
    BY DEF NoFields, Fields
  <2>2. sent' \in SUBSET (Nat \ {0})
    BY <1>1, <1>2
  <2> QED
    BY <1>1, <1>2, <2>1, <2>2 DEF IInv, TypedRest, Stages
<1>5. Locking'
  BY <1>1, <1>3 DEF IInv, Locking, InTxStages
<1>6. Gathered'
  BY <1>1, <1>3 DEF IInv, Gathered, InTxStages
<1>7. EventsMatchHistory'
  <2>1. Committed' = Committed \ {r} /\ r \in Committed /\ Committed \subseteq Request
    BY <1>1, <1>3 DEF Committed
  <2>2. \A q \in Committed' : pending'[q] = pending[q]
    BY <1>3, <2>1
  <2>3. UNION {pending'[q] : q \in Committed'} = UNION {pending[q] : q \in Committed \ {r}}
    BY <2>1, <2>2
  <2>4. pending[r] \cup UNION {pending[q] : q \in Committed \ {r}} =
          UNION {pending[q] : q \in Committed}
    BY <2>1
  <2>5. sent' \cup UNION {pending'[q] : q \in Committed'} = EventRows(db.log)
    BY <1>1, <2>3, <2>4 DEF IInv, EventsMatchHistory
  <2>6. \A q \in Committed \ {r} :
          /\ pending[q] \cap (sent \cup pending[r]) = {}
          /\ \A p \in (Committed \ {r}) \ {q} : pending[q] \cap pending[p] = {}
    BY <2>1 DEF IInv, EventsMatchHistory
  <2> QED
    BY <1>1, <2>1, <2>2, <2>5, <2>6 DEF EventsMatchHistory
<1> QED
  BY <1>1, <1>4, <1>5, <1>6, <1>7 DEF IInv

\* Only a commit and the transactions of one step write the tables.
LEMMA StepInv ==
  ASSUME IInv, [Next]_vars
  PROVE  IInv' /\ Extends(db.log, db'.log)
<1>1. db.log \in Seq(Row)
  BY DEF IInv, Good, Tables
<1>2. CASE WriteStep
  BY <1>2, WriteStepInv
<1>3. ASSUME NEW r \in Request, Handle(r)
      PROVE  IInv' /\ Extends(db.log, db'.log)
  <2>1. ASSUME NEW f \in Fields, ParseFields(r, f)
        PROVE  IInv' /\ db' = db
    BY <2>1, ParseInv DEF ParseFields
  <2>2. ASSUME NEW h \in {"save", "rows", "delete", "tags"}, Begin(r, h)
        PROVE  IInv' /\ db' = db
    BY <2>2, BeginInv DEF Begin
  <2>3. ASSUME NEW e \in Entity, NEW v \in Value, Create(r, e, v)
        PROVE  IInv' /\ db' = db
    BY <2>3, CreateInv DEF Create
  <2>4. ASSUME NEW e \in Entity, NEW v \in Value, Update(r, e, v)
        PROVE  IInv' /\ db' = db
    BY <2>4, UpdateInv DEF Update
  <2>5. ASSUME NEW e \in Entity, Delete(r, e)
        PROVE  IInv' /\ db' = db
    BY <2>5, DeleteInv DEF Delete
  <2>6. ASSUME NEW e \in Entity, BulkTag(r, e)
        PROVE  IInv' /\ db' = db
    BY <2>6, BulkTagInv DEF BulkTag
  <2>7. CASE Commit(r)
    BY <2>7, CommitInv
  <2>8. CASE Rollback(r)
    BY <1>1, <2>8, RollbackInv, ExtendsSame DEF Rollback
  <2>9. CASE Dispatch(r)
    BY <1>1, <2>9, DispatchInv, ExtendsSame DEF Dispatch
  <2> QED
    BY <1>1, <1>3, <2>1, <2>2, <2>3, <2>4, <2>5, <2>6, <2>7, <2>8, <2>9, ExtendsSame DEF Handle
<1>4. CASE UNCHANGED vars
  BY <1>1, <1>4, ExtendsSame
     DEF vars, requestVars, IInv, TypedRest, Locking, Gathered, EventsMatchHistory, Committed
<1> QED
  BY <1>2, <1>3, <1>4 DEF Next

-----------------------------------------------------------------------------
(***************************************************************************)
(* The inductive invariant holds in every state.                            *)
(***************************************************************************)
THEOREM StoreInvariant == Spec => []IInv
<1>1. IInv /\ [Next]_vars => IInv'
  BY StepInv
<1> QED
  BY <1>1, InitInv, PTL DEF Spec

(***************************************************************************)
(* The tables, the open transaction's copy and the requests keep types.     *)
(***************************************************************************)
THEOREM StoreTypeCorrect == Spec => []TypeOK
<1>1. IInv => TypeOK
  BY DEF IInv, Good, TypedRest, TypeOK
<1> QED
  BY <1>1, StoreInvariant, PTL

(***************************************************************************)
(* No tag, journal entry, attachment, relationship start or custom field    *)
(* value outlives its entity, whatever is deleted, imported or attached     *)
(* meanwhile.                                                               *)
(***************************************************************************)
THEOREM ChildrenAreKept == Spec => []ChildrenHaveEntities
<1>1. IInv => ChildrenHaveEntities
  BY DEF IInv, Good, ChildrenHaveEntities
<1> QED
  BY <1>1, StoreInvariant, PTL

(***************************************************************************)
(* The changelog and the tables agree on which entities exist.              *)
(***************************************************************************)
THEOREM HistoryIsRight == Spec => []HistoryAgrees
<1>1. IInv => HistoryAgrees
  BY DEF IInv, Good, HistoryAgrees
<1> QED
  BY <1>1, StoreInvariant, PTL

(***************************************************************************)
(* Every committed creation or deletion of an entity and every committed    *)
(* update of its own columns has one webhook event, and nothing else has:   *)
(* not the updates that record tags (bulkTag) or a freed agent.             *)
(***************************************************************************)
THEOREM EventsAreRight == Spec => []EventsMatchHistory
<1>1. IInv => EventsMatchHistory
  BY DEF IInv
<1> QED
  BY <1>1, StoreInvariant, PTL

(***************************************************************************)
(* No step of any handler, an import's included, loses or rewrites a row of *)
(* the changelog.                                                           *)
(***************************************************************************)
THEOREM HistoryIsAppended == Spec => HistoryIsKept
<1>1. IInv /\ [Next]_vars =>
        [ /\ Len(db.log) <= Len(db'.log)
          /\ \A i \in 1 .. Len(db.log) : db'.log[i] = db.log[i] ]_vars
  BY StepInv DEF Extends
<1> QED
  BY <1>1, StoreInvariant, PTL DEF Spec, HistoryIsKept

(***************************************************************************)
(* The tables, the changelog and the events of the webhooks tell one story, *)
(* over commits, rollbacks, bulk requests, deletions and imports.           *)
(***************************************************************************)
THEOREM HistoryStaysTrue == Spec => []HistoryIsTrue
<1>1. TypeOK /\ HistoryAgrees /\ EventsMatchHistory => HistoryIsTrue
  BY DEF HistoryIsTrue
<1>. QED  BY <1>1, StoreTypeCorrect, HistoryIsRight, EventsAreRight, PTL
=============================================================================
