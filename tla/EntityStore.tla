----------------------------- MODULE EntityStore -----------------------------
(***************************************************************************)
(* The generic entity handlers (internal/web/resource.go, bulk.go,          *)
(* csvimport.go) and the rows that hang on an entity: tags, journal         *)
(* entries, attachments, relationships and custom field values. Nothing in  *)
(* the schema ties these rows to their entity; the handlers have to.        *)
(*                                                                          *)
(* A write transaction holds the database's write lock from its BEGIN       *)
(* IMMEDIATE (store.Open) to its end. Its writes are in work, which becomes *)
(* db at the commit. A handler that runs several operations in one          *)
(* transaction takes one step per operation; the transactions of one        *)
(* operation and no event are one step (Write). What a handler reads before *)
(* its transaction, and the events it dispatches after it, are steps of     *)
(* their own.                                                               *)
(***************************************************************************)
EXTENDS Naturals, Sequences, FiniteSets

CONSTANTS
  Entity,    \* entities: an entity type and an id
  Def,       \* custom field definitions
  Value,     \* values of an entity's own columns
  Kind,      \* side tables in use, of "tag", "journal" and "attachment"
  Request,   \* requests to the handlers that write entities
  Files,     \* the files an import may upload
  MaxLog,    \* bound on the rows of the changelog
  MaxHung,   \* bound on the side rows and relationships at a time
  None

ASSUME KindAssumption == Kind \subseteq {"tag", "journal", "attachment"}
ASSUME NoneAssumption == None \notin Entity \cup Value \cup Request
ASSUME BoundsAssumption == MaxLog \in Nat /\ MaxHung \in Nat

\* What a form or a custom_fields object asks: values to set, values to clear.
Fields == [set : SUBSET Def, clear : SUBSET Def]
NoFields == [set |-> {}, clear |-> {}]

EventActions == {"create", "update", "delete"}
RowActions == EventActions \cup {"import", "acknowledge"}

\* What an update has changed: the entity's own columns (for the other actions:
\* the entity), or what bulkTag and unbindAgent record. An "import" row about
\* None tells of the import of an inventory, one about an entity of its
\* discovery.
Row == [entity : Entity \cup {None}, action : RowActions,
        field : {"columns", "tags", "agent"}]

Tables ==
  [ents   : SUBSET Entity,               \* entities that exist
   used   : SUBSET (Entity \cup Def),    \* AUTOINCREMENT: ids ever given out
   val    : [Entity -> Value \cup {None}],
   sides  : SUBSET (Kind \X Entity),     \* tags, journal entries, attachments
   rels   : SUBSET (Entity \X Entity),   \* relationships, from and to
   defs   : SUBSET Def,
   values : SUBSET (Entity \X Def),      \* custom field values
   log    : Seq(Row)]                    \* the changelog

File ==
  [ents : SUBSET Entity, val : [Entity -> Value \cup {None}],
   sides : SUBSET ((Kind \ {"attachment"}) \X Entity),
   rels : SUBSET (Entity \X Entity),
   defs : SUBSET Def, values : SUBSET (Entity \X Def)]

\* Files of which every record passes its Validate.
ASSUME FilesAssumption ==
  /\ Files \subseteq File
  /\ \A f \in Files :
       /\ \A e \in f.ents : f.val[e] \in Value
       /\ \A x \in f.rels : x[1] # x[2]

VARIABLES
  db,       \* the committed tables
  work,     \* the tables as the open transaction sees them
  lock,     \* the request whose transaction is open, or None
  stage,    \* where each request is
  fields,   \* the custom fields each request has parsed
  pending,  \* its events: the changelog rows they tell of
  sent      \* events given to the webhook queue

requestVars == <<stage, fields, pending>>
vars == <<db, work, lock, requestVars, sent>>

Empty ==
  [ents |-> {}, used |-> {}, val |-> [e \in Entity |-> None], sides |-> {},
   rels |-> {}, defs |-> {}, values |-> {}, log |-> <<>>]

Init ==
  /\ db = Empty /\ work = Empty
  /\ lock = None
  /\ stage = [r \in Request |-> "idle"]
  /\ fields = [r \in Request |-> NoFields]
  /\ pending = [r \in Request |-> {}]
  /\ sent = {}

-----------------------------------------------------------------------------
(* What the statements make of the tables t. *)

Inserted(t, e, v) ==
  [t EXCEPT !.ents = @ \cup {e}, !.used = @ \cup {e}, !.val[e] = v]

\* SetForEntity: upserts and deletes, whatever definitions exist.
WithFields(t, e, f) ==
  [t EXCEPT !.values = (@ \ ({e} \X f.clear)) \cup ({e} \X f.set)]

About(e, action) == [entity |-> e, action |-> action, field |-> "columns"]
UpdateOf(e, field) == [entity |-> e, action |-> "update", field |-> field]

Logged(t, row) == [t EXCEPT !.log = Append(@, row)]

\* The bound on what hangs on entities.
RoomFor(t) == Cardinality(t.sides) + Cardinality(t.rels) < MaxHung

\* Faulty: relationships are removed at their "to" end only.
RemovedToEnd(t, e) ==
  [t EXCEPT !.ents = @ \ {e},
            !.val[e] = None,
            !.sides = {s \in @ : s[2] # e},
            !.rels = {x \in @ : x[2] # e},
            !.values = {c \in @ : c[1] # e}]

\* deleteEntityTx: the entity and every row that hangs on it.
Removed(t, e) ==
  [t EXCEPT !.ents = @ \ {e},
            !.val[e] = None,
            !.sides = {s \in @ : s[2] # e},
            !.rels = {x \in @ : x[1] # e /\ x[2] # e},
            !.values = {c \in @ : c[1] # e}]

\* Import: the file's rows without the dangling ones, and the attachments of
\* the entities that are still there.
Imported(t, f) ==
  [t EXCEPT !.ents = f.ents,
            !.used = @ \cup f.ents \cup f.defs,
            !.val = [e \in Entity |-> IF e \in f.ents THEN f.val[e] ELSE None],
            !.sides = {s \in f.sides : s[2] \in f.ents} \cup
                      {s \in @ : s[1] = "attachment" /\ s[2] \in f.ents},
            !.rels = {x \in f.rels : x[1] \in f.ents /\ x[2] \in f.ents},
            !.defs = f.defs,
            !.values = {c \in f.values : c[1] \in f.ents /\ c[2] \in f.defs}]

-----------------------------------------------------------------------------
(* The handlers that write entities. *)

\* parseCustomFields lists the definitions before the transaction begins.
ParseFields(r, f) ==
  /\ stage[r] = "idle"
  /\ f.set \cup f.clear \subseteq db.defs
  /\ f.set \cap f.clear = {}
  /\ stage' = [stage EXCEPT ![r] = "parsed"]
  /\ fields' = [fields EXCEPT ![r] = f]
  /\ UNCHANGED <<db, work, lock, pending, sent>>

\* A save goes on with the fields it parsed; CSV rows and bulk set-field
\* ("rows"), deletes and bulk tagging have none.
Begin(r, handler) ==
  /\ lock = None
  /\ \/ stage[r] = "parsed" /\ handler = "save"
     \/ stage[r] = "idle" /\ handler \in {"rows", "delete", "tags"}
  /\ lock' = r
  /\ stage' = [stage EXCEPT ![r] = handler]
  /\ UNCHANGED <<db, work, fields, pending, sent>>

InTx(r, handlers) ==
  /\ lock = r
  /\ stage[r] \in handlers
  /\ Len(work.log) < MaxLog

\* A save is one operation; the others may go on.
Continue(r) ==
  stage' = [stage EXCEPT ![r] = IF @ = "save" THEN "saved" ELSE @]

\* The operation appends a row to the changelog and its event to events.
Tell(r) ==
  pending' = [pending EXCEPT ![r] = @ \cup {Len(work.log) + 1}]

Create(r, e, v) ==
  /\ InTx(r, {"save", "rows"})
  /\ e \notin work.used
  /\ work' = Logged(WithFields(Inserted(work, e, v), e, fields[r]), About(e, "create"))
  /\ Tell(r)
  /\ Continue(r)
  /\ UNCHANGED <<db, lock, fields, sent>>

\* A save that changes none of the entity's columns applies the custom fields
\* but is neither logged nor dispatched.
Update(r, e, v) ==
  /\ InTx(r, {"save", "rows"})
  /\ e \in work.ents
  /\ \/ /\ work.val[e] = v
        /\ work' = WithFields(work, e, fields[r])
        /\ UNCHANGED pending
     \/ /\ work.val[e] # v
        /\ work' = Logged([WithFields(work, e, fields[r]) EXCEPT !.val[e] = v],
                            About(e, "update"))
        /\ Tell(r)
  /\ Continue(r)
  /\ UNCHANGED <<db, lock, fields, sent>>

Delete(r, e) ==
  /\ InTx(r, {"delete"})
  /\ e \in work.ents
  /\ work' = Logged(Removed(work, e), About(e, "delete"))
  /\ Tell(r)
  /\ UNCHANGED <<db, lock, stage, fields, sent>>

\* bulkTag: an update in the changelog, but no event.
BulkTag(r, e) ==
  /\ InTx(r, {"tags"})
  /\ "tag" \in Kind
  /\ e \in work.ents
  /\ \/ /\ RoomFor(work)
        /\ work' = Logged([work EXCEPT !.sides = @ \cup {<<"tag", e>>}], UpdateOf(e, "tags"))
     \/ work' = Logged([work EXCEPT !.sides = @ \ {<<"tag", e>>}], UpdateOf(e, "tags"))
  /\ UNCHANGED <<db, lock, requestVars, sent>>

Commit(r) ==
  /\ lock = r
  /\ stage[r] # "save"
  /\ db' = work
  /\ lock' = None
  /\ stage' = [stage EXCEPT ![r] = "committed"]
  /\ UNCHANGED <<work, fields, pending, sent>>

\* Faulty: the events of a transaction that failed are dispatched.
RollbackTells(r) ==
  /\ lock = r
  /\ work' = db
  /\ lock' = None
  /\ stage' = [stage EXCEPT ![r] = "committed"]
  /\ UNCHANGED <<db, fields, pending, sent>>

\* Any statement can fail: a row that is gone, a constraint, the disk, a panic.
Rollback(r) ==
  /\ lock = r
  /\ work' = db
  /\ lock' = None
  /\ stage' = [stage EXCEPT ![r] = "idle"]
  /\ fields' = [fields EXCEPT ![r] = NoFields]
  /\ pending' = [pending EXCEPT ![r] = {}]
  /\ UNCHANGED <<db, sent>>

Dispatch(r) ==
  /\ stage[r] = "committed"
  /\ sent' = sent \cup pending[r]
  /\ stage' = [stage EXCEPT ![r] = "idle"]
  /\ fields' = [fields EXCEPT ![r] = NoFields]
  /\ pending' = [pending EXCEPT ![r] = {}]
  /\ UNCHANGED <<db, work, lock>>

-----------------------------------------------------------------------------
(* Transactions of one step. *)

Write(t) ==
  /\ lock = None
  /\ db' = t
  /\ work' = t
  /\ UNCHANGED <<lock, requestVars, sent>>

\* addTag, addJournal and addAttachment: existsTx, then the insert.
Attach(k, e) ==
  /\ e \in db.ents
  /\ RoomFor(db)
  /\ Write([db EXCEPT !.sides = @ \cup {<<k, e>>}])

Detach(k, e) == Write([db EXCEPT !.sides = @ \ {<<k, e>>}])

\* createRelationship: both ends are looked up in the insert's transaction.
Relate(from, to) ==
  /\ from # to
  /\ {from, to} \subseteq db.ents
  /\ RoomFor(db)
  /\ Write([db EXCEPT !.rels = @ \cup {<<from, to>>}])

Unrelate(from, to) == Write([db EXCEPT !.rels = @ \ {<<from, to>>}])

CreateDef(d) ==
  /\ d \notin db.used
  /\ Write([db EXCEPT !.defs = @ \cup {d}, !.used = @ \cup {d}])

\* The definition and its values.
DeleteDef(d) ==
  Write([db EXCEPT !.defs = @ \ {d}, !.values = {c \in @ : c[2] # d}])

\* Faulty: the changelog is emptied with the inventory.
ImportClearsLog(f) ==
  /\ Len(db.log) < MaxLog
  /\ Write(Logged([Imported(db, f) EXCEPT !.log = <<>>], About(None, "import")))

Import(f) ==
  /\ Len(db.log) < MaxLog
  /\ Write(Logged(Imported(db, f), About(None, "import")))

\* A discovery import: the new entity, a row in the changelog, no event. For
\* a container, the form names the host it runs on; nothing looks it up.
Discover(e, v, host) ==
  /\ Len(db.log) < MaxLog
  /\ e \notin db.used
  /\ host \in db.used \cup {None}
  /\ Write([Logged(Inserted(db, e, v), About(e, "import"))
              EXCEPT !.rels = IF host = None THEN @ ELSE @ \cup {<<e, host>>}])

\* acknowledgeStale reads the entities, then appends its row: the entity was
\* there some time ago.
Acknowledge(e) ==
  /\ Len(db.log) < MaxLog
  /\ e \in db.used
  /\ Write(Logged(db, About(e, "acknowledge")))

\* unbindAgent: the binding of a host goes (it is in AgentIngest), and an
\* update is recorded, without an event. A binding does not outlive its host.
Unbind(e) ==
  /\ Len(db.log) < MaxLog
  /\ e \in db.ents
  /\ Write(Logged(db, UpdateOf(e, "agent")))

Handle(r) ==
  \/ \E f \in Fields : ParseFields(r, f)
  \/ \E h \in {"save", "rows", "delete", "tags"} : Begin(r, h)
  \/ \E e \in Entity :
       \/ \E v \in Value : Create(r, e, v) \/ Update(r, e, v)
       \/ Delete(r, e) \/ BulkTag(r, e)
  \/ Commit(r) \/ Rollback(r) \/ Dispatch(r)

WriteStep ==
  \/ \E k \in Kind, e \in Entity : Attach(k, e) \/ Detach(k, e)
  \/ \E e, f \in Entity : Relate(e, f) \/ Unrelate(e, f)
  \/ \E d \in Def : CreateDef(d) \/ DeleteDef(d)
  \/ \E f \in Files : Import(f)
  \/ \E e \in Entity :
       \/ Acknowledge(e) \/ Unbind(e)
       \/ \E v \in Value, host \in Entity \cup {None} : Discover(e, v, host)

Next == WriteStep \/ \E r \in Request : Handle(r)

Spec == Init /\ [][Next]_vars

-----------------------------------------------------------------------------
Stages == {"idle", "parsed", "save", "saved", "rows", "delete", "tags", "committed"}

TypeOK ==
  /\ db \in Tables
  /\ work \in Tables
  /\ lock \in Request \cup {None}
  /\ stage \in [Request -> Stages]
  /\ fields \in [Request -> Fields]
  /\ pending \in [Request -> SUBSET (Nat \ {0})]
  /\ sent \in SUBSET (Nat \ {0})

Hanging(t) ==
  /\ \A s \in t.sides : s[2] \in t.ents
  /\ \A x \in t.rels : x[1] \in t.ents
  /\ \A c \in t.values : c[1] \in t.ents

(***************************************************************************)
(* Every tag, journal entry, attachment and custom field value belongs to   *)
(* an entity that exists, and every relationship starts at one, through     *)
(* deletes, imports and half-done bulk requests: "Otherwise a concurrent    *)
(* delete leaves the child orphaned, or a child posted for an id not yet    *)
(* used is inherited by whichever entity later gets it" (existsTx).         *)
(***************************************************************************)
ChildrenHaveEntities == Hanging(db)

\* Row i is the last one that tells whether e exists.
LastAbout(log, e, i) ==
  /\ log[i].entity = e /\ log[i].action # "acknowledge"
  /\ \A j \in i + 1 .. Len(log) :
       log[j].entity \in {e, None} => log[j].action = "acknowledge"

Agrees(t) ==
  \A e \in Entity :
    /\ \A i \in 1 .. Len(t.log) :
         LastAbout(t.log, e, i) => (e \in t.ents <=> t.log[i].action # "delete")
    /\ e \in t.ents => \E i \in 1 .. Len(t.log) : t.log[i].entity \in {e, None}

(***************************************************************************)
(* The changelog and the tables agree. The last row about an entity since   *)
(* the last import of an inventory says whether it exists (acknowledgements *)
(* aside), and every entity is accounted for by a row of its own or by an   *)
(* import. The history page and the search for stale entities rely on it.   *)
(***************************************************************************)
HistoryAgrees == Agrees(db)

Committed == {r \in Request : stage[r] = "committed"}

\* The rows that createEntityTx, updateEntityTx and deleteEntityTx write.
HasEvent(row) == row.action \in EventActions /\ row.field = "columns"
EventRows(log) == {i \in 1 .. Len(log) : HasEvent(log[i])}

(***************************************************************************)
(* The webhook events that are out, or that a handler still has to          *)
(* dispatch after its commit, are exactly the committed creations and       *)
(* deletions of entities and updates of their own columns, each once: an    *)
(* aborted transaction tells nothing, and a later one that reuses its place *)
(* in the changelog does not find it told already. The other updates in the *)
(* changelog have no event: unbindAgent's, and bulkTag's, although          *)
(* docs/lists-and-views.md:71-74 says of the bulk actions, tagging among    *)
(* them, that "Webhooks fire per entity".                                   *)
(***************************************************************************)
EventsMatchHistory ==
  /\ sent \cup UNION {pending[r] : r \in Committed} = EventRows(db.log)
  /\ \A r \in Committed :
       /\ pending[r] \cap sent = {}
       /\ \A q \in Committed \ {r} : pending[r] \cap pending[q] = {}

(***************************************************************************)
(* The history is true: the changelog tells which entities exist and the     *)
(* webhooks' events tell of the rows that are theirs to tell, no more and no *)
(* fewer, over commits, rollbacks, bulk requests that fail half-way,         *)
(* deletions and imports.                                                    *)
(***************************************************************************)
HistoryIsTrue == TypeOK /\ HistoryAgrees /\ EventsMatchHistory

(***************************************************************************)
(* The changelog is append-only, an import included ("Rows are never        *)
(* deleted", migration 0015), although whole transactions are built on a    *)
(* copy that replaces the tables at the commit.                             *)
(***************************************************************************)
HistoryIsKept ==
  [][ /\ Len(db.log) <= Len(db'.log)
      /\ \A i \in 1 .. Len(db.log) : db'.log[i] = db.log[i] ]_vars

(***************************************************************************)
(* The comment on dropDanglingRefs says that rows which point at an entity  *)
(* or a definition that does not exist come from hand-edited files or older *)
(* races only, and createRelationship's that no edge points at nothing. So  *)
(* a custom field value has a definition and a relationship has both ends.  *)
(***************************************************************************)
NothingDangles ==
  /\ \A c \in db.values : c[2] \in db.defs
  /\ \A x \in db.rels : {x[1], x[2]} \subseteq db.ents
=============================================================================
