----------------------------- MODULE Migrations -----------------------------
(***************************************************************************)
(* Migrate (internal/store/migrate.go): the start of a process brings the   *)
(* schema up to date, one transaction per migration, after a backup.        *)
(*                                                                          *)
(* A migration is the number its file name starts with; a release knows     *)
(* those up to its own number. Processes start and die at any moment, of    *)
(* any release, and two of them may be at it on one database.               *)
(***************************************************************************)
EXTENDS Naturals, Sequences, FiniteSets, SequencesExt

CONSTANTS
  Starter,   \* processes that start on the database
  Releases,  \* the migrations that are known at most
  MaxStarts  \* bound on the starts

VARIABLES
  schema,    \* the migrations whose statements have taken effect, in order
  recorded,  \* table schema_migrations
  run,       \* what each starting process has read and done
  starts

vars == <<schema, recorded, run, starts>>

Down == [at |-> "down", pending |-> {}, backup |-> {}, done |-> {}]

Init ==
  /\ schema = <<>> /\ recorded = {}
  /\ run = [p \in Starter |-> Down]
  /\ starts = 0

\* appliedVersions, and the files that are not among them.
Read(p, release) ==
  LET todo == {f \in 1 .. release : f \notin recorded} IN
  /\ run[p].at = "down" /\ starts < MaxStarts
  /\ run' = [run EXCEPT ![p] = [at |-> IF todo = {} THEN "up" ELSE "backup", pending |-> todo,
                                backup |-> {}, done |-> {}]]
  /\ starts' = starts + 1
  /\ UNCHANGED <<schema, recorded>>

\* VACUUM INTO
Backup(p) ==
  /\ run[p].at = "backup"
  /\ run' = [run EXCEPT ![p] = [at |-> "apply", pending |-> @.pending,
                                backup |-> {schema}, done |-> {}]]
  /\ UNCHANGED <<schema, recorded, starts>>

\* The files are sorted: f is the next one.
IsNextOf(f, pending) == f \in pending /\ \A g \in pending : f <= g

\* Faulty: the version is recorded after the transaction.
ApplyThenRecord(p, f) ==
  /\ run[p].at = "apply" /\ IsNextOf(f, run[p].pending)
  /\ IF f \notin ToSet(schema)
     THEN schema' = Append(schema, f) /\ UNCHANGED <<recorded, run>>
     ELSE /\ recorded' = recorded \cup {f}
          /\ run' = [run EXCEPT ![p].pending = @ \ {f}, ![p].done = @ \cup {f}]
          /\ UNCHANGED schema
  /\ UNCHANGED starts

\* One transaction: the statements, which fail on a schema that has them, and
\* the row, whose key is the version.
Apply(p, f) ==
  /\ run[p].at = "apply" /\ IsNextOf(f, run[p].pending)
  /\ f \notin ToSet(schema) /\ f \notin recorded
  /\ schema' = Append(schema, f)
  /\ recorded' = recorded \cup {f}
  /\ run' = [run EXCEPT ![p] = [at |-> "apply", pending |-> @.pending \ {f},
                                backup |-> @.backup, done |-> @.done \cup {f}]]
  /\ UNCHANGED starts

Finish(p) ==
  /\ run[p].at = "apply" /\ run[p].pending = {}
  /\ run' = [run EXCEPT ![p].at = "up"]
  /\ UNCHANGED <<schema, recorded, starts>>

\* A statement fails, for whatever reason, or the process ends: what is not
\* committed is gone.
Dies(p) ==
  /\ run[p].at # "down"
  /\ run' = [run EXCEPT ![p] = Down]
  /\ UNCHANGED <<schema, recorded, starts>>

Step(p) == Backup(p) \/ (\E f \in run[p].pending : Apply(p, f)) \/ Finish(p)

Next ==
  \E p \in Starter :
    \/ \E release \in 1 .. Releases : Read(p, release)
    \/ Step(p)
    \/ Dies(p)

Spec == Init /\ [][Next]_vars
-----------------------------------------------------------------------------
TypeOK ==
  /\ schema \in Seq(1 .. Releases)
  /\ recorded \in SUBSET (1 .. Releases)
  /\ run \in [Starter ->
       [at : {"down", "backup", "apply", "up"}, pending : SUBSET (1 .. Releases),
        backup : SUBSET Seq(1 .. Releases), done : SUBSET (1 .. Releases)]]
  /\ starts \in Nat

(***************************************************************************)
(* Whatever dies where, and whichever releases start side by side, what is  *)
(* recorded is what has taken effect: the first few migrations, each once,  *)
(* in their order. So a later start completes it, and a process that is up  *)
(* has every migration it knows.                                            *)
(***************************************************************************)
AppliedInOrder ==
  /\ schema = [i \in 1 .. Len(schema) |-> i]
  /\ recorded = ToSet(schema)

(***************************************************************************)
(* No migration is applied that is not missing from the backup its process  *)
(* made before ("before applying pending migrations it writes a clean       *)
(* backup", Migrate), and the backup is a state the database had.           *)
(***************************************************************************)
BackedUp ==
  \A p \in Starter : run[p].done # {} =>
    \E b \in run[p].backup : IsPrefix(b, schema) /\ run[p].done \cap ToSet(b) = {}

(***************************************************************************)
(* Whatever the starts that died, a database is what its records say and     *)
(* can be taken back to what it was before.                                  *)
(***************************************************************************)
StartsAreSafe == TypeOK /\ AppliedInOrder /\ BackedUp
=============================================================================
