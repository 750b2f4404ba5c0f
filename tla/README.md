# A verification of almanaut

Almanaut is an inventory (CMDB) for a homelab: a Go web server over one SQLite
file, with background jobs that probe, notify and synchronise. This directory
holds TLA+ models of its stateful parts, the TLC runs that check them on small
instances, and TLAPS proofs for the properties that matter most.

## The system

| Component | Code | State | Operations | What is hard |
|---|---|---|---|---|
| Ports, NICs, cabling | `internal/store/port_repo.go`, `nic_repo.go`, `web/ports.go` | tables `ports`, `nics` | create, update, delete, generate, import | a link is two rows; an attribution depends on two other rows |
| Import / export | `internal/store/portability.go` | all inventory tables | Export, Import | whole-database replacement from a file that may be inconsistent; an order-dependent pairing loop |
| Webhook queue | `internal/webhook/dispatcher.go` | two channels, workers, timers, a WaitGroup | Dispatch, expand, post, retry, Wait | drops at full channels, retries, a shared counter |
| Entity handlers | `internal/web/resource.go`, `bulk.go`, `csvimport.go`, `journal.go`, `attachment.go`, `customfield.go` | 17 entity tables and the side tables keyed by (type, id); changelog | create, update, delete, bulk, CSV import, tag, relate | side rows without foreign keys; state read before the transaction; events after it |
| Kuma syncer | `internal/kuma` | `kuma_monitors`, the remote monitors | pass, reconcile | lost acknowledgements, crashes between the remote and the local write |
| Job runner | `internal/job/job.go`, `main.go` | a ticker and a trigger channel of capacity one per job | Trigger, pass, stop | coalescing, timeouts, shutdown in the middle of a pass |
| Expiry notifier | `internal/notify` | `notification_state` | pass, send to several channels | partial sends, a crash between the send and the mark |
| Liveness, certificate probers | `internal/liveness`, `internal/certprobe` | `liveness_state`, `cert_probe_state` | probe pass, probe now | a pass that spans an edit or an import; two probes of one row |
| Scheduled discovery | `internal/scheddiscovery` | `discovery_runs` | pass | baseline, record and notification fail one without the others |
| Sessions, login, throttle, 2FA, users, tokens | `internal/web/auth.go`, `throttle.go`, `totp.go`, `users.go`, `tokens.go`, `bootstrap.go`, `proxy_auth.go` | `users`, `sessions`, `api_tokens`, `user_totp`, `totp_pending`, `totp_recovery_codes`, an in-memory failure table | login, verify, set up, revoke, administer | checks before statements, revocation, replay |
| Access gates | `internal/web/server.go`, `auth.go`, `authz.go`, `csrf.go` | none (pure) | what a route group lets through | role, scope, session, proxy header and CSRF token in combination |
| Agent and its ingest | `cmd/almanaut-agent`, `internal/agent`, `internal/agentapi`, `internal/web/agent*.go` | the id file; `host_agents`, `agent_reports`, `hosts` | report, resolve, merge, conflict, unbind | two machines claiming one host, copied ids |
| Migrations | `internal/store/migrate.go` | `schema_migrations`, the backup file | Migrate | a start that dies anywhere, several processes and releases |
| Manual discovery | `internal/discovery`, `internal/web/discovery.go` | the scan's goroutines; what a tab shows | scan, review, import | channels and cancellation; a review that is out of date |
| IPAM, racks, impact, lists | `internal/domain`, `internal/store/impact.go`, `internal/web` | none (pure) | next free address, conflicts, elevation, reachability, sorting | boundaries |
| Other pages, configuration | `internal/web`, `internal/config` | none of their own | rendering, parsing | |

SQLite serialises writers: `store.Open` begins every write transaction with
`BEGIN IMMEDIATE`, so a write transaction never interleaves with another one.
What interleaves is everything a handler does before and after its transaction,
the background goroutines, and other processes (Uptime Kuma, webhook
receivers).

### How the parts interact

* **Handlers → database.** Every web and API handler runs its writes in
  `store.WithTx`. What it read before (the definitions a form was parsed
  against, a session, a list) may be stale by then, and what it does after
  (webhook and sync events) happens when the transaction is already committed.
* **Handlers → webhook queue, Kuma syncer.** After the commit a handler gives
  its events to a `webhook.Multi`, which passes them to the queue and to the
  syncer. Neither blocks: the queue drops at a full channel, the syncer merges
  triggers.
* **Job runner → jobs.** The notifier, the probers and the scheduled discovery
  share `job.Runner`: one goroutine each, a ticker and a channel of size one.
  The Kuma syncer has a loop of its own, without a ticker. The jobs write
  tables that the handlers and the import write too, and take no lock over a
  pass: each statement stands alone.
* **Requests → accounts.** A handler reads the session and its user, then acts
  on what it has read; the throttle is memory shared by all logins. Only
  multi-statement changes run in a transaction.
* **Agents → hosts.** A report is one transaction over the host, its binding
  and the report, run again when the lock is not to be had; a conflict is
  stamped by a statement of its own after the rollback.
* **Import → everything.** `store.Import` replaces the whole inventory in one
  transaction, keeps the changelog, the attachments and `kuma_monitors`,
  empties the derived tables of the jobs, and dispatches no event.
* **Shutdown.** `main.go` stops the server, waits for the jobs and then for the
  webhook queue, all under one deadline.

### What makes each component correct

| Component | Correct means | Modelled in |
|---|---|---|
| Ports, NICs, cabling | a cable is on both ends, is never stolen, and a port sits on a card of its own machine | `PortLinks`, `Cabling` |
| Import / export | an export can always be imported and comes back as it was; the loop pairs or fails as documented; nothing points at what is not there | `PortFile`, `PairPortLinks`, `PortLinks`, `EntityStore` |
| Webhook queue | `Wait` returns exactly when everything has ended; attempts are bounded; broken receivers do not starve healthy ones | `WebhookQueue` |
| Entity handlers | no orphaned rows, a changelog that agrees with the tables, exactly one event per committed creation, deletion and update of an entity's own columns | `EntityStore` |
| Kuma syncer | no orphaned monitors, nobody else's monitor touched, repairs after any failure, no change missed | `KumaSync` |
| Job runner | every trigger leads to a pass that starts after it; a clean shutdown cuts no pass between a send and its mark | `Jobs` |
| Expiry notifier | marked is what has reached every channel, and what has is marked; what goes on expiring is notified | `Jobs` |
| Liveness prober, scheduled discovery | what the tables show as known has been announced; statuses settle | `Jobs` |
| Certificate prober | a certificate and its last good probe agree on the date | `Jobs` |
| Accounts | an admin remains; sessions, tokens and codes are of users that exist; a password change ends the sessions from before it; a TOTP step that was accepted neither logs in nor turns the factor off; a lock holds under concurrent attempts | `Accounts` |
| Access gates | each request reaches what the documents grant it (editors, custom field definitions besides), and a database failure is an error, not an anonymous user | `Gates` |
| Agent ingest | hosts and agents stay paired and do not change hands; a 409 means a clone; clones never write | `AgentIngest`, `Bindings` |
| Migrations | the schema is what is recorded, in order, and there is a backup from before | `Migrations` |
| Manual discovery | a scan returns and lists who answers; an import adds what is missing, once, on the right node | `Scan`, `Discovery` |
| IPAM | all views follow one set of rules: the next free address is free of what the code can parse, counts add up | `Ipam` |
| Racks, impact, duplicates, lists | nothing is hidden, missed or dropped; uniform columns are sorted | `Panels` |

## The modules

| Module | Models | Kind |
|---|---|---|
| `PortFile` | the port and NIC lists of a snapshot file: which are accepted, what becomes of their links | operators |
| `PairPortLinks`, `MCPairPortLinks` | the loop of `pairPortLinks`, one step per port | specification, TLC instance |
| `PortLinks`, `MCPortLinks`, `PortLinksProofs` | the tables `ports` and `nics` and every statement that writes them | specification, TLC instance, proofs |
| `Cabling` | what the port table promises: ends, a matching on them, and writes that move the cables of their own port only | abstract specification |
| `WebhookQueue`, `MCWebhookQueue`, `WebhookQueueProofs` | dispatcher, expander, workers, timers, `Wait` | specification, TLC instance, proofs |
| `EntityStore`, `MCEntityStore`, `EntityStoreProofs` | entity handlers, side tables, changelog, events | specification, TLC instance, proofs |
| `KumaSync`, `MCKumaSync`, `KumaSyncProofs` | the sync with Uptime Kuma | specification, TLC instance, proofs |
| `Accounts`, `MCAccounts`, `AccountsProofs` | users, sessions, tokens, second factor, throttle | specification, TLC instance, proofs |
| `AgentIngest`, `MCAgentIngest`, `AgentIngestProofs` | agents, reports, conflicts, merges | specification, TLC instance, proofs |
| `Bindings` | what `host_agents` promises: a pairing that never changes hands | abstract specification |
| `Jobs`, `MCJobs`, `JobsProofs` | the process, the job runner and its four jobs | specification, TLC instance, proofs |
| `Migrations` | processes that migrate one database | specification |
| `Scan` | the goroutines of a subnet scan | specification |
| `Discovery` | scan or query, review, import, from several tabs | specification |
| `Gates`, `Ipam`, `Panels` | the middlewares; address management; elevation, impact, duplicates, lists | operators |
| `Algorithms`, `AlgorithmsProofs` | `PairPortLinks`, `Migrations`, `Scan`, `Discovery`, `Gates`, `Ipam` and `Panels` side by side, a topic each | composition, proofs |
| `MCAlgorithms` | small values for `Algorithms`, and what the pages and reports are asked | TLC instance |

Operators whose comment starts with "Faulty:" are plausible bugs. Nothing of a
specification uses them: each stands beside the definition it is a wrong
version of, and replacing the right one by it breaks the property that guards
it. `PROJECT.json` maps every other definition to the lines it models.

### Ports (`PortFile`, `PairPortLinks`, `PortLinks`, `Cabling`)

A port's cable is its `peer_port_id`, stored on both ports; its card is
`nic_id`. One action of `PortLinks` is one write transaction: transactions are
serialised, and one that fails is rolled back, so it is an action that does not
occur.

| Code | Action |
|---|---|
| `PortRepo.Create`, `Update` with `checkNIC` and `connect` | `CreatePort`, `UpdatePort` |
| `PortRepo.Delete` | `DeletePort` (the far end is freed) |
| the batch of `web/ports.go` | `GeneratePorts` |
| `NICRepo.Create`, `Update`, `Delete` | `CreateNIC`, `UpdateNIC`, `DeleteNIC` |
| `store.Import`, the two tables of it | `Import` |

The API, the forms, the CSV import and the bulk actions run these operations in
sequence inside one transaction, so they reach no state that the single
operations do not. The unique index on `peer_port_id` is not a guard of the
model: `LinkSymmetry` implies it, so the statements never run into it. Deleting
a host or a hardware item leaves the owner columns of its ports and NICs as
they are (soft references), so it is no action here.

`pairPortLinks` has a module of its own because the loop's outcome depends on
the order of the file: `LoopMeetsReference` compares it with `Pairable` and
`Paired`, which say without a loop what it accepts and returns and which
`PortLinks!Import` uses.

`Cabling` knows no columns. A write of it (`Install`, `Plug`, `Unplug`,
`Remove`) is about one port, or a batch of new ones, and leaves every cable that
does not end in that port; `Replace` puts a whole plant in place, one of the
constant `Plants`. `PortLinks` gives `Plants` the plants of the accepted files
(`FilePlants`), and `CablingSpec` adds that only an import may act as `Replace`
(`OthersCablesStay`): a request that mended another port's row behind a stolen
cable would keep the links symmetric and still not refine `Cabling`.

### Webhook queue (`WebhookQueue`)

The variables are the two channels (`events`, `jobs`), what each goroutine has
in hand (`expanding`, `targets`, `posting`, `backoff`), the `attempt` field of
a job and the counter of the `WaitGroup`. The steps are those between which the
goroutines really interleave: `wg.Add` and the send of `Dispatch` are two
(`DispatchAdd`, `DispatchSend`), and each endpoint that `expand` handles is
one. The backoff delays are left open, so a timer may fire at once or very
late. What the payload, the signature and the filters are does not matter;
`Matching` gives the endpoints a filter lets through, and a failed list or a
panic in `expand` may leave out any of them. `Wait` is one step from blocked to
returned.

### Entity handlers (`EntityStore`)

`db` is what is committed, `work` what the open transaction sees, `lock` whose
transaction it is. A request parses (`ParseFields`), begins, runs one or more
operations (`Create`, `Update`, `Delete`, `BulkTag`), commits or rolls back,
and dispatches the events it gathered. That is `createEntity`, `updateEntity`
and `deleteEntity` with one operation and `bulk` and `importCSV` with several.
The transactions of one operation and no event are one step each: tags, journal
entries, attachments (`Attach`, `Detach`), relationships (`Relate`,
`Unrelate`), custom field definitions, the YAML import, the discovery imports
(`Discover`), `acknowledgeStale` (`Acknowledge`) and `unbindAgent` (`Unbind`).

An entity is a type and an id; its columns are one value. A changelog row tells
of an entity and an action and, for an update, of what it changed: the columns,
the tags (`bulkTag`) or the agent (`unbindAgent`). The history variables are
`pending` and `sent`: events are named by the changelog row they tell of.
`EventsMatchHistory` says that they are exactly the rows "create", "delete" and
"update" of the entity's own columns. The other rows have no event, and the code
gives them none: discovery writes "import", although `README.md:65` speaks of
webhooks "on entity create/update/delete", and `bulkTag` writes an update of the
tags, although `docs/lists-and-views.md:71-74` says that "Webhooks fire per
entity" (see "Noted while modelling"). Left out: the de-duplication of addresses
in the network import, and duplicate ids in a file (refused before anything is
written).

### Uptime Kuma syncer (`KumaSync`)

| Code | Action |
|---|---|
| entity handlers: commit, then `Dispatch` | `Commit`, `Dispatch` |
| "Sync now" | `SyncNow` |
| YAML import (no event) | `Import` |
| `Start`, and `reconcile` up to its plan | `StartPass`, `ListServices`, `Connect` |
| the actions `reconcile` carries out | `Add`, `Put`, `PutFails`, `Cleanup`, `CleanupFails`, `Edit`, `EditRefused`, `Delete`, `DropRow` |
| the end of a pass | `Finish`, `PassFails`, `RequestFails` |
| the process ends and starts again | `Restart` |
| Kuma and its users (external) | `ByHand`, `Arrive`, `Vanish` |

A pass reads the services, its rows and Kuma's list at different times and uses
them much later. A request whose answer does not come is put into `wire`, where
it arrives late or never. Only the syncer writes `kuma_monitors`, so its read
is merged with the connect. Name and URL of a monitor are one target. Panics in
a pass are not modelled: no input that causes one is known. Kuma numbers
monitors 1, 2, ... and does not reuse a number, which is how its database
behaves.

### Accounts (`Accounts`)

A request is a handler and what it has read: `At(place, user, id, password,
step)`. The steps are its statements and the critical sections of the throttle.

| Code | Action |
|---|---|
| `BootstrapAdmin`; the process ends | `BootFirst`, `Boot`, `BootReset`; `Stop` |
| `login`: throttle, password, 2FA, ticket or session, success | `LoginBegins`, `LoginFails`, `PasswordRight`, `AskFactor`, `GiveTicket`, `OpenSession`, `LoginSucceeds` |
| `verify2FA`, `verifySecondFactor` | `VerifyBegins`, `UseStep`, `UseRecoveryCode`, `CodeFails`, `VerifySucceeds`, `DeletePending`, `OpenSession` |
| `setup2FA`, `confirm2FA`, `disable2FA` | `SetupBegins`, `SetSecret`; `ConfirmBegins`, `Confirm`; `DisableBegins`, `UseStep`, `UseRecoveryCode`, `CodeFails`, `Disable` |
| `changePassword`, `logout`, `createToken`, `deleteToken` | `ChangeBegins`, `ChangePassword`; `Logout`, `CreateToken`, `DeleteToken` |
| `createUser`, `updateUserRole`, `deleteUser`, `resetUserPassword`, `resetUser2FA` | `AdminBegins`, then `CreateUser`, `UpdateRole`, `DeleteUser`, `ResetPassword`, `Reset2FA` |
| `provisionProxyUser`; a lock, a session or a ticket lapses; a statement fails | `Provision`; `Lapse`, `Expire`; `GiveUp` |

Sessions carry, for history, the password that the login verified (`pw`) and the
one in force when the row was inserted (`since`; `None` once a change has spared
the session on purpose: the one that asked for it, all of them on a reset at
start). `SessionsAreCurrent` is about `since`: every session that was not spared
was inserted after the last change of its user's password. It does not say that
`pw` is the password in force, and that is not so: `login` reads the hash and
inserts the session later (`auth.go:187`, `auth.go:230`), and a ticket of the
second factor outlives the change, so a login that a change overtakes opens a
session on the old password, which lasts until the next change. The run reaches
such sessions, and those of later changes revoke them.

`CodesCountOnce` is about the two requests that a code lets through, logging in
and turning the factor off: neither is let through with a step that was accepted
before, by one of them or by a confirmation. A confirmation itself is not held
to it, since `confirm2FA` drops the answer of `UseStep` (`totp.go:165-173`).
An editor is a viewer here, since neither administers users.

### Agents (`AgentIngest`, `Bindings`)

A run of the agent reads or makes its id (`Begin`, `WriteId`), collects and
posts (`Send`), may be killed (`Killed`). The server opens the transaction and
decides (`Open`, with `IsClone` and `Matching` for `Resolve`), writes
(`Commit`), or stamps a conflict after the rollback (`Stamp`, `StampFails`).
`OpenFails`, `CommitFails` and `ServerDies` are the failures; unbinding,
deletion, import, renames, new network cards and copied, lost or reset id files
come in between. `KeepsBindings` states that all this implements `Bindings`.

### Jobs (`Jobs`)

`loop`, `tick`, `trigger` and `expired` are `job.Runner`'s loop per job;
`phase` is the process. Each pass is a series of statements, dials and sends
with what it keeps in its variables (`note`, `probe`, `check`, `scan`):

| Code | Action |
|---|---|
| `main.go`, `Runner.Start`, `Stop`, a crash | `Start`, `Signal`, `CleanExit`, `Dies` |
| the loop of a job | `Tick`, `Trigger`, `TakeTick`, `TakeTrigger`, `SelectDone`, `PassTimesOut` |
| `notify` | `Gather`, `Decide`, `ClearMark`, `Send`, `Mark`, `NoteFails`, `NoteDone` |
| `certprobe`, and "Probe now" | `ProbeList`, `ProbeNext`, `PriorState`, `DialTLS`, `RecordFailure`, `RecordProbe`, `ProbeWriteFails`, `ProbePassEnds`, `ProbeNow` |
| `liveness` | `CheckList`, `Dial`, `ReadPrior`, `StoreStatus`, `CheckFails`, `Notify`, `CheckPassEnds` |
| `scheddiscovery` | `Scan`, `ScanFails`, `FreshKeys`, `Record`, `Finish` |
| people and the world | `Edit`, `Delete`, `Import`, `World` |

### Migrations, scan, discovery

`Migrations`: a process reads what is recorded (`Read`), makes its backup
(`Backup`), applies and records one migration per transaction (`Apply`), and
may die before any of these (`Dies`); another process, perhaps of another
release, starts whenever it likes. `Scan`: the feeder, the workers, the closer
and the caller, handing over on unbuffered channels, and a context that ends at
any moment. `Discovery`: a tab shows what was found when it was found; the
import looks at the tables, and for Proxmox at the cluster, again.

### Pure parts (`Gates`, `Ipam`, `Panels`)

`Gates!Handle` composes the middlewares of each route group as `New` does and
is compared with `Granted`, the policy of `docs/authentication.md`,
`docs/inventory-model.md` and `docs/api.md` in one formula. The code grants one
thing more, which `EditorDefines` names: editors change the definitions of
custom fields. `Ipam` computes attribution, usage, the next free
address and the conflicts on addresses of a few bits; `AddressesAddUp` says
that the views agree with one another and with sets of addresses. A reservation
or a gateway that is stored with spaces around it (`padded`) passes its
`Validate`, which trims, and is nothing to the code that uses it, which does
not; what the properties call reserved is what parses (`Parsed`, `Gateway`).
`Panels` has the elevation, the breadth-first walk of the impact page (against
the closure of the relation), the duplicates panel and the filtered and sorted
list.
`Tables`, `Occupants`, `IsList` and `Rows` say what can be in the tables once
the code has validated it; `Algorithms` assumes it of what the pages are asked,
and TLC evaluates that assumption for every question of the run. The loops are
recursive functions over the numbers of their turns: `Size` doubles once per
bit, `walk` takes one entity off the queue, `out` inserts one row. The sort is
the insertion sort that `sort.SliceStable` is up to 20 rows; for a column of
numbers only, or of texts only, a stable sort has one result, so the length
matters for the mixed columns of finding 3 alone. A cell that parses as "not a
number" is left out of `Rows`.

## The runs

`tlc -config <cfg> <module>`; times are for two workers.

| Run | Instance | Shows |
|---|---|---|
| `port_links` | 4 ports, 1 NIC, 2 hosts, 1 switch, 23 files; 15 476 states, 2 1/4 min | `TablesConsistent` (types, links on both ends, NICs in their machine), no stolen cable, round trip, refinement of `Cabling` (a write moves its own port's cables only) |
| `pair_port_links_doc` | every valid file of up to three ports on a host and a switch, in every order (493 files) | **finding 1** |
| `webhook_queue` | 2 events, a healthy and a broken endpoint, 2 workers, channels of 1, 2 attempts | `WaitIsExact` (counter and `Wait`), `DeliveriesInTurn` (one post at a time, bounded attempts), final ends; `Wait` ends, healthy endpoints are served |
| `entity_store` | 2 requests, 2 entities, 1 definition, tags and attachments, 2 values, 3 changelog rows; 2.2 million states, 2 1/2 min | no orphaned side row; `HistoryIsTrue` (changelog, tables and events agree); the changelog only grows |
| `entity_dangling` | the same module, smaller | **finding 2** |
| `kuma_safety` | 2 services, 2 targets, 4 monitors, 1 commit, 2 faults, 1 change by hand; 3 million states, 100 s | `MonitorsAccounted` (no orphans, no shared monitors), nothing missed, hand-made monitors untouched |
| `kuma_liveness` | 1 service, 2 targets, 6 monitors, 1 commit, 2 faults, 1 by hand; 40 s | triggers are served, failures are repaired |
| `accounts` | 2 users, 2 requests, 2 ids, 2 passwords, a threshold of 2, 2 time steps, 1 recovery code; one session, token or ticket at a time once a second factor is set up or a failed login is counted; 1.2 million states, 2 to 3 min | an admin remains; `RowsAreCurrent` (rows of users that exist, no session from before a password change); codes count once; locks hold |
| `jobs` | each job alone: 1 certificate, 2 targets, 2 channels, 2 findings, 1 event, 2 faults; 196 462 states, 2 1/2 min | `MarksAgree`, `ProbesAgree`, `NothingIsSkipped`; triggers are served, expiry is notified, statuses settle |
| `agent_ingest` | 2 machines, 2 runs, 3 ids, 2 hosts, 2 names, 2 cards, 1 address; 2 changes, or a change and a fault; 1.6 million states, 2 1/2 min | `VerdictsStand` (a 409 means a clone), the newest report is the bound machine's, clones keep out, refinement of `Bindings` |
| `algorithms` | the 493 port files; networks of 4 bits, with padded rows; every request of the gates; racks of 3 units; 3 relations; lists of 3 rows; 2 processes and 3 releases; 3 addresses and 2 workers; 2 tabs; 732 230 states, 1 1/2 min | `LoopMeetsItsReference`, `PassedPortsPaired`, `AddressesAddUp`, `GatesHold`, `PanelsShowAll`, `StartsAreSafe`, `ListsTheAlive`, `ScanReturns`, `ImportsAddTheMissing` |
| `list_sorting` | the lists of `algorithms` | **finding 3** |

A property that joins several says so in its comment; its parts are definitions
of their own, so a counterexample can be traced to one of them. Each property
of a passing run has a mutant: a faulty version of one definition under which
TLC finds the property violated.

All runs switch the deadlock check off: the models stop when a bound is used up
(every event dispatched, every id given out, the changelog full), and the
webhook queue really is idle when all is delivered.

**Bounds, and why they are enough.** Moving a cable involves the port, its old
peer, its new peer and that one's old peer: four ports. The loop of the import
acts on a port, its peer and a third one that claims the same peer: three. A
leak of the `WaitGroup` needs one drop at a channel of size one, one retry and
one other worker. A lost event needs a second request that commits between the
first one's commit and dispatch, hence two requests, and an entity that is
created, changed and deleted: a changelog of three rows. An orphaned monitor
needs one interrupted creation and one later pass; two faults allow a failed
write whose cleanup fails, or a lost answer and a restart; six monitors are
more than one service can use up under two faults and one change by hand, so
Kuma's bound never blocks a pass in the liveness run. The last admin needs two
admins and two requests that demote or delete; a lock needs two attempts that
pass it together; the proofs say the same for any number. A constraint keeps
the accounts apart where they do not meet: once somebody has a second factor or
a failed login is counted, one session, token or ticket at a time, and in the
latter case no one who administers, since the throttle looks at none of it; of
users without a factor two sessions are open at once. The jobs share no
state but the process, so each runs alone; a notification needs two channels,
of which one fails, and two faults allow a failed send followed by a crash.
A stolen binding needs two machines, one id file that is copied or lost, and
two reports that overlap; a report kept per host is the smallest history (the
code keeps thirty; the proofs hold for any number). Two processes and three
releases let an older release start after a newer one. The graphs, racks,
networks and lists are the smallest in which a cycle, a boundary and a tie
occur. Ids that symmetry is used for occur in no order or arithmetic; the
liveness runs use no symmetry.

**Fairness.** `WebhookQueue!Fairness` is weak fairness of each goroutine: the
select of `Dispatch` and of the enqueue does not block, the expander and the
workers loop over their channels, an HTTP attempt ends because the client has a
timeout, and `time.AfterFunc` fires. Nobody has to dispatch or call `Wait`.
`KumaSync!FairSpec` is weak fairness of a pass (it runs under `passTimeout`, so
no call hangs) and of a handler that has committed and still has to dispatch.
Nothing is assumed of users, of Kuma or of faults; `RepairedInTheEnd` is about
runs in which syncs keep being requested (by changes of services or "Sync
now"), since the syncer has no ticker: without a request, a failed pass is not
repeated. `Jobs!Fairness`: a stopped process is started again and a stopping one
ends (its supervisor and its deadline), tickers tick, a loop goes on with its
pass or its select (statements, dials and sends have timeouts), and a select
that finds several cases ready again and again takes each in the end (Go picks
one at random: strong fairness of the trigger and of the end of the context).
`MCAlgorithms`: the goroutines of a scan go on, since dials have a timeout;
nobody has to end the context.

## What is proved

Each `...Proofs` module proves properties of its specification for every value
of the constants that satisfies the named assumptions, which TLC evaluates in the
runs. They say that `None` and its like are no ids and that kinds of ids do not
mix (`NoneAssumption`, `NobodyAssumption`, `UnusableAssumption`,
`IdleAssumption`, `OwnerAssumption`, `KindsAssumption`); that bounds are natural
numbers and a threshold, a retention or an attempt is at least one
(`BoundsAssumption`, `RetentionAssumption`, `ReleasesAssumption`); that a network
small enough to be walked is small enough to be counted, 16 and 31 in the code
(`BitsAssumption`); that there is a worker, a channel, an administrator's name
(`WorkerAssumption`, `ChannelAssumption`, `AdminAssumption`); that what a scan
and Proxmox answer is finite (`AddressAssumption`, `ClustersAssumption`); that
lists, files and tables are as the code makes or validates them
(`IpsAssumption`, `FilesAssumption`, `QuestionsAssumption`); and the rest what
type a constant has. An
invariant is proved from an inductive one: it holds at the start, each action
preserves it (one lemma per action or group of actions), and it implies the
property.

| Theorem | Says |
|---|---|
| `PortLinksProofs!TablesAreConsistent`, from `TypeCorrect`, `LinksAreSymmetric`, `NICsAreInOwnersMachine` | `TablesConsistent` |
| `PortLinksProofs!CablesAreNotStolen`, `ExportsRoundTrip` | `NeverRecabled`; every export, in any order, is accepted and restores the tables |
| `PortLinksProofs!TablesImplementCabling` | `PortLinks` refines `Cabling` |
| `AlgorithmsProofs!LoopPairsPassedPorts`, `LoopIsItsReference` | `PassedPortsPaired`; `LoopMeetsItsReference`: the loop fails on the files the reference refuses and no others, and computes its peers and its count (for finite files) |
| `WebhookQueueProofs!WaitStaysExact`, from `QueueTypeCorrect`, `CounterIsRight`, `WaitMeansDone` | `WaitIsExact` |
| `WebhookQueueProofs!DeliveriesTakeTurns`, from `AttemptsAreBounded`, `PostsAreExclusive`; `EndIsFinal` | `DeliveriesInTurn`; `EndedStaysEnded` |
| `EntityStoreProofs!HistoryStaysTrue`, from `StoreTypeCorrect`, `HistoryIsRight`, `EventsAreRight` | `HistoryIsTrue` |
| `EntityStoreProofs!ChildrenAreKept`, `HistoryIsAppended` | `ChildrenHaveEntities`, `HistoryIsKept` |
| `KumaSyncProofs!MonitorsStayAccounted`, from `SyncTypeCorrect`, `NoOrphansRemain`, `RowsStayDistinct` | `MonitorsAccounted` |
| `KumaSyncProofs!QuietIsSynced`, `HandMadeStayUntouched` | `QuietMeansSynced`, `HandMadeUntouched` |
| `AccountsProofs!AnAdminRemains`, `RowsStayCurrent`, `CodesCount`, `LocksHold` | `AdminRemains`, `RowsAreCurrent`, `CodesCountOnce`, `LockHolds` (the last for finitely many requests) |
| `AgentIngestProofs!VerdictsAlwaysStand`, `ReportsAreTheMachines`, `ClonesStayOut`, `IngestKeepsBindings` | `VerdictsStand`, `NewestReportIsBound`, `ClonesKeepOut`; `AgentIngest` refines `Bindings` |
| `AlgorithmsProofs!SchemaIsAsRecorded`, `StartsStaySafe` | `StartsAreSafe`, for any processes and releases |
| `AlgorithmsProofs!ScanListsTheAlive` | `ListsTheAlive`, for any number of workers and addresses |
| `AlgorithmsProofs!EveryRequestIsGated` | `GatesHold`, for every request and any set of CSRF tokens |
| `AlgorithmsProofs!ImportsAddWhatIsMissing` | `ImportsAddTheMissing`, for any tabs, hosts and clusters |
| `AlgorithmsProofs!AddressesAlwaysAddUp` | `AddressesAddUp`, for any networks, hosts and ranges, any width of an address and any limits |
| `AlgorithmsProofs!PanelsAlwaysShowAll` | `PanelsShowAll`, for any rack, relation, inventory and list |
| `AlgorithmsProofs!PartsKeepTheirPromises` | the parts' properties, of every behaviour of `AllSpec`, the specification of the run `algorithms` |
| `JobsProofs!MarksAlwaysAgree`, `ProbesAlwaysAgree`, `NothingIsEverSkipped` | `MarksAgree`, `ProbesAgree`, `NothingIsSkipped`, for any targets, channels and findings |

The inductive invariants, and what they add to the properties:

* `PortLinks`: that the columns of ids without a row are `None` (a peer could
  otherwise come back to life with its id) and that symmetry holds of them too.
  The refinement needs nothing else: each write maps to `Install`, `Plug`,
  `Unplug` or `Remove` of the port it names, an import to `Replace` of the plant
  of its file.
* `WebhookQueue`: that an event and a delivery are in one place at a time.
  Without it the counter cannot be tied to the sizes of channels and sets: a
  delivery twice in `backoff` would be counted once and hold two slots.
* `EntityStore`: everything said of the committed tables is said of the open
  transaction's copy as well, the copy's changelog extends the committed one,
  and the events gathered are the rows added.
* `KumaSync`: whose monitors the numbers in rows, plans and late requests are;
  that the plan still fits the rows it was made from; and that, while a pass is
  on its way, each service is in order, on the plan, or due for another pass.
* `PairPortLinks`: where each peer comes from (read, cleared or completed by a
  passed port), that both ends of a passed port's link are as it named them,
  and that the passed ports are those before the rest in the file.
* `Accounts`: that a server that is up has users, so that an admin who has been
  demoted or deleted meanwhile cannot have been the last one; what a request
  has read at each place, which is not that a password is still in force; and
  that the accepted steps are no later than the last one. A lock loses an
  attempt for each failure it counts.
* `AgentIngest`: that an open transaction is the only one, so that what it has
  read of the bindings still holds when it writes. From it follows that the
  unique index on the agent never refuses anybody.
* `Migrations`: what a process still has to apply is all that is not recorded
  of its release below which nothing is missing, and its backup is its own.
* `Jobs`: what a pass has read and not yet used. What is still to be sent is
  not marked; the row that a prober will write back is a row; the prior status
  of a target is one that was announced or lost; what a finding run holds for
  known was announced or lost. The properties themselves are then inductive.
* `Scan`: every address is in one place (still to be fed, with one worker, or
  listed), none that answers is lost while the context lives, and what is
  closed tells how far the others are: jobs before workers leave, workers before
  results. That the list is complete is seen only at the end, so it says
  nothing of the steps before.
* `Discovery`: what a tab shows was untracked among the hosts it saw, what a
  submit has asked for is finite and has no id that stands for a scan, and no
  host has an id that is still to come. The three parts of
  `ImportsAddTheMissing` are then proved of each step.
* `Gates` has no state: what each middleware does is a lemma, and the groups
  are compared with `Granted`, and `EditorDefines`, one by one.
* `Ipam` has no state either. `Size` is shown to be a positive number for every
  width, the cut of a walk after `Size + 1` steps to lose no address of the
  network, and the counts to be those of sets, for tables with padded rows as
  well. A set without two others and one
  element more has at most one member fewer than the difference of their sizes,
  which is why the free count can be too high by the gateway and no more.
* `Panels`: of the walk, after every turn, that the result lists distinct
  entities, none of them the start; that those no longer queued have all their
  dependents in it; that each is `Affected`; and that a turn was spent on each
  one taken off the queue, so that the queue is empty after as many turns as
  there are relationships, and one. Of the list, after every row, that it has
  the wanted rows so far, each once, and in order.

The three recursive functions are proved about without an induction theorem
that takes an operator: the set of the numbers for which a claim fails would
have a least element (`NatLessThanWellFounded`, `WFMin`), and there the claim
follows from the one before.

**Only model-checked:** the liveness properties (`WaitEnds`,
`HealthyDelivered`, `RequestsAreServed`, `RepairedInTheEnd`,
`TriggersAreServed`, `ExpiryIsNotified`, `StatusSettles`, `ScanReturns`), since
liveness under fairness is beyond the proof system used. Every safety property
that a passing run checks is also a theorem.

## Findings

1. **An import that depends on the order of the file** (`pair_port_links_doc`).
   Port 1 names port 2, port 2 names an absent port 3. Listed 2, 1 the dangling
   link is cleared and the file is accepted; listed 1, 2 the import fails,
   although no two ports name the same peer as `docs/export-import.md:51` and
   the loop's comment require.
2. **Rows that point at nothing** (`entity_dangling`). The Docker import
   relates new services to a host id taken from its form, while
   `createRelationship` does check both ends and comments rely on it; and
   `parseCustomFields` reads the definitions before the transaction, so that
   `SetForEntity` stores a value of a definition that is gone.
3. **A sorted column out of order** (`list_sorting`). Two numbers are compared
   as numbers, anything else as text. Over a mixed column that is no order:
   10, 1x, 9 stays as it is.

Noted while modelling. These are not among the findings, each of which has a run
that shows it. The first five are at odds with a document or a comment; the
properties are stated around them, and say so:

* **Bulk tagging fires no webhook.** `bulkTag` (`bulk.go:88-116`) records an update
  for each entity it tags and dispatches nothing; `docs/lists-and-views.md:71-74`
  says of the bulk actions that "Webhooks fire per entity".
* **A login overtaken by a password change.** It verifies the old password and
  opens its session after the change has revoked the others, and so does a ticket
  of the second factor. `docs/authentication.md:25-27` says that a session stolen
  before the change does not survive it; this one comes after.
* **A used code confirms an enrolment.** `confirm2FA` ignores what `UseStep` says
  (`totp.go:165-173`), so that a code confirms twice and replaces the recovery
  codes; `docs/authentication.md:75-78` says a code used "to log in, confirm
  enrollment or turn 2FA off" is refused afterwards.
* **Reservations and gateways with spaces.** `Reservation.Validate`
  (`reservation.go:26-30`) and `Network.Validate` (`network.go:30`) trim before
  they parse, `reservedAddrs` and `buildUsage` (`ipam.go:260-264`, `ipam.go:182`)
  do not. Stored by the JSON API or an import, such a row reserves nothing and
  its addresses are suggested as free; `docs/inventory-model.md:79-82` says that
  reserved addresses are skipped.
* **Custom field definitions.** `docs/authentication.md:14` and
  `docs/inventory-model.md:104` give them to admins; the routes
  (`server.go:818-821`) are in the catalog's group, which lets editors write.

The others are promised otherwise by no document, or pass:

* `acknowledgeStale` (`health_report.go:192`) checks and writes in two
  statements: an entity that is deleted in between leaves a changelog row.
* `certprobe.go:124` writes the whole row as read at the start of the pass and
  so undoes edits made during the dials before.
* `liveness.go:159`: after an import an entity with an old id may be announced
  against the status of the one before it.
* `notify.go:113` calls `Run` the sole writer of its table; an import clears it.
* `docs/integrations.md:16` says a notification goes "once per configured
  channel"; when one channel fails, the others get it again.
* A conflict is stamped on whatever is bound by then; a late stamp stays until
  the next accepted report.
* The first two runs of an agent on one machine may each make an id; the later
  rename wins.
* With nested networks the next free address of the outer one may be used by a
  host of the inner one. A host that lists an address twice is a conflict on
  the page of its network and not in the health report.
* An occupant wholly above its rack is drawn on the top unit, flagged as out of
  bounds.
* `Discovery` knows one spelling of an address. The run `jobs` has one event, so
  an edit and an import in one pass of the certificate prober are covered by
  `ProbesAlwaysAgree` alone.
* A scan whose context ends returns the hosts found so far and no error.

## Not modelled

* **Rendering** of pages, the API's encoding and OpenAPI, the dashboard and
  search only read; of the pages the panels that compute something are in
  `Panels`.
* **Configuration and wiring** happen once and fail at start. The shutdown
  sequence is in `Jobs` and `WebhookQueue`.
* **The Docker review**, which links services to a host by its name; its
  transaction is in `EntityStore`.
* **The agent's collectors** and the protocols of channels, of Kuma's socket
  and of TLS: what they yield is an input of the models.
* **Hashes, cookies and the arithmetic of codes** are data in `Accounts`; the
  window in which a code matches is left open.
* **Bodies of handlers**: parsing and validation of fields decide whether an
  action occurs and are left open.
* A handler that outlives the server's shutdown and dispatches while `Wait` is
  being released (`main.go:297`): `Wait` is one step in the model.
* Actions that Kuma refuses for ever: faults are bounded in `KumaSync`.

## Plan

What would come next, in this order:

1. The safety halves of the liveness properties, as lemmas that a liveness proof
   would rest on: that the steps which fairness is asked of are possible until
   the goal is reached, and what decreases with each.
2. The jobs together with the import and the entity handlers on one set of
   tables, instead of the import's effect on each job's table.
3. The Docker review, and the agent's collectors as far as they merge facts.

Runs stay at two or three actors and a few rows per table, small enough to
finish in minutes; each new invariant is checked by TLC before it is proved.
