------------------------------ MODULE KumaSync ------------------------------
(***************************************************************************)
(* The Uptime Kuma sync (internal/kuma): the syncer's reconcile passes,     *)
(* which turn the services of almanaut into monitors of an Uptime Kuma      *)
(* server, beside the handlers that change services, the people who change  *)
(* monitors by hand, a connection that loses answers and may deliver a      *)
(* request late, and restarts.                                              *)
(*                                                                          *)
(* A pass reads the services, the kuma_monitors table and Kuma's monitor    *)
(* list at different times, plans on them, and then carries the plan out    *)
(* one network call and one table write at a time.                          *)
(*                                                                          *)
(* The name and the URL of a monitor are one Target. A service without an   *)
(* http URL, like one that does not exist, has the target None. Kuma is     *)
(* external: it numbers its monitors 1, 2, ... and never reuses a number.   *)
(***************************************************************************)
EXTENDS Naturals

CONSTANTS
  Service,      \* service ids, numbers: a plan is carried out in their order
  Target,       \* what a monitor may watch
  MaxMonitors,  \* bound on the monitors Kuma ever makes
  MaxCommits,   \* bound on the changes of services
  MaxFaults,    \* bound on the failed steps, lost answers and restarts
  MaxByHand,    \* bound on what people do in Kuma
  None          \* no target, no monitor

ASSUME ServiceAssumption == Service \subseteq Nat
ASSUME BoundsAssumption == {MaxMonitors, MaxCommits, MaxFaults, MaxByHand} \subseteq Nat
ASSUME NoneAssumption == None \notin Target \cup Nat

Monitor == 1 .. MaxMonitors
Kind == {"create", "edit", "delete", "forget"}

\* An entry of a plan. mon is the monitor of the service's row, None if it has
\* no row; target is what the monitor shall watch, None for delete and forget.
Action == [kind : Kind, svc : Service, mon : Monitor \cup {None}, target : Target \cup {None}]

VARIABLES
  want,     \* the services table: each service's target
  owed,     \* service changes that are committed and not yet dispatched
  trigger,  \* the syncer's channel of size one holds an item
  mapping,  \* the kuma_monitors table: each service's monitor
  kuma,     \* Kuma's monitors: what each watches, None for one that is not there
  issued,   \* monitor numbers Kuma has given out
  wire,     \* requests given up by the syncer that may yet reach Kuma
  pc,       \* what the syncer does next
  seen,     \* the services as the pass listed them
  todo,     \* the entries of the plan that are not carried out
  fresh,    \* a monitor that is made and has no row yet
  last,     \* how the last pass ended
  \* History, read by the properties only:
  born,     \* monitors that almanaut asked for
  lost,     \* those of them whose number never reached the table
  missed,   \* services changed by a YAML import since the last listing
  touched,  \* monitors that others, or late requests, changed since the last
            \* monitor list
  spent     \* how much of each bound is used

kumaVars == <<kuma, issued, wire, touched>>
passVars == <<pc, seen, todo, fresh, last>>
vars == <<want, owed, trigger, mapping, kumaVars, passVars, born, lost, missed, spent>>

Unseen == [s \in Service |-> None]
Absent == [m \in Monitor |-> None]

Init ==
  /\ want \in [Service -> Target \cup {None}]
  /\ owed = 0 /\ trigger = FALSE
  /\ mapping = [s \in Service |-> None]
  /\ kuma = Absent /\ issued = 0 /\ wire = {}
  /\ pc = "list" /\ seen = Unseen /\ todo = {} /\ fresh = None /\ last = "none"
  /\ born = {} /\ lost = {} /\ missed = {} /\ touched = {}
  /\ spent = [commits |-> 0, faults |-> 0, byHand |-> 0]

\* One more commit, fault or step by hand, within its bound.
Spend(kind, bound) ==
  /\ spent[kind] < bound
  /\ spent' = [spent EXCEPT ![kind] = @ + 1]

-----------------------------------------------------------------------------
(* The requests of users. *)

\* A handler creates, edits or deletes services (several, in bulk or from a
\* CSV file); their events are dispatched after the commit, in a step of its own.
Commit(services) ==
  /\ services # want
  /\ Spend("commits", MaxCommits)
  /\ want' = services
  /\ owed' = owed + 1
  /\ UNCHANGED <<trigger, mapping, kumaVars, passVars, born, lost, missed>>

\* Faulty: a trigger that comes while a pass runs is dropped.
DispatchWhenIdle ==
  /\ owed > 0
  /\ owed' = owed - 1
  /\ trigger' = (trigger \/ pc = "idle")
  /\ UNCHANGED <<want, mapping, kumaVars, passVars, born, lost, missed, spent>>

\* Dispatch with events about services, and TriggerSync.
Dispatch ==
  /\ owed > 0
  /\ owed' = owed - 1
  /\ trigger' = TRUE
  /\ UNCHANGED <<want, mapping, kumaVars, passVars, born, lost, missed, spent>>

\* "Sync now" on the admin page.
SyncNow ==
  /\ trigger' = TRUE
  /\ UNCHANGED <<want, owed, mapping, kumaVars, passVars, born, lost, missed, spent>>

\* A YAML import replaces the services and dispatches no event. The rows of
\* kuma_monitors stay.
Import(services) ==
  /\ services # want
  /\ Spend("commits", MaxCommits)
  /\ want' = services
  /\ missed' = missed \cup {s \in Service : services[s] # want[s]}
  /\ UNCHANGED <<owed, trigger, mapping, kumaVars, passVars, born, lost>>

-----------------------------------------------------------------------------
(* Kuma, outside of the syncer's calls. *)

\* Kuma makes monitor issued + 1.
Make(t) ==
  /\ issued < MaxMonitors
  /\ issued' = issued + 1
  /\ kuma' = [kuma EXCEPT ![issued + 1] = t]

ByHand ==
  /\ Spend("byHand", MaxByHand)
  /\ \/ /\ \E t \in Target : Make(t)
        /\ touched' = touched \cup {issued'}
     \/ \E m \in Monitor, t \in Target \cup {None} :
          /\ kuma[m] \notin {None, t}
          /\ kuma' = [kuma EXCEPT ![m] = t]
          /\ touched' = touched \cup {m}
          /\ UNCHANGED issued
  /\ UNCHANGED <<want, owed, trigger, mapping, wire, passVars, born, lost, missed>>

\* A request the syncer has given up arrives after all.
Arrive(a) ==
  /\ a \in wire
  /\ wire' = wire \ {a}
  /\ \/ /\ a.kind = "create"
        /\ Make(a.target)
        /\ born' = born \cup {issued'}
        /\ lost' = lost \cup {issued'}
        /\ touched' = touched \cup {issued'}
     \/ /\ a.kind = "edit" /\ kuma[a.mon] # None
        /\ kuma' = [kuma EXCEPT ![a.mon] = a.target]
        /\ touched' = touched \cup {a.mon}
        /\ UNCHANGED <<issued, born, lost>>
     \/ /\ a.kind = "delete"
        /\ kuma' = [kuma EXCEPT ![a.mon] = None]
        /\ touched' = touched \cup {a.mon}
        /\ UNCHANGED <<issued, born, lost>>
  /\ UNCHANGED <<want, owed, trigger, mapping, passVars, missed, spent>>

\* It never arrives.
Vanish(a) ==
  /\ a \in wire
  /\ wire' = wire \ {a}
  /\ UNCHANGED <<want, owed, trigger, mapping, kuma, issued, touched, passVars, born, lost,
                 missed, spent>>

-----------------------------------------------------------------------------
(* A pass. *)

EndPass(outcome) ==
  /\ pc' = "idle" /\ last' = outcome
  /\ seen' = Unseen /\ todo' = {} /\ fresh' = None

\* Faulty: no further pass starts after one that failed.
StartPassAfterOk ==
  /\ pc = "idle" /\ trigger /\ last = "ok"
  /\ trigger' = FALSE
  /\ pc' = "list"
  /\ UNCHANGED <<want, owed, mapping, kumaVars, seen, todo, fresh, last, born, lost, missed, spent>>

StartPass ==
  /\ pc = "idle" /\ trigger
  /\ trigger' = FALSE
  /\ pc' = "list"
  /\ UNCHANGED <<want, owed, mapping, kumaVars, seen, todo, fresh, last, born, lost, missed, spent>>

ListServices ==
  /\ pc = "list"
  /\ seen' = want
  /\ missed' = {}
  /\ pc' = "connect"
  /\ UNCHANGED <<want, owed, trigger, mapping, kumaVars, todo, fresh, last, born, lost, spent>>

Entry(kind, s, services, rows) == [kind |-> kind, svc |-> s, mon |-> rows[s], target |-> services[s]]

\* Faulty: a row whose monitor was deleted by hand is taken for one in order.
PlanTrustsRows(services, rows, monitors) ==
  {Entry("edit", s, services, rows) : s \in {s \in Service :
     /\ services[s] # None /\ rows[s] # None
     /\ monitors[rows[s]] \notin {None, services[s]}}}
  \cup {Entry("create", s, services, rows) : s \in {s \in Service : services[s] # None /\ rows[s] = None}}
  \cup {Entry("delete", s, services, rows) : s \in {s \in Service : services[s] = None /\ rows[s] # None}}

\* plan: what the services, the rows and the monitors call for. A row whose
\* monitor was deleted by hand gets a new monitor, or is forgotten.
Plan(services, rows, monitors) ==
  LET Wanted == {s \in Service : services[s] # None}
      HasRow == {s \in Service : rows[s] # None}
      InKuma == {s \in HasRow : monitors[rows[s]] # None}
      Entries(kind, S) == {Entry(kind, s, services, rows) : s \in S}
  IN  Entries("edit", {s \in Wanted \cap InKuma : monitors[rows[s]] # services[s]})
      \cup Entries("create", Wanted \ InKuma)
      \cup Entries("delete", InKuma \ Wanted)
      \cup Entries("forget", (HasRow \ InKuma) \ Wanted)

\* The rows, the connection and its monitor list. Only the syncer writes the
\* rows, so the plan may read them here.
Connect ==
  /\ pc = "connect"
  /\ todo' = Plan(seen, mapping, kuma)
  /\ touched' = {}
  /\ pc' = "act"
  /\ UNCHANGED <<want, owed, trigger, mapping, kuma, issued, wire, seen, fresh, last, born, lost,
                 missed, spent>>

\* Entries with a row come first, then the others; both by service id.
Before(a, b) ==
  \/ a.mon # None /\ b.mon = None
  \/ (a.mon = None <=> b.mon = None) /\ a.svc <= b.svc

Turn(a) == a \in todo /\ \A b \in todo : Before(a, b)

Done(a) ==
  /\ pc' = "act"
  /\ todo' = todo \ {a}
  /\ UNCHANGED <<seen, last>>

\* Kuma makes the monitor and answers with its number.
Add(a) ==
  /\ pc = "act" /\ Turn(a) /\ a.kind = "create"
  /\ Make(a.target)
  /\ born' = born \cup {issued'}
  /\ fresh' = issued'
  /\ pc' = "put"
  /\ UNCHANGED <<want, owed, trigger, mapping, wire, touched, seen, todo, last, lost, missed, spent>>

Put(a) ==
  /\ pc = "put" /\ Turn(a)
  /\ mapping' = [mapping EXCEPT ![a.svc] = fresh]
  /\ fresh' = None
  /\ Done(a)
  /\ UNCHANGED <<want, owed, trigger, kumaVars, born, lost, missed, spent>>

\* Faulty: the pass ends at a row that cannot be written.
PutFailsQuietly ==
  /\ pc = "put"
  /\ Spend("faults", MaxFaults)
  /\ EndPass("failed")
  /\ UNCHANGED <<want, owed, trigger, mapping, kumaVars, born, lost, missed>>

\* The row cannot be written: the monitor is to be deleted again.
PutFails ==
  /\ pc = "put"
  /\ Spend("faults", MaxFaults)
  /\ pc' = "cleanup"
  /\ UNCHANGED <<want, owed, trigger, mapping, kumaVars, seen, todo, fresh, last, born, lost, missed>>

\* Faulty: Kuma's newest monitor is deleted.
CleanupNewest ==
  /\ pc = "cleanup"
  /\ kuma' = [kuma EXCEPT ![issued] = None]
  /\ EndPass("failed")
  /\ UNCHANGED <<want, owed, trigger, mapping, issued, wire, touched, born, lost, missed, spent>>

Cleanup ==
  /\ pc = "cleanup"
  /\ kuma' = [kuma EXCEPT ![fresh] = None]
  /\ EndPass("failed")
  /\ UNCHANGED <<want, owed, trigger, mapping, issued, wire, touched, born, lost, missed, spent>>

\* That delete fails too, or its answer is lost: the monitor is an orphan.
CleanupFails(a) ==
  /\ pc = "cleanup" /\ Turn(a)
  /\ Spend("faults", MaxFaults)
  /\ lost' = lost \cup {fresh}
  /\ wire' \in {wire, wire \cup {[kind |-> "delete", svc |-> a.svc, mon |-> fresh, target |-> None]}}
  /\ EndPass("failed")
  /\ UNCHANGED <<want, owed, trigger, mapping, kuma, issued, touched, born, missed>>

Edit(a) ==
  /\ pc = "act" /\ Turn(a) /\ a.kind = "edit"
  /\ kuma[a.mon] # None
  /\ kuma' = [kuma EXCEPT ![a.mon] = a.target]
  /\ Done(a)
  /\ UNCHANGED <<want, owed, trigger, mapping, issued, wire, touched, fresh, born, lost, missed, spent>>

\* Kuma refuses to edit a monitor that was deleted by hand in the meantime.
EditRefused(a) ==
  /\ pc = "act" /\ Turn(a) /\ a.kind = "edit"
  /\ kuma[a.mon] = None
  /\ EndPass("failed")
  /\ UNCHANGED <<want, owed, trigger, mapping, kumaVars, born, lost, missed, spent>>

Delete(a) ==
  /\ pc = "act" /\ Turn(a) /\ a.kind = "delete"
  /\ kuma' = [kuma EXCEPT ![a.mon] = None]
  /\ pc' = "drop"
  /\ UNCHANGED <<want, owed, trigger, mapping, issued, wire, touched, seen, todo, fresh, last,
                 born, lost, missed, spent>>

\* The row of a deleted monitor, or of one that was gone already, is dropped.
DropRow(a) ==
  /\ \/ pc = "drop"
     \/ pc = "act" /\ a.kind = "forget"
  /\ Turn(a)
  /\ mapping' = [mapping EXCEPT ![a.svc] = None]
  /\ Done(a)
  /\ UNCHANGED <<want, owed, trigger, kumaVars, fresh, born, lost, missed, spent>>

\* The services or the rows cannot be read, no connection comes about, the row
\* cannot be dropped, or the pass's time is up between two actions.
PassFails ==
  /\ pc \in {"list", "connect", "act", "drop"}
  /\ Spend("faults", MaxFaults)
  /\ EndPass("failed")
  /\ UNCHANGED <<want, owed, trigger, mapping, kumaVars, born, lost, missed>>

\* A request is refused, or its answer does not come in time. It may still be
\* on its way; one that Kuma has carried out arrives at once.
RequestFails(a) ==
  /\ pc = "act" /\ Turn(a) /\ a.kind # "forget"
  /\ Spend("faults", MaxFaults)
  /\ wire' \in {wire, wire \cup {a}}
  /\ EndPass("failed")
  /\ UNCHANGED <<want, owed, trigger, mapping, kuma, issued, touched, born, lost, missed>>

\* Every action of the plan is carried out.
Finish ==
  /\ pc = "act" /\ todo = {}
  /\ EndPass("ok")
  /\ UNCHANGED <<want, owed, trigger, mapping, kumaVars, born, lost, missed, spent>>

\* The process ends and starts again: Start begins with a pass. The channel,
\* the events to dispatch and the last outcome are gone; a request may be on
\* its way.
Restart ==
  /\ Spend("faults", MaxFaults)
  /\ owed' = 0 /\ trigger' = FALSE
  /\ pc' = "list" /\ seen' = Unseen /\ todo' = {} /\ fresh' = None /\ last' = "none"
  /\ lost' = lost \cup ({fresh} \ {None})
  /\ wire' \in {wire} \cup {wire \cup {a} : a \in {a \in todo : pc = "act" /\ Turn(a) /\ a.kind # "forget"}}
  /\ UNCHANGED <<want, mapping, kuma, issued, touched, born, missed>>

PassStep ==
  \/ StartPass \/ ListServices \/ Connect
  \/ PutFails \/ Cleanup \/ PassFails \/ Finish
  \/ \E a \in todo : \/ Add(a) \/ Put(a) \/ CleanupFails(a) \/ Edit(a) \/ EditRefused(a)
                     \/ Delete(a) \/ DropRow(a) \/ RequestFails(a)

Next ==
  \/ \E services \in [Service -> Target \cup {None}] : Commit(services) \/ Import(services)
  \/ Dispatch \/ SyncNow \/ ByHand \/ Restart
  \/ \E a \in wire : Arrive(a) \/ Vanish(a)
  \/ PassStep

Spec == Init /\ [][Next]_vars

\* The syncer's goroutine and the handlers go on; a pass cannot hang, since its
\* time is bounded. Nothing is assumed of people, of Kuma or of faults.
FairSpec == Spec /\ WF_vars(Dispatch) /\ WF_vars(PassStep)

-----------------------------------------------------------------------------
(* Properties. *)

TypeOK ==
  /\ want \in [Service -> Target \cup {None}]
  /\ owed \in 0 .. MaxCommits
  /\ trigger \in BOOLEAN
  /\ mapping \in [Service -> Monitor \cup {None}]
  /\ kuma \in [Monitor -> Target \cup {None}]
  /\ issued \in 0 .. MaxMonitors
  /\ wire \subseteq Action
  /\ pc \in {"idle", "list", "connect", "act", "put", "cleanup", "drop"}
  /\ seen \in [Service -> Target \cup {None}]
  /\ todo \subseteq Action
  /\ fresh \in Monitor \cup {None}
  /\ last \in {"none", "ok", "failed"}
  /\ born \subseteq 1 .. issued /\ lost \subseteq born
  /\ missed \subseteq Service /\ touched \subseteq 1 .. issued
  /\ spent \in [commits : 0 .. MaxCommits, faults : 0 .. MaxFaults, byHand : 0 .. MaxByHand]

\* A monitor that almanaut asked for and that Kuma still has is the one in some
\* service's row, or the one whose row is about to be written, unless its
\* number was lost with an answer, in a restart or by a failed cleanup: no
\* other interleaving of passes, failures and changes leaves an orphan.
NoOrphans ==
  \A m \in born \ lost : kuma[m] = None \/ m = fresh \/ \E s \in Service : mapping[s] = m

\* No two services share a monitor.
RowsAreDistinct ==
  \A s, r \in Service : mapping[s] = mapping[r] /\ mapping[s] # None => s = r

(***************************************************************************)
(* Every monitor almanaut made is accounted for (NoOrphans), by one row at   *)
(* most (RowsAreDistinct), whatever gets lost on the way and wherever a      *)
(* restart comes.                                                            *)
(***************************************************************************)
MonitorsAccounted == TypeOK /\ NoOrphans /\ RowsAreDistinct

Agree(s, t) == IF t = None THEN mapping[s] = None
               ELSE mapping[s] # None /\ kuma[mapping[s]] = t

\* Once everything is dispatched, no trigger waits and the last pass went
\* through, every service's monitor is as the service wants it, and a service
\* without a URL has no row: nothing that was committed while the pass ran is
\* missed. Excepted are services that an import changed since and monitors that
\* somebody, or a late request, changed since.
QuietMeansSynced ==
  pc = "idle" /\ last = "ok" /\ ~trigger /\ owed = 0
    => \A s \in Service \ missed : mapping[s] \in touched \/ Agree(s, want[s])

\* "Only monitors that almanaut itself created are ever touched": a monitor
\* made by hand only changes by hand, whatever is planned, retried or late.
HandMadeUntouched ==
  [][\A m \in (1 .. issued) \ born : kuma'[m] # kuma[m] => spent'.byHand > spent.byHand]_vars

\* A request for a sync is served by a pass that lists the services after it.
RequestsAreServed == trigger ~> pc = "list"

\* "A mid-pass failure leaves a state the next pass repairs": if syncs keep
\* being asked for, Kuma agrees with the services in the end, whatever failed
\* or was changed by hand on the way (finitely often: the bounds).
RepairedInTheEnd == []<>trigger => <>[](\A s \in Service : Agree(s, want[s]))
=============================================================================
