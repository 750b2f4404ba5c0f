------------------------------- MODULE AgentIngest ------------------------------
(***************************************************************************)
(* The agents on the machines and their ingest by the server: cmd/           *)
(* almanaut-agent and internal/agent keep the id of a machine in a file and  *)
(* post a report on every run; internal/agentapi decides which host it is    *)
(* about, and web/agent.go writes the host, the binding and the report in    *)
(* one transaction.                                                          *)
(*                                                                           *)
(* Transactions begin IMMEDIATE, so one that is open keeps every other       *)
(* writer waiting. A run of the agent is a request with its phases; several  *)
(* runs, of one machine too, go on at once.                                  *)
(***************************************************************************)
EXTENDS Naturals, Sequences, FiniteSets

CONSTANTS
  Machine, AgentId, HostId, Name, Mac, Addr,
  Request,     \* runs of the agent at one time
  Retention,   \* agentReportRetention
  Blueprint,   \* what each machine is at the start
  MaxChanges,  \* bound on what people do to machines and hosts
  MaxFaults,   \* bound on failed statements, exhausted waits and crashes
  None

Facts == [name : Name, macs : SUBSET Mac, ips : SUBSET Addr]
Prints == [name : Name, macs : SUBSET Mac]
HostRow == [name : Name, ips : SUBSET Addr]
BindRow == [agent : AgentId, print : Prints, stamp : Name \cup {None}]
ReportRow == [agent : AgentId, print : Prints]

ASSUME NoneAssumption ==
  None \notin Machine \cup AgentId \cup HostId \cup Name \cup Request
             \cup Facts \cup Prints \cup HostRow \cup BindRow
ASSUME RetentionAssumption == Retention \in Nat \ {0}
ASSUME BlueprintAssumption == Blueprint \in [Machine -> Facts]
ASSUME BoundsAssumption == MaxChanges \in Nat /\ MaxFaults \in Nat

VARIABLES
  machine,  \* the machines as they are
  idFile,   \* the file agent-id of each machine, or None
  ids,      \* the ids generated so far
  run,      \* the runs of the agent
  lock,     \* whose transaction is open
  host, hosts,  \* the table hosts, and the ids it has given out
  bind,     \* the table host_agents, by host
  reports,  \* the table agent_reports, by host, newest last
  changes, faults

machines == <<machine, idFile, ids>>
tables == <<host, hosts, bind, reports>>
vars == <<machines, run, lock, tables, changes, faults>>

Fingerprint(facts) == [name |-> facts.name, macs |-> facts.macs]  \* Report.Fingerprint

\* Where a run is: its machine, the id it has in hand, its report, and what the
\* server found: the host to write to, or what the machine of that id was.
At(at, m, id, rep, h, seen) ==
  [at |-> at, of |-> m, id |-> id, rep |-> rep, target |-> h, seen |-> seen]
NoRun == At("off", None, None, None, None, None)

Init ==
  /\ machine = Blueprint /\ idFile = [m \in Machine |-> None] /\ ids = {}
  /\ run = [r \in Request |-> NoRun] /\ lock = None
  /\ host = [h \in HostId |-> None] /\ hosts = {}
  /\ bind = [h \in HostId |-> None] /\ reports = [h \in HostId |-> <<>>]
  /\ changes = 0 /\ faults = 0

Fault == faults < MaxFaults /\ faults' = faults + 1
Change == changes < MaxChanges /\ changes' = changes + 1
Becomes(r, at) == run' = [run EXCEPT ![r].at = at]

\* Any answer but a 409, or none, ends the run: the next one brings fresh facts.
Ends(r) == run' = [run EXCEPT ![r] = NoRun]

-----------------------------------------------------------------------------
(* The agent.                                                                *)

\* LoadOrCreateAgentID. A new id is in hand before it is in the file.
Begin(r, m) ==
  /\ run[r] = NoRun
  /\ \/ /\ idFile[m] # None
        /\ run' = [run EXCEPT ![r] = At("ready", m, idFile[m], None, None, None)]
        /\ UNCHANGED ids
     \/ /\ idFile[m] = None
        /\ \E id \in AgentId \ ids :
             /\ ids' = ids \cup {id}
             /\ run' = [run EXCEPT ![r] = At("new", m, id, None, None, None)]
  /\ UNCHANGED <<machine, idFile, lock, tables, changes, faults>>

\* The rename of the temporary file.
WriteId(r) ==
  /\ run[r].at = "new"
  /\ idFile' = [idFile EXCEPT ![run[r].of] = run[r].id]
  /\ Becomes(r, "ready")
  /\ UNCHANGED <<machine, ids, lock, tables, changes, faults>>

\* Collect, and the request. An address that could not be determined is left out.
Send(r) ==
  /\ run[r].at = "ready"
  /\ LET facts == machine[run[r].of] IN
     \E ips \in {{}, facts.ips} :
       run' = [run EXCEPT ![r] = At("sent", run[r].of, run[r].id,
                 [name |-> facts.name, macs |-> facts.macs, ips |-> ips], None, None)]
  /\ UNCHANGED <<machines, lock, tables, changes, faults>>

\* The run is killed before it sends anything.
Killed(r) ==
  /\ run[r].at \in {"new", "ready"} /\ Fault
  /\ Ends(r)
  /\ UNCHANGED <<machines, lock, tables, changes>>

\* The 409 arrives.
Conflict(r) ==
  /\ run[r].at = "conflict"
  /\ Ends(r)
  /\ UNCHANGED <<machines, lock, tables, changes, faults>>

-----------------------------------------------------------------------------
(* agentReport and agentapi.Resolve                                          *)

BoundTo(id) == {h \in HostId : bind[h] # None /\ bind[h].agent = id}

\* Faulty: two machines without a network card share the empty address.
IsCloneByPhantom(old, now) ==
  old.name # now.name /\ old.macs \cap now.macs = {} /\ old.macs \cup now.macs # {}

IsClone(old, now) == old.name # now.name /\ old.macs \cap now.macs = {}

\* Faulty: hosts that other agents report for may be adopted too.
FreeOrBound == {h \in HostId : host[h] # None}

Free == {h \in HostId : host[h] # None /\ bind[h] = None}

\* matchHost: by the name first, then by an address.
Matching(rep) ==
  LET named == {h \in Free : host[h].name = rep.name}
  IN IF named # {} THEN named ELSE {h \in Free : host[h].ips \cap rep.ips # {}}

\* What the transaction has read: a host to write to, None for a new one, or
\* that the id is in use by another machine.
Writes(r, h) == run' = [run EXCEPT ![r] = At("write", run[r].of, run[r].id, run[r].rep, h, None)]
Rejects(r, print) == run' = [run EXCEPT ![r] = At("stamp", run[r].of, run[r].id, run[r].rep, None, print)]

\* Faulty: a transaction that begins DEFERRED takes the lock when it writes.
OpenDeferred(r) ==
  LET rep == run[r].rep IN
  /\ run[r].at = "sent" /\ lock = None
  /\ IF BoundTo(run[r].id) # {}
     THEN \E h \in BoundTo(run[r].id) :
            IF IsClone(bind[h].print, Fingerprint(rep)) THEN Rejects(r, bind[h].print) ELSE Writes(r, h)
     ELSE \E h \in IF Matching(rep) = {} THEN {None} ELSE Matching(rep) : Writes(r, h)
  /\ UNCHANGED <<machines, lock, tables, changes, faults>>

\* The transaction begins, and what it reads decides. A clone's is rolled back.
Open(r) ==
  LET rep == run[r].rep IN
  /\ run[r].at = "sent" /\ lock = None
  /\ IF BoundTo(run[r].id) # {}
     THEN \E h \in BoundTo(run[r].id) :
            IF IsClone(bind[h].print, Fingerprint(rep))
            THEN Rejects(r, bind[h].print) /\ UNCHANGED lock
            ELSE Writes(r, h) /\ lock' = r
     ELSE /\ \E h \in IF Matching(rep) = {} THEN {None} ELSE Matching(rep) : Writes(r, h)
          /\ lock' = r
  /\ UNCHANGED <<machines, tables, changes, faults>>

\* Three times the wait for the lock runs out.
OpenFails(r) ==
  /\ run[r].at = "sent" /\ lock # None /\ Fault
  /\ Ends(r)
  /\ UNCHANGED <<machines, lock, tables, changes>>

\* Faulty: the oldest rows stay.
KeptOldest(rows, row) ==
  IF Len(rows) < Retention THEN Append(rows, row) ELSE rows

\* RecordReport: the newest rows stay.
Kept(rows, row) ==
  LET all == Append(rows, row)
  IN IF Len(all) > Retention THEN Tail(all) ELSE all

\* mergeAgentReport: the name is the creator's, and an empty value changes nothing.
Merged(h, rep) ==
  IF host[h] = None THEN [name |-> rep.name, ips |-> rep.ips]
  ELSE [name |-> host[h].name, ips |-> IF rep.ips = {} THEN host[h].ips ELSE rep.ips]

\* The host, the binding and the report. host_agents.agent_id is UNIQUE: whoever
\* would break it is rolled back.
Commit(r) ==
  LET id == run[r].id
      rep == run[r].rep
  IN
  /\ run[r].at = "write"
  /\ lock' = None
  /\ IF BoundTo(id) \ {run[r].target} # {}
     THEN Becomes(r, "stamp") /\ UNCHANGED tables
     ELSE \E h \in HostId :
            /\ IF run[r].target = None THEN h \notin hosts ELSE h = run[r].target
            /\ host' = [host EXCEPT ![h] = Merged(h, rep)] /\ hosts' = hosts \cup {h}
            /\ bind' = [bind EXCEPT ![h] = [agent |-> id, print |-> Fingerprint(rep), stamp |-> None]]
            /\ reports' = [reports EXCEPT ![h] = Kept(@, [agent |-> id, print |-> Fingerprint(rep)])]
            /\ Ends(r)
  /\ UNCHANGED <<machines, changes, faults>>

\* A statement fails (500), or the merged host is not valid (400).
CommitFails(r) ==
  /\ run[r].at = "write" /\ Fault
  /\ lock' = None
  /\ Ends(r)
  /\ UNCHANGED <<machines, tables, changes>>

\* RecordConflict, a statement of its own: on whatever is bound by now.
Stamp(r) ==
  /\ run[r].at = "stamp" /\ lock = None
  /\ bind' = [h \in HostId |->
               IF h \in BoundTo(run[r].id)
               THEN [agent |-> bind[h].agent, print |-> bind[h].print, stamp |-> run[r].rep.name]
               ELSE bind[h]]
  /\ Becomes(r, "conflict")
  /\ UNCHANGED <<machines, lock, host, hosts, reports, changes, faults>>

StampFails(r) ==
  /\ run[r].at = "stamp" /\ Fault
  /\ Becomes(r, "conflict")
  /\ UNCHANGED <<machines, lock, tables, changes>>

\* An open transaction is undone; an agent whose request is cut off fails.
ServerDies ==
  /\ Fault
  /\ lock' = None
  /\ run' = [r \in Request |-> IF run[r].at \in {"sent", "write", "stamp"} THEN NoRun ELSE run[r]]
  /\ UNCHANGED <<machines, tables, changes>>

-----------------------------------------------------------------------------
(* People.                                                                   *)

onServer == lock = None /\ Change /\ UNCHANGED <<machines, run, lock, faults>>
onMachine == Change /\ UNCHANGED <<run, lock, tables, faults>>

AddHost(h, name, ips) ==
  /\ h \notin hosts
  /\ host' = [host EXCEPT ![h] = [name |-> name, ips |-> ips]] /\ hosts' = hosts \cup {h}
  /\ onServer /\ UNCHANGED <<bind, reports>>

RenameHost(h, name) ==
  /\ host[h] # None
  /\ host' = [host EXCEPT ![h] = [name |-> name, ips |-> host[h].ips]]
  /\ onServer /\ UNCHANGED <<hosts, bind, reports>>

\* The foreign keys of both tables cascade.
DeleteHost(h) ==
  /\ host[h] # None
  /\ host' = [host EXCEPT ![h] = None]
  /\ bind' = [bind EXCEPT ![h] = None] /\ reports' = [reports EXCEPT ![h] = <<>>]
  /\ onServer /\ UNCHANGED hosts

Unbind(h) ==
  /\ bind[h] # None
  /\ bind' = [bind EXCEPT ![h] = None]
  /\ onServer /\ UNCHANGED <<host, hosts, reports>>

\* The hosts are deleted and inserted again.
Import ==
  /\ bind' = [h \in HostId |-> None] /\ reports' = [h \in HostId |-> <<>>]
  /\ onServer /\ UNCHANGED <<host, hosts>>

RenameMachine(m, name) ==
  /\ machine' = [machine EXCEPT ![m] = [name |-> name, macs |-> machine[m].macs, ips |-> machine[m].ips]]
  /\ onMachine /\ UNCHANGED <<idFile, ids>>

ReplaceCard(m, macs) ==
  /\ machine' = [machine EXCEPT ![m] = [name |-> machine[m].name, macs |-> macs, ips |-> machine[m].ips]]
  /\ onMachine /\ UNCHANGED <<idFile, ids>>

\* A virtual machine copied with its state file, or reinstalled without one.
CopyFile(m, n) ==
  /\ idFile' = [idFile EXCEPT ![n] = idFile[m]]
  /\ onMachine /\ UNCHANGED <<machine, ids>>

LoseFile(m) ==
  /\ idFile' = [idFile EXCEPT ![m] = None]
  /\ onMachine /\ UNCHANGED <<machine, ids>>

ResetId(m) ==
  /\ \E id \in AgentId \ ids : idFile' = [idFile EXCEPT ![m] = id] /\ ids' = ids \cup {id}
  /\ onMachine /\ UNCHANGED machine

Agent(r) == WriteId(r) \/ Send(r) \/ Killed(r) \/ Conflict(r) \/ \E m \in Machine : Begin(r, m)

Server(r) == Open(r) \/ OpenFails(r) \/ Commit(r) \/ CommitFails(r) \/ Stamp(r) \/ StampFails(r)

People ==
  \/ Import
  \/ \E h \in HostId :
       \/ DeleteHost(h) \/ Unbind(h)
       \/ \E name \in Name : RenameHost(h, name) \/ \E ips \in SUBSET Addr : AddHost(h, name, ips)
  \/ \E m \in Machine :
       \/ LoseFile(m) \/ ResetId(m)
       \/ \E name \in Name : RenameMachine(m, name)
       \/ \E macs \in SUBSET Mac : ReplaceCard(m, macs)
       \/ \E n \in Machine \ {m} : CopyFile(m, n)

Next == ServerDies \/ People \/ \E r \in Request : Agent(r) \/ Server(r)

Spec == Init /\ [][Next]_vars
-----------------------------------------------------------------------------
Phases == {"off", "new", "ready", "sent", "write", "stamp", "conflict"}

Run == [at : Phases, of : Machine \cup {None}, id : AgentId \cup {None}, rep : Facts \cup {None},
        target : HostId \cup {None}, seen : Prints \cup {None}]

TypeOK ==
  /\ machine \in [Machine -> Facts]
  /\ idFile \in [Machine -> AgentId \cup {None}] /\ ids \subseteq AgentId
  /\ run \in [Request -> Run]
  /\ lock \in Request \cup {None}
  /\ host \in [HostId -> HostRow \cup {None}] /\ hosts \subseteq HostId
  /\ bind \in [HostId -> BindRow \cup {None}]
  /\ reports \in [HostId -> Seq(ReportRow)]
  /\ \A h \in HostId : Len(reports[h]) <= Retention
  /\ changes \in 0 .. MaxChanges /\ faults \in 0 .. MaxFaults

(***************************************************************************)
(* A report is answered with 409 only if it comes from another machine than *)
(* the one its agent id is bound to: two runs of one machine that race for  *)
(* the first binding are both accepted ("the loser's next attempt observes  *)
(* the winner's committed binding", web/agent.go).                          *)
(***************************************************************************)
ConflictMeansClone ==
  \A r \in Request :
    run[r].at \in {"stamp", "conflict"} =>
      /\ run[r].seen # None
      /\ run[r].seen.name # run[r].rep.name /\ run[r].seen.macs \cap run[r].rep.macs = {}

(***************************************************************************)
(* Requests keep their types and their verdicts stand: a conflict is         *)
(* answered to clones only.                                                  *)
(***************************************************************************)
VerdictsStand == TypeOK /\ ConflictMeansClone

(***************************************************************************)
(* The newest report kept of a host is the one its binding was written      *)
(* with: the page of a host shows one machine, through adoptions, unbinds,  *)
(* rejected clones and pruning.                                             *)
(***************************************************************************)
NewestReportIsBound ==
  \A h \in HostId :
    bind[h] # None =>
      /\ host[h] # None /\ reports[h] # <<>>
      /\ reports[h][Len(reports[h])] = [agent |-> bind[h].agent, print |-> bind[h].print]

(***************************************************************************)
(* While a host stays bound, its machine changes its name or its cards but  *)
(* never all of them at once: no clone reports for it (resolve.go), however *)
(* its reports are interleaved.                                             *)
(***************************************************************************)
ClonesKeepOut ==
  [][\A h \in HostId :
       bind[h] # None /\ bind'[h] # None =>
         \/ bind'[h].print.name = bind[h].print.name
         \/ bind'[h].print.macs \cap bind[h].print.macs # {}]_vars

(***************************************************************************)
(* host_agents gives each host one agent and each agent one host, and no    *)
(* host passes from one agent to another without an unbind (agent.go: the   *)
(* two "would oscillate the record forever").                               *)
(***************************************************************************)
Registry == INSTANCE Bindings WITH owner <- [h \in HostId |-> IF bind[h] = None THEN None ELSE bind[h].agent]
KeepsBindings == Registry!Spec
=============================================================================
