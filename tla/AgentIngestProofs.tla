--------------------------- MODULE AgentIngestProofs ---------------------------
(***************************************************************************)
(* Proofs about the ingest of reports, for any machines, agents, hosts and  *)
(* overlapping runs.                                                        *)
(*                                                                          *)
(* What carries them is OpenPart: a transaction that is open is the only    *)
(* one, so what it has read of the tables still holds when it writes. The   *)
(* rest says that a host with a binding exists, that no two hosts have one  *)
(* agent, and what a run has in hand in each of its phases.                 *)
(***************************************************************************)
EXTENDS AgentIngest, TLAPS

MachinesPart ==
  /\ machine \in [Machine -> Facts]
  /\ idFile \in [Machine -> AgentId \cup {None}] /\ ids \subseteq AgentId
  /\ changes \in 0 .. MaxChanges /\ faults \in 0 .. MaxFaults

RunOK(x) ==
  /\ x \in Run
  /\ x.at # "off" => x.of \in Machine /\ x.id \in AgentId
  /\ x.at \in {"sent", "write", "stamp", "conflict"} => x.rep \in Facts
  /\ x.at \in {"stamp", "conflict"} =>
       x.seen # None /\ x.seen.name # x.rep.name /\ x.seen.macs \cap x.rep.macs = {}

RunsPart ==
  /\ run = [r \in Request |-> run[r]]
  /\ \A r \in Request : RunOK(run[r])

\* No two hosts have one agent.
Distinct ==
  \A g, h \in HostId :
    bind[g] # None /\ bind[h] # None /\ bind[g].agent = bind[h].agent => g = h

TablesPart ==
  /\ host \in [HostId -> HostRow \cup {None}] /\ hosts \subseteq HostId
  /\ bind \in [HostId -> BindRow \cup {None}]
  /\ reports \in [HostId -> Seq(ReportRow)]
  /\ \A h \in HostId : Len(reports[h]) <= Retention
  /\ \A h \in HostId : host[h] # None => h \in hosts
  /\ NewestReportIsBound /\ Distinct

\* What the transaction of a run has read is so.
Reads(r) ==
  LET h == run[r].target IN
  /\ h # None => host[h] # None
  /\ h # None /\ bind[h] # None =>
       bind[h].agent = run[r].id /\ ~IsClone(bind[h].print, Fingerprint(run[r].rep))
  /\ BoundTo(run[r].id) \subseteq {h}

OpenPart ==
  /\ lock \in Request \cup {None}
  /\ \A r \in Request : run[r].at = "write" => lock = r /\ Reads(r)

IInv == MachinesPart /\ RunsPart /\ TablesPart /\ OpenPart

USE NoneAssumption, RetentionAssumption, BlueprintAssumption, BoundsAssumption
-----------------------------------------------------------------------------
LEMMA InitOK == Init => IInv
<1>. SUFFICES ASSUME Init PROVE IInv
  OBVIOUS
<1>1. MachinesPart
  BY DEF Init, MachinesPart
<1>2. RunsPart /\ OpenPart
  <2>1. RunOK(NoRun) /\ NoRun.at = "off"
    BY DEF RunOK, NoRun, At, Run, Phases
  <2>. QED  BY <2>1 DEF Init, RunsPart, OpenPart
<1>3. TablesPart
  BY DEF Init, TablesPart, NewestReportIsBound, Distinct
<1>. QED  BY <1>1, <1>2, <1>3 DEF IInv

LEMMA MachinesOK == ASSUME IInv, [Next]_vars PROVE MachinesPart'
<1>1. MachinesPart /\ RunsPart
  BY DEF IInv
<1>2. Fault => faults' \in 0 .. MaxFaults
  BY <1>1 DEF Fault, MachinesPart
<1>3. Change => changes' \in 0 .. MaxChanges
  BY <1>1 DEF Change, MachinesPart
<1>. DEFINE Rest == UNCHANGED machines /\ changes' \in 0 .. MaxChanges /\ faults' \in 0 .. MaxFaults
<1>4. ASSUME Rest PROVE MachinesPart'
  BY <1>1, <1>4 DEF MachinesPart, machines
<1>5. changes \in 0 .. MaxChanges /\ faults \in 0 .. MaxFaults
  BY <1>1 DEF MachinesPart
<1>6. CASE ServerDies \/ UNCHANGED vars
  BY <1>2, <1>4, <1>5, <1>6 DEF ServerDies, vars
<1>7. ASSUME NEW r \in Request, Server(r) PROVE MachinesPart'
  BY <1>2, <1>4, <1>5, <1>7 DEF Server, Open, OpenFails, Commit, CommitFails, Stamp, StampFails
<1>8. ASSUME NEW r \in Request, Agent(r) PROVE MachinesPart'
  <2>1. CASE Send(r) \/ Killed(r) \/ Conflict(r)
    BY <1>2, <1>4, <1>5, <2>1 DEF Send, Killed, Conflict
  <2>2. CASE WriteId(r)
    <3>1. run[r].of \in Machine /\ run[r].id \in AgentId
      BY <1>1, <2>2 DEF WriteId, RunsPart, RunOK
    <3>. QED  BY <1>1, <2>2, <3>1 DEF WriteId, MachinesPart
  <2>3. ASSUME NEW m \in Machine, Begin(r, m) PROVE MachinesPart'
    BY <1>1, <2>3 DEF Begin, MachinesPart
  <2>. QED  BY <1>8, <2>1, <2>2, <2>3 DEF Agent
<1>9. CASE People
  <2>1. CASE UNCHANGED machines /\ Change /\ faults' = faults
    BY <1>3, <1>4, <1>5, <2>1
  <2>2. ASSUME NEW m \in Machine, NEW facts \in Facts, onMachine,
               machine' = [machine EXCEPT ![m] = facts], UNCHANGED <<idFile, ids>>
        PROVE  MachinesPart'
    BY <1>1, <1>3, <2>2 DEF onMachine, MachinesPart
  <2>3. ASSUME NEW m \in Machine, NEW name \in Name, RenameMachine(m, name) PROVE MachinesPart'
    <3>. DEFINE facts == [name |-> name, macs |-> machine[m].macs, ips |-> machine[m].ips]
    <3>1. facts \in Facts
      BY <1>1 DEF MachinesPart, Facts
    <3>. HIDE DEF facts
    <3>2. onMachine /\ machine' = [machine EXCEPT ![m] = facts] /\ UNCHANGED <<idFile, ids>>
      BY <2>3 DEF RenameMachine, facts
    <3>. QED  BY <2>2, <3>1, <3>2
  <2>4. ASSUME NEW m \in Machine, NEW macs \in SUBSET Mac, ReplaceCard(m, macs) PROVE MachinesPart'
    <3>. DEFINE facts == [name |-> machine[m].name, macs |-> macs, ips |-> machine[m].ips]
    <3>1. facts \in Facts
      BY <1>1 DEF MachinesPart, Facts
    <3>. HIDE DEF facts
    <3>2. onMachine /\ machine' = [machine EXCEPT ![m] = facts] /\ UNCHANGED <<idFile, ids>>
      BY <2>4 DEF ReplaceCard, facts
    <3>. QED  BY <2>2, <3>1, <3>2
  <2>5. ASSUME NEW m \in Machine,
               LoseFile(m) \/ ResetId(m) \/ \E n \in Machine \ {m} : CopyFile(m, n)
        PROVE  MachinesPart'
    BY <1>1, <1>3, <2>5 DEF LoseFile, ResetId, CopyFile, onMachine, MachinesPart
  <2>6. ASSUME \/ Import
               \/ \E h \in HostId :
                    \/ DeleteHost(h) \/ Unbind(h)
                    \/ \E name \in Name : RenameHost(h, name) \/ \E ips \in SUBSET Addr : AddHost(h, name, ips)
        PROVE  UNCHANGED machines /\ Change /\ faults' = faults
    BY <2>6 DEF Import, DeleteHost, Unbind, RenameHost, AddHost, onServer
  <2>. QED  BY <1>9, <2>1, <2>3, <2>4, <2>5, <2>6 DEF People
<1>. QED  BY <1>6, <1>7, <1>8, <1>9 DEF Next
-----------------------------------------------------------------------------
(* The runs                                                                  *)

LEMMA RunGoesOn ==
  ASSUME RunsPart, NEW r \in Request, NEW x, RunOK(x), run' = [run EXCEPT ![r] = x]
  PROVE  RunsPart'
BY DEF RunsPart

LEMMA RunEnds == ASSUME RunsPart, NEW r \in Request, Ends(r) PROVE RunsPart'
<1>1. RunOK(NoRun)
  BY DEF RunOK, NoRun, At, Run, Phases
<1>. QED  BY <1>1, RunGoesOn DEF Ends

\* A run in hand may get to another place, if that asks nothing new of it.
LEMMA RunBecomes ==
  ASSUME RunsPart, NEW r \in Request, NEW at \in {"ready", "conflict"}, Becomes(r, at),
         run[r].at \in (IF at = "ready" THEN {"new"} ELSE {"stamp"})
  PROVE  RunsPart'
<1>. DEFINE x == [run[r] EXCEPT !.at = at]
<1>1. RunOK(run[r])
  BY DEF RunsPart
<1>2. x = At(at, run[r].of, run[r].id, run[r].rep, run[r].target, run[r].seen)
  BY <1>1 DEF RunOK, Run, At
<1>3. RunOK(x)
  BY <1>1, <1>2 DEF RunOK, Run, Phases, At
<1>4. run' = [run EXCEPT ![r] = x]
  BY DEF Becomes
<1>. HIDE DEF x
<1>. QED  BY <1>3, <1>4, RunGoesOn

\* The agent that a run reports for is bound to a host of the table.
LEMMA BoundRow ==
  ASSUME TablesPart, NEW id, NEW h \in BoundTo(id)
  PROVE  h \in HostId /\ bind[h] \in BindRow /\ bind[h].agent = id /\ host[h] # None
BY DEF TablesPart, BoundTo, NewestReportIsBound

LEMMA AgentRuns == ASSUME IInv, NEW r \in Request, Agent(r) PROVE RunsPart'
<1>1. MachinesPart /\ RunsPart /\ RunOK(run[r])
  BY DEF IInv, RunsPart
<1>2. CASE WriteId(r)
  BY <1>1, <1>2, RunBecomes DEF WriteId
<1>3. CASE Send(r)
  <2>1. run[r].of \in Machine /\ run[r].id \in AgentId
    BY <1>1, <1>3 DEF Send, RunOK
  <2>2. PICK ips \in {{}, machine[run[r].of].ips} :
          run' = [run EXCEPT ![r] = At("sent", run[r].of, run[r].id,
                    [name |-> machine[run[r].of].name, macs |-> machine[run[r].of].macs, ips |-> ips],
                    None, None)]
    BY <1>3 DEF Send
  <2>. DEFINE rep == [name |-> machine[run[r].of].name, macs |-> machine[run[r].of].macs, ips |-> ips]
              x == At("sent", run[r].of, run[r].id, rep, None, None)
  <2>3. rep \in Facts
    BY <1>1, <2>1 DEF MachinesPart, Facts
  <2>. HIDE DEF rep
  <2>4. RunOK(x)
    BY <2>1, <2>3 DEF RunOK, Run, Phases, At
  <2>5. run' = [run EXCEPT ![r] = x]
    BY <2>2 DEF rep
  <2>. HIDE DEF x
  <2>. QED  BY <1>1, <2>4, <2>5, RunGoesOn
<1>4. CASE Killed(r) \/ Conflict(r)
  BY <1>1, <1>4, RunEnds DEF Killed, Conflict
<1>5. ASSUME NEW m \in Machine, Begin(r, m) PROVE RunsPart'
  <2>1. PICK at \in {"ready", "new"}, id \in AgentId :
          run' = [run EXCEPT ![r] = At(at, m, id, None, None, None)]
    BY <1>1, <1>5 DEF Begin, MachinesPart
  <2>2. RunOK(At(at, m, id, None, None, None))
    BY DEF RunOK, Run, Phases, At
  <2>. QED  BY <1>1, <2>1, <2>2, RunGoesOn
<1>. QED  BY <1>2, <1>3, <1>4, <1>5 DEF Agent

LEMMA WritesOK ==
  ASSUME RunsPart, NEW r \in Request, run[r].at = "sent", NEW h \in HostId \cup {None}, Writes(r, h)
  PROVE  RunsPart'
<1>. DEFINE x == At("write", run[r].of, run[r].id, run[r].rep, h, None)
<1>1. RunOK(run[r])
  BY DEF RunsPart
<1>2. RunOK(x)
  BY <1>1 DEF RunOK, Run, Phases, At
<1>3. run' = [run EXCEPT ![r] = x]
  BY DEF Writes
<1>. HIDE DEF x
<1>. QED  BY <1>2, <1>3, RunGoesOn

\* Whom Open turns away is a clone.
LEMMA RejectsOK ==
  ASSUME RunsPart, NEW r \in Request, run[r].at = "sent", NEW print \in Prints,
         IsClone(print, Fingerprint(run[r].rep)), Rejects(r, print)
  PROVE  RunsPart'
<1>. DEFINE x == At("stamp", run[r].of, run[r].id, run[r].rep, None, print)
<1>1. RunOK(run[r])
  BY DEF RunsPart
<1>2. print # None /\ print.name # run[r].rep.name /\ print.macs \cap run[r].rep.macs = {}
  BY DEF IsClone, Fingerprint
<1>3. RunOK(x)
  BY <1>1, <1>2 DEF RunOK, Run, Phases, At
<1>4. run' = [run EXCEPT ![r] = x]
  BY DEF Rejects
<1>. HIDE DEF x
<1>. QED  BY <1>3, <1>4, RunGoesOn

\* The unique index on the agent refuses nobody: what the transaction read of
\* the bindings still holds when it writes.
LEMMA IndexHolds ==
  ASSUME OpenPart, NEW r \in Request, run[r].at = "write"
  PROVE  BoundTo(run[r].id) \ {run[r].target} = {}
BY DEF OpenPart, Reads

LEMMA ServerRuns == ASSUME IInv, NEW r \in Request, Server(r) PROVE RunsPart'
<1>1. RunsPart /\ TablesPart /\ OpenPart
  BY DEF IInv
<1>2. CASE Open(r)
  <2>1. run[r].at = "sent"
    BY <1>2 DEF Open
  <2>2. ASSUME NEW h \in BoundTo(run[r].id), IsClone(bind[h].print, Fingerprint(run[r].rep)),
               Rejects(r, bind[h].print)
        PROVE  RunsPart'
    <3>1. bind[h].print \in Prints
      BY <1>1, <2>2, BoundRow DEF BindRow
    <3>. QED  BY <1>1, <2>1, <2>2, <3>1, RejectsOK
  <2>3. ASSUME NEW h \in HostId \cup {None}, Writes(r, h) PROVE RunsPart'
    BY <1>1, <2>1, <2>3, WritesOK
  <2>4. /\ BoundTo(run[r].id) \subseteq HostId
        /\ (IF Matching(run[r].rep) = {} THEN {None} ELSE Matching(run[r].rep)) \subseteq HostId \cup {None}
    BY DEF BoundTo, Matching, Free
  <2>. QED  BY <1>2, <2>2, <2>3, <2>4 DEF Open
<1>3. CASE OpenFails(r) \/ CommitFails(r)
  BY <1>1, <1>3, RunEnds DEF OpenFails, CommitFails
<1>4. CASE Commit(r)
  <2>1. Ends(r)
    BY <1>1, <1>4, IndexHolds DEF Commit
  <2>. QED  BY <1>1, <2>1, RunEnds
<1>5. CASE Stamp(r) \/ StampFails(r)
  BY <1>1, <1>5, RunBecomes DEF Stamp, StampFails
<1>. QED  BY <1>2, <1>3, <1>4, <1>5 DEF Server

LEMMA PeopleRun == People => run' = run /\ (lock' = lock)
BY DEF People, Import, DeleteHost, Unbind, RenameHost, AddHost, LoseFile, ResetId,
       RenameMachine, ReplaceCard, CopyFile, onServer, onMachine

LEMMA RunsOK == ASSUME IInv, [Next]_vars PROVE RunsPart'
<1>1. RunsPart
  BY DEF IInv
<1>2. CASE ServerDies
  <2>1. RunOK(NoRun)
    BY DEF RunOK, NoRun, At, Run, Phases
  <2>. QED  BY <1>1, <1>2, <2>1 DEF ServerDies, RunsPart
<1>3. CASE People \/ UNCHANGED vars
  BY <1>1, <1>3, PeopleRun DEF RunsPart, vars
<1>. QED  BY <1>2, <1>3, AgentRuns, ServerRuns DEF Next
-----------------------------------------------------------------------------
(* The tables                                                                *)

LEMMA KeptOK ==
  ASSUME NEW rows \in Seq(ReportRow), Len(rows) <= Retention, NEW row \in ReportRow
  PROVE  /\ Kept(rows, row) \in Seq(ReportRow) /\ Kept(rows, row) # <<>>
         /\ Len(Kept(rows, row)) <= Retention
         /\ Kept(rows, row)[Len(Kept(rows, row))] = row
<1>. DEFINE all == Append(rows, row)
<1>1. /\ all \in Seq(ReportRow) /\ Len(all) = Len(rows) + 1 /\ Len(rows) \in Nat
      /\ all[Len(all)] = row
  OBVIOUS
<1>2. CASE Len(all) > Retention
  <2>1. /\ Tail(all) \in Seq(ReportRow) /\ Len(Tail(all)) = Len(all) - 1
        /\ \A i \in 1 .. Len(all) - 1 : Tail(all)[i] = all[i + 1]
    BY <1>1
  <2>2. Len(Tail(all)) = Retention
    BY <1>1, <1>2, <2>1
  <2>3. Tail(all)[Len(Tail(all))] = row
    BY <1>1, <2>1, <2>2
  <2>4. Kept(rows, row) = Tail(all)
    BY <1>2 DEF Kept
  <2>. HIDE DEF all
  <2>5. Tail(all) # <<>>
    BY <2>1, <2>2
  <2>. QED  BY <2>1, <2>2, <2>3, <2>4, <2>5
<1>3. CASE ~(Len(all) > Retention)
  <2>1. Kept(rows, row) = all /\ all # <<>>
    BY <1>1, <1>3 DEF Kept
  <2>. HIDE DEF all
  <2>. QED  BY <1>1, <1>3, <2>1
<1>. QED  BY <1>2, <1>3

\* What a transaction writes: the host it found or a new one, which its agent
\* is bound to already, or nobody; and no other host has its agent.
Written(r, h) ==
  /\ host' = [host EXCEPT ![h] = Merged(h, run[r].rep)] /\ hosts' = hosts \cup {h}
  /\ bind' = [bind EXCEPT ![h] = [agent |-> run[r].id, print |-> Fingerprint(run[r].rep), stamp |-> None]]
  /\ reports' = [reports EXCEPT ![h] =
                   Kept(@, [agent |-> run[r].id, print |-> Fingerprint(run[r].rep)])]
  /\ BoundTo(run[r].id) \subseteq {h}
  /\ bind[h] # None => bind[h].agent = run[r].id /\ ~IsClone(bind[h].print, Fingerprint(run[r].rep))

LEMMA CommitWrites ==
  ASSUME IInv, NEW r \in Request, Commit(r)
  PROVE  /\ Ends(r) /\ run[r].id \in AgentId /\ run[r].rep \in Facts
         /\ \E h \in HostId : Written(r, h)
<1>1. TablesPart /\ OpenPart /\ RunOK(run[r]) /\ run[r].at = "write"
  BY DEF IInv, RunsPart, Commit
<1>2. Reads(r)
  BY <1>1 DEF OpenPart
<1>3. PICK h \in HostId :
        /\ IF run[r].target = None THEN h \notin hosts ELSE h = run[r].target
        /\ host' = [host EXCEPT ![h] = Merged(h, run[r].rep)] /\ hosts' = hosts \cup {h}
        /\ bind' = [bind EXCEPT ![h] = [agent |-> run[r].id, print |-> Fingerprint(run[r].rep), stamp |-> None]]
        /\ reports' = [reports EXCEPT ![h] =
                         Kept(@, [agent |-> run[r].id, print |-> Fingerprint(run[r].rep)])]
        /\ Ends(r)
  BY <1>1, IndexHolds DEF Commit
<1>4. CASE run[r].target = None
  <2>1. bind[h] = None
    BY <1>1, <1>3, <1>4 DEF TablesPart, NewestReportIsBound
  <2>2. BoundTo(run[r].id) \subseteq {h}
    BY <1>2, <1>4 DEF Reads, BoundTo
  <2>. QED  BY <1>1, <1>3, <2>1, <2>2 DEF RunOK, Written
<1>5. CASE run[r].target # None
  BY <1>1, <1>2, <1>3, <1>5 DEF RunOK, Written, Reads
<1>. QED  BY <1>4, <1>5

LEMMA CommitTables ==
  ASSUME IInv, NEW r \in Request, Commit(r)
  PROVE  TablesPart'
<1>1. TablesPart
  BY DEF IInv
<1>2. run[r].id \in AgentId /\ run[r].rep \in Facts
  BY CommitWrites
<1>3. PICK h \in HostId : Written(r, h)
  BY CommitWrites
<1>. DEFINE row == Merged(h, run[r].rep)
            binding == [agent |-> run[r].id, print |-> Fingerprint(run[r].rep), stamp |-> None]
            report == [agent |-> run[r].id, print |-> Fingerprint(run[r].rep)]
            kept == Kept(reports[h], report)
<1>4. binding \in BindRow /\ report \in ReportRow
  BY <1>2 DEF Fingerprint, Facts, Prints, BindRow, ReportRow
<1>5. row \in HostRow
  BY <1>1, <1>2 DEF Merged, TablesPart, HostRow, Facts
<1>6. /\ kept \in Seq(ReportRow) /\ kept # <<>> /\ Len(kept) <= Retention
      /\ kept[Len(kept)] = [agent |-> binding.agent, print |-> binding.print]
  BY <1>1, <1>4, KeptOK DEF TablesPart
<1>7. binding.agent = run[r].id
  OBVIOUS
<1>8. /\ host' = [host EXCEPT ![h] = row] /\ hosts' = hosts \cup {h}
      /\ bind' = [bind EXCEPT ![h] = binding] /\ reports' = [reports EXCEPT ![h] = kept]
      /\ BoundTo(run[r].id) \subseteq {h}
  BY <1>1, <1>3 DEF Written, TablesPart
<1>. HIDE DEF row, binding, report, kept
<1>9. NewestReportIsBound'
  BY <1>1, <1>4, <1>5, <1>6, <1>8 DEF TablesPart, NewestReportIsBound
<1>10. Distinct'
  BY <1>1, <1>4, <1>7, <1>8 DEF TablesPart, Distinct, BoundTo
<1>. QED  BY <1>1, <1>4, <1>5, <1>6, <1>8, <1>9, <1>10 DEF TablesPart

LEMMA StampTables ==
  ASSUME IInv, NEW r \in Request, Stamp(r)
  PROVE  /\ TablesPart'
         /\ \A h \in HostId : bind[h] = None => bind'[h] = None
         /\ \A h \in HostId : bind[h] # None =>
              bind'[h] # None /\ bind'[h].agent = bind[h].agent /\ bind'[h].print = bind[h].print
<1>1. TablesPart /\ run[r].rep.name \in Name
  BY DEF IInv, RunsPart, RunOK, Stamp, Facts
<1>2. /\ bind' \in [HostId -> BindRow \cup {None}]
      /\ \A h \in HostId : bind[h] = None => bind'[h] = None
      /\ \A h \in HostId : bind[h] # None =>
           bind'[h] # None /\ bind'[h].agent = bind[h].agent /\ bind'[h].print = bind[h].print
  <2>1. ASSUME NEW h \in HostId
        PROVE  /\ bind'[h] \in BindRow \cup {None}
               /\ bind[h] = None => bind'[h] = None
               /\ bind[h] # None =>
                    bind'[h] # None /\ bind'[h].agent = bind[h].agent /\ bind'[h].print = bind[h].print
    <3>. DEFINE x == [agent |-> bind[h].agent, print |-> bind[h].print, stamp |-> run[r].rep.name]
    <3>1. bind'[h] = IF h \in BoundTo(run[r].id) THEN x ELSE bind[h]
      BY DEF Stamp
    <3>2. CASE h \in BoundTo(run[r].id)
      <4>1. bind[h] # None /\ bind[h] \in BindRow
        BY <1>1, <3>2 DEF BoundTo, TablesPart
      <4>2. x \in BindRow /\ x.agent = bind[h].agent /\ x.print = bind[h].print
        BY <1>1, <4>1 DEF BindRow
      <4>. HIDE DEF x
      <4>. QED  BY <3>1, <3>2, <4>1, <4>2
    <3>3. CASE h \notin BoundTo(run[r].id)
      BY <1>1, <3>1, <3>3 DEF TablesPart
    <3>. QED  BY <3>2, <3>3
  <2>2. bind' = [h \in HostId |-> bind'[h]]
    BY DEF Stamp
  <2>. QED  BY <2>1, <2>2
<1>3. UNCHANGED <<host, hosts, reports>>
  BY DEF Stamp
<1>4. NewestReportIsBound'
  BY <1>1, <1>2, <1>3 DEF TablesPart, NewestReportIsBound
<1>5. Distinct'
  BY <1>1, <1>2 DEF TablesPart, Distinct
<1>. QED  BY <1>1, <1>2, <1>3, <1>4, <1>5 DEF TablesPart

LEMMA PeopleTables == ASSUME IInv, People PROVE TablesPart'
<1>1. TablesPart
  BY DEF IInv
<1>2. CASE UNCHANGED tables
  BY <1>1, <1>2 DEF tables, TablesPart, NewestReportIsBound, Distinct
<1>3. CASE Import
  BY <1>1, <1>3 DEF Import, TablesPart, NewestReportIsBound, Distinct
<1>4. ASSUME NEW h \in HostId, NEW row \in HostRow, host' = [host EXCEPT ![h] = row],
             hosts' = hosts \cup {h}, UNCHANGED <<bind, reports>>
      PROVE  TablesPart'
  BY <1>1, <1>4 DEF TablesPart, NewestReportIsBound, Distinct
<1>5. ASSUME NEW h \in HostId, NEW name \in Name, NEW ips \in SUBSET Addr, AddHost(h, name, ips)
      PROVE  TablesPart'
  <2>1. [name |-> name, ips |-> ips] \in HostRow
    BY DEF HostRow
  <2>. QED  BY <1>4, <1>5, <2>1 DEF AddHost
<1>6. ASSUME NEW h \in HostId, NEW name \in Name, RenameHost(h, name) PROVE TablesPart'
  <2>1. [name |-> name, ips |-> host[h].ips] \in HostRow /\ hosts = hosts \cup {h}
    BY <1>1, <1>6 DEF HostRow, RenameHost, TablesPart
  <2>. QED  BY <1>4, <1>6, <2>1 DEF RenameHost
<1>7. ASSUME NEW h \in HostId, DeleteHost(h) PROVE TablesPart'
  BY <1>1, <1>7 DEF DeleteHost, TablesPart, NewestReportIsBound, Distinct
<1>8. ASSUME NEW h \in HostId, Unbind(h) PROVE TablesPart'
  BY <1>1, <1>8 DEF Unbind, TablesPart, NewestReportIsBound, Distinct
<1>9. ASSUME NEW m \in Machine,
             \/ LoseFile(m) \/ ResetId(m)
             \/ \E name \in Name : RenameMachine(m, name)
             \/ \E macs \in SUBSET Mac : ReplaceCard(m, macs)
             \/ \E n \in Machine \ {m} : CopyFile(m, n)
      PROVE  UNCHANGED tables
  BY <1>9 DEF LoseFile, ResetId, RenameMachine, ReplaceCard, CopyFile, onMachine
<1>. QED  BY <1>2, <1>3, <1>5, <1>6, <1>7, <1>8, <1>9 DEF People

LEMMA AgentTables == ASSUME NEW r \in Request, Agent(r) PROVE UNCHANGED <<tables, lock>>
BY DEF Agent, WriteId, Send, Killed, Conflict, Begin

LEMMA TablesOK == ASSUME IInv, [Next]_vars PROVE TablesPart'
<1>1. CASE UNCHANGED tables
  BY <1>1 DEF IInv, tables, TablesPart, NewestReportIsBound, Distinct
<1>2. CASE ServerDies \/ UNCHANGED vars
  BY <1>1, <1>2 DEF ServerDies, vars
<1>3. ASSUME NEW r \in Request, Server(r) PROVE TablesPart'
  BY <1>1, <1>3, CommitTables, StampTables DEF Server, Open, OpenFails, CommitFails, StampFails
<1>. QED  BY <1>1, <1>2, <1>3, AgentTables, PeopleTables DEF Next
-----------------------------------------------------------------------------
(* The open transaction                                                      *)

\* While nothing is open, no run is about to write.
LEMMA NothingOpen == ASSUME OpenPart, lock = None, NEW r \in Request PROVE run[r].at # "write"
BY DEF OpenPart

\* A run that does not come to write leaves the others what they have read.
LEMMA OpenStays ==
  ASSUME RunsPart, OpenPart, UNCHANGED tables, NEW r \in Request, NEW x, x.at # "write",
         run' = [run EXCEPT ![r] = x],
         lock' = lock \/ (lock = r /\ lock' = None)
  PROVE  OpenPart'
<1>1. run'[r].at # "write" /\ \A q \in Request \ {r} : run'[q] = run[q]
  BY DEF RunsPart
<1>2. ASSUME NEW q \in Request, run'[q].at = "write" PROVE lock' = q /\ Reads(q)'
  <2>1. q # r /\ run'[q] = run[q] /\ lock = q /\ Reads(q)
    BY <1>1, <1>2 DEF OpenPart
  <2>2. Reads(q)'
    BY <2>1 DEF Reads, BoundTo, tables
  <2>. QED  BY <2>1, <2>2
<1>. QED  BY <1>2 DEF OpenPart

\* The lock is free and stays so, or what was open is gone: no run writes.
LEMMA OpenEmpty ==
  ASSUME lock' = None, \A r \in Request : run'[r].at # "write"
  PROVE  OpenPart'
BY DEF OpenPart

LEMMA OpenAgent == ASSUME IInv, NEW r \in Request, Agent(r) PROVE OpenPart'
<1>1. RunsPart /\ OpenPart /\ UNCHANGED tables /\ lock' = lock
  BY AgentTables DEF IInv
<1>2. \E x : x.at # "write" /\ run' = [run EXCEPT ![r] = x]
  <2>1. CASE WriteId(r)
    <3>. DEFINE x == [run[r] EXCEPT !.at = "ready"]
    <3>1. x.at # "write"
      BY <1>1 DEF RunsPart, RunOK, Run
    <3>2. run' = [run EXCEPT ![r] = x]
      BY <2>1 DEF WriteId, Becomes
    <3>. HIDE DEF x
    <3>. QED  BY <3>1, <3>2
  <2>2. CASE Send(r) \/ Killed(r) \/ Conflict(r)
    BY <2>2 DEF Send, Killed, Conflict, Ends, NoRun, At
  <2>3. ASSUME NEW m \in Machine, Begin(r, m) PROVE \E x : x.at # "write" /\ run' = [run EXCEPT ![r] = x]
    BY <2>3 DEF Begin, At
  <2>. QED  BY <2>1, <2>2, <2>3 DEF Agent
<1>. QED  BY <1>1, <1>2, OpenStays

LEMMA OpenServer == ASSUME IInv, NEW r \in Request, Server(r) PROVE OpenPart'
<1>1. RunsPart /\ TablesPart /\ OpenPart /\ RunOK(run[r])
  BY DEF IInv, RunsPart
<1>2. ASSUME Open(r) PROVE OpenPart'
  <2>1. /\ run[r].at = "sent" /\ lock = None /\ UNCHANGED tables /\ run[r].id \in AgentId
    BY <1>1, <1>2 DEF Open, RunOK
  <2>2. ASSUME NEW print, Rejects(r, print), lock' = lock PROVE OpenPart'
    <3>1. \E x : x.at # "write" /\ run' = [run EXCEPT ![r] = x]
      BY <2>2 DEF Rejects, At
    <3>. QED  BY <1>1, <2>1, <2>2, <3>1, OpenStays
  <2>3. ASSUME NEW h \in HostId \cup {None}, Writes(r, h), lock' = r,
               h # None => host[h] # None,
               h # None /\ bind[h] # None =>
                 bind[h].agent = run[r].id /\ ~IsClone(bind[h].print, Fingerprint(run[r].rep)),
               BoundTo(run[r].id) \subseteq {h}
        PROVE  OpenPart'
    <3>. DEFINE x == At("write", run[r].of, run[r].id, run[r].rep, h, None)
    <3>1. run' = [run EXCEPT ![r] = x]
      BY <2>3 DEF Writes
    <3>2. x.id = run[r].id /\ x.rep = run[r].rep /\ x.target = h
      BY DEF At
    <3>. HIDE DEF x
    <3>3. run'[r] = x /\ \A q \in Request \ {r} : run'[q] = run[q]
      BY <1>1, <3>1 DEF RunsPart
    <3>4. Reads(r)'
      BY <2>1, <2>3, <3>2, <3>3 DEF Reads, BoundTo, tables
    <3>5. \A q \in Request \ {r} : run'[q].at # "write"
      BY <1>1, <2>1, <3>3, NothingOpen
    <3>. QED  BY <2>3, <3>4, <3>5 DEF OpenPart
  <2>4. CASE BoundTo(run[r].id) # {}
    <3>1. PICK h \in BoundTo(run[r].id) :
            IF IsClone(bind[h].print, Fingerprint(run[r].rep))
            THEN Rejects(r, bind[h].print) /\ UNCHANGED lock
            ELSE Writes(r, h) /\ lock' = r
      BY <1>2, <2>4 DEF Open
    <3>2. h \in HostId /\ bind[h].agent = run[r].id /\ host[h] # None
      BY <1>1, BoundRow
    <3>3. BoundTo(run[r].id) \subseteq {h}
      BY <1>1 DEF BoundTo, TablesPart, Distinct
    <3>. QED  BY <2>2, <2>3, <3>1, <3>2, <3>3
  <2>5. CASE BoundTo(run[r].id) = {}
    <3>1. PICK h \in IF Matching(run[r].rep) = {} THEN {None} ELSE Matching(run[r].rep) :
            Writes(r, h) /\ lock' = r
      BY <1>2, <2>5 DEF Open
    <3>2. h = None \/ (h \in HostId /\ host[h] # None /\ bind[h] = None)
      BY DEF Matching, Free
    <3>. QED  BY <2>3, <2>5, <3>1, <3>2
  <2>. QED  BY <2>4, <2>5
<1>3. ASSUME Ends(r), UNCHANGED tables, lock' = lock \/ (lock = r /\ lock' = None) PROVE OpenPart'
  <2>1. \E x : x.at # "write" /\ run' = [run EXCEPT ![r] = x]
    BY <1>3 DEF Ends, NoRun, At
  <2>. QED  BY <1>1, <1>3, <2>1, OpenStays
<1>4. CASE OpenFails(r)
  BY <1>3, <1>4 DEF OpenFails
<1>5. CASE CommitFails(r)
  BY <1>1, <1>3, <1>5 DEF CommitFails, OpenPart
<1>6. CASE Commit(r)
  <2>1. run[r].at = "write" /\ lock' = None
    BY <1>6 DEF Commit
  <2>2. \A q \in Request \ {r} : run[q].at # "write"
    BY <1>1, <2>1 DEF OpenPart
  <2>3. \A q \in Request : run'[q].at # "write"
    BY <1>1, <1>6, <2>2, CommitWrites DEF Ends, NoRun, At, RunsPart
  <2>. QED  BY <2>1, <2>3, OpenEmpty
<1>7. CASE Stamp(r) \/ StampFails(r)
  <2>. DEFINE x == [run[r] EXCEPT !.at = "conflict"]
  <2>1. x.at # "write"
    BY <1>1 DEF RunOK, Run
  <2>2. run' = [run EXCEPT ![r] = x]
    BY <1>7 DEF Stamp, StampFails, Becomes
  <2>. HIDE DEF x
  <2>3. CASE Stamp(r)
    <3>1. lock = None /\ lock' = None
      BY <2>3 DEF Stamp
    <3>2. \A q \in Request : run'[q].at # "write"
      BY <1>1, <2>1, <2>2, <3>1, NothingOpen DEF RunsPart
    <3>. QED  BY <3>1, <3>2, OpenEmpty
  <2>4. CASE StampFails(r)
    BY <1>1, <2>1, <2>2, <2>4, OpenStays DEF StampFails
  <2>. QED  BY <1>7, <2>3, <2>4
<1>. QED  BY <1>2, <1>4, <1>5, <1>6, <1>7 DEF Server

LEMMA OpenOK == ASSUME IInv, [Next]_vars PROVE OpenPart'
<1>1. OpenPart
  BY DEF IInv
<1>2. CASE ServerDies
  <2>1. lock' = None /\ \A r \in Request : run'[r].at # "write"
    BY <1>2 DEF ServerDies, NoRun, At
  <2>. QED  BY <2>1, OpenEmpty
<1>3. ASSUME UNCHANGED <<tables, run, lock>> PROVE OpenPart'
  BY <1>1, <1>3 DEF OpenPart, Reads, BoundTo, tables
<1>4. CASE People
  <2>1. CASE lock = None
    <3>1. lock' = None /\ \A r \in Request : run'[r].at # "write"
      BY <1>1, <1>4, <2>1, PeopleRun, NothingOpen
    <3>. QED  BY <3>1, OpenEmpty
  <2>2. CASE lock # None
    <3>1. UNCHANGED tables
      BY <1>4, <2>2 DEF People, Import, DeleteHost, Unbind, RenameHost, AddHost, LoseFile, ResetId,
                        RenameMachine, ReplaceCard, CopyFile, onServer, onMachine
    <3>. QED  BY <1>3, <1>4, <3>1, PeopleRun
  <2>. QED  BY <2>1, <2>2
<1>5. CASE UNCHANGED vars
  BY <1>3, <1>5 DEF vars
<1>. QED  BY <1>2, <1>4, <1>5, OpenAgent, OpenServer DEF Next

LEMMA Inductive == IInv /\ [Next]_vars => IInv'
BY MachinesOK, RunsOK, TablesOK, OpenOK DEF IInv

LEMMA Invariance == Spec => []IInv
BY InitOK, Inductive, PTL DEF Spec

-----------------------------------------------------------------------------
(* What it is all for                                                        *)

\* Only clones are answered with a conflict, however the runs of the agents,
\* the reports and the edits of the hosts come one upon the other.
THEOREM VerdictsAlwaysStand == Spec => []VerdictsStand
<1>1. IInv => TypeOK
  <2>1. RunsPart => run \in [Request -> Run]
    BY DEF RunsPart, RunOK
  <2>. QED  BY <2>1 DEF IInv, MachinesPart, TablesPart, OpenPart, TypeOK
<1>2. IInv => ConflictMeansClone
  BY DEF IInv, RunsPart, RunOK, ConflictMeansClone
<1>. QED  BY <1>1, <1>2, Invariance, PTL DEF VerdictsStand

\* The newest report kept of a host is of the machine that it is bound to.
THEOREM ReportsAreTheMachines == Spec => []NewestReportIsBound
<1>1. IInv => NewestReportIsBound
  BY DEF IInv, TablesPart
<1>. QED  BY <1>1, Invariance, PTL

LEMMA ServerBinds ==
  ASSUME IInv, [Next]_vars
  PROVE  \/ \E r \in Request : Stamp(r)
         \/ \E r \in Request : Commit(r)
         \/ \A h \in HostId : bind'[h] \in {bind[h], None}
<1>1. bind = [h \in HostId |-> bind[h]]
  BY DEF IInv, TablesPart
<1>2. CASE UNCHANGED tables
  BY <1>2 DEF tables
<1>3. CASE People
  BY <1>1, <1>3 DEF People, Import, DeleteHost, Unbind, RenameHost, AddHost, LoseFile, ResetId,
              RenameMachine, ReplaceCard, CopyFile, onServer, onMachine, tables
<1>4. ASSUME NEW r \in Request, Server(r), ~Stamp(r), ~Commit(r) PROVE UNCHANGED tables
  BY <1>4 DEF Server, Open, OpenFails, CommitFails, StampFails
<1>5. CASE ServerDies \/ UNCHANGED vars
  BY <1>5 DEF ServerDies, vars, tables
<1>. QED  BY <1>2, <1>3, <1>4, <1>5, AgentTables DEF Next

\* No clone's report is taken for the machine that a host is bound to.
THEOREM ClonesStayOut == Spec => ClonesKeepOut
<1>. DEFINE Same(h) ==
       bind[h] # None /\ bind'[h] # None =>
         \/ bind'[h].print.name = bind[h].print.name
         \/ bind'[h].print.macs \cap bind[h].print.macs # {}
<1>1. ASSUME IInv, [Next]_vars PROVE \A h \in HostId : Same(h)
  <2>1. ASSUME NEW r \in Request, Stamp(r) PROVE \A h \in HostId : Same(h)
    BY <1>1, <2>1, StampTables
  <2>2. ASSUME NEW r \in Request, Commit(r) PROVE \A h \in HostId : Same(h)
    <3>1. PICK g \in HostId : Written(r, g)
      BY <1>1, <2>2, CommitWrites
    <3>2. ASSUME NEW h \in HostId PROVE Same(h)
      <4>1. CASE h = g
        <5>1. /\ bind'[h].print = Fingerprint(run[r].rep)
              /\ bind[h] # None => ~IsClone(bind[h].print, Fingerprint(run[r].rep))
          BY <1>1, <3>1, <4>1 DEF Written, IInv, TablesPart
        <5>. QED  BY <5>1 DEF IsClone
      <4>2. CASE h # g
        BY <1>1, <3>1, <4>2 DEF Written, IInv, TablesPart, NewestReportIsBound
      <4>. QED  BY <4>1, <4>2
    <3>. QED  BY <3>2
  <2>3. CASE \A h \in HostId : bind'[h] \in {bind[h], None}
    BY <2>3
  <2>. QED  BY <1>1, <2>1, <2>2, <2>3, ServerBinds
<1>. QED  BY <1>1, Invariance, PTL DEF Spec, ClonesKeepOut

\* The agent of each host, as Bindings sees it.
Owner == [h \in HostId |-> IF bind[h] = None THEN None ELSE bind[h].agent]

\* Every step of the ingest takes a free host for a free agent, or gives hosts
\* back, or leaves the bindings as they are: host_agents is what Bindings says.
THEOREM IngestKeepsBindings == Spec => KeepsBindings
<1>1. ASSUME Init PROVE Registry!Init
  BY <1>1 DEF Init, Registry!Init
<1>2. ASSUME IInv, [Next]_vars PROVE Registry!Next \/ Owner' = Owner
  <2>1. TablesPart /\ TablesPart'
    BY <1>2, TablesOK DEF IInv
  <2>2. ASSUME NEW r \in Request, Stamp(r) PROVE Owner' = Owner
    BY <1>2, <2>2, StampTables DEF Owner
  <2>3. ASSUME NEW r \in Request, Commit(r) PROVE Registry!Next \/ Owner' = Owner
    <3>1. PICK g \in HostId : Written(r, g)
      BY <1>2, <2>3, CommitWrites
    <3>2. run[r].id \in AgentId
      BY <1>2, <2>3, CommitWrites
    <3>. DEFINE binding == [agent |-> run[r].id, print |-> Fingerprint(run[r].rep), stamp |-> None]
    <3>3. bind' = [bind EXCEPT ![g] = binding] /\ binding.agent = run[r].id
      BY <3>1 DEF Written
    <3>. HIDE DEF binding
    <3>4. bind'[g] # None
      <4>1. bind'[g] = [agent |-> run[r].id, print |-> Fingerprint(run[r].rep), stamp |-> None]
        BY <2>1, <3>1 DEF Written, TablesPart
      <4>2. bind'[g] \in BindRow
        <5>1. run[r].rep \in Facts
          BY <1>2, <2>3, CommitWrites
        <5>2. Fingerprint(run[r].rep) \in Prints
          BY <5>1 DEF Fingerprint, Facts, Prints
        <5>. QED  BY <3>2, <4>1, <5>2 DEF BindRow
      <4>. QED  BY <4>2
    <3>5. Owner' = [Owner EXCEPT ![g] = run[r].id]
      BY <2>1, <3>3, <3>4 DEF Owner, TablesPart
    <3>6. CASE bind[g] = None
      <4>1. Owner[g] = None /\ \A h \in HostId : Owner[h] # run[r].id
        BY <3>1, <3>2, <3>6 DEF Written, BoundTo, Owner
      <4>. QED  BY <3>2, <3>5, <4>1 DEF Registry!Next, Registry!Take, Owner
    <3>7. CASE bind[g] # None
      <4>1. Owner[g] = run[r].id
        BY <3>1, <3>7 DEF Written, Owner
      <4>. QED  BY <3>5, <4>1 DEF Owner
    <3>. QED  BY <3>6, <3>7
  <2>4. CASE \A h \in HostId : bind'[h] \in {bind[h], None}
    <3>. DEFINE freed == {h \in HostId : bind'[h] = None}
    <3>1. Owner' = [h \in HostId |-> IF h \in freed THEN None ELSE Owner[h]]
      BY <2>4 DEF Owner
    <3>2. freed \in SUBSET HostId
      OBVIOUS
    <3>. HIDE DEF freed
    <3>. QED  BY <3>1, <3>2 DEF Registry!Next, Registry!Release, Owner
  <2>. QED  BY <1>2, <2>2, <2>3, <2>4, ServerBinds
<1>3. ASSUME IInv, [Next]_vars PROVE [Registry!Next]_Owner
  BY <1>2, <1>3
<1>. QED  BY <1>1, <1>3, Invariance, PTL DEF Spec, KeepsBindings, Registry!Spec, Owner
=============================================================================
