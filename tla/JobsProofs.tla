------------------------------ MODULE JobsProofs ------------------------------
(***************************************************************************)
(* Proofs about the background jobs, for any number of certificates,        *)
(* targets, channels and findings, any jobs registered together, and        *)
(* faults, edits, imports and shutdowns at any point.                       *)
(*                                                                          *)
(* The inductive invariant has a part for the process and one for each job. *)
(* What a part adds to the property it is for is what the pass has read and *)
(* not yet used: the items still to be sent are not marked, the rows to be  *)
(* written back are rows, the prior status of a target is one that was      *)
(* announced or lost, and a finding that is not fresh was so before.        *)
(***************************************************************************)
EXTENDS Jobs, TLAPS

ProcessInv ==
  /\ phase \in {"down", "up", "stopping"}
  /\ registered \subseteq Job
  /\ loop \in [Job -> {"off", "first", "pass", "select"}]
  /\ tick \in [Job -> BOOLEAN] /\ trigger \in [Job -> BOOLEAN]
  /\ expired \in [Job -> BOOLEAN] /\ asked \in [Job -> BOOLEAN]
  /\ faults \in 0 .. MaxFaults /\ events \in 0 .. MaxEvents

Notes ==
  [at : {"gather", "sent", "work", "mark"}, due : SUBSET Cert, clear : SUBSET Cert,
   todo : SUBSET Cert, item : Cert \cup {None}]

NoteInv ==
  /\ note \in Notes
  /\ marks \subseteq Cert /\ reached \in [Cert -> SUBSET Channel] /\ excused \subseteq Cert
  /\ note.at \in {"work", "mark"} => note.todo \cap marks = {}
  /\ note.at = "mark" => note.item \in Cert /\ reached[note.item] = Channel
  /\ MarkedHasReachedAll /\ ReachedIsMarked

Probes ==
  [at : {"idle", "next", "read", "dial", "store", "failed"}, todo : SUBSET Cert,
   rows : [Cert -> Row \cup {None}], id : Cert \cup {None}, prev : Probed \cup {None}, due : BOOLEAN]

\* What holds of what a prober keeps: it has a row of each certificate it is at
\* or has before it.
ProbeOK(x) ==
  /\ x \in Probes
  /\ \A c \in x.todo : x.rows[c] \in Row
  /\ x.at \in {"read", "dial", "store", "failed"} => x.id \in Cert /\ x.rows[x.id] \in Row

ProbeInv ==
  /\ probe \in [Prober -> Probes] /\ \A p \in Prober : ProbeOK(probe[p])
  /\ cert \in [Cert -> Row \cup {None}] /\ edited \subseteq Cert
  /\ probed \in [Cert -> Probed \cup {None}]
  /\ ProbesAgree

Checks ==
  [at : {"idle", "dial", "read", "store", "notify", "done"}, status : {"up", "down"},
   prior : {"up", "down", None}]

TargetOK(t) ==
  /\ live[t] # None => live[t] = told[t] \/ t \in lost \/ check[t].at = "notify"
  /\ check[t].at = "store" /\ check[t].prior # None => check[t].prior = told[t] \/ t \in lost
  /\ check[t].at = "notify" => live[t] \in {check[t].status, None}

CheckInv ==
  /\ check \in [Target -> Checks]
  /\ live \in [Target -> {"up", "down", None}] /\ told \in [Target -> {"up", "down", None}]
  /\ \A t \in Target : TargetOK(t)

Scans == [at : {"scan", "baseline", "record", "notify"}, keys : SUBSET Finding, fresh : SUBSET Finding]

ScanInv ==
  /\ scan \in Scans /\ scan.fresh \subseteq scan.keys
  /\ runs \in (SUBSET Finding) \cup {None} /\ announced \subseteq Finding
  /\ scan.at = "record" => scan.keys \subseteq scan.fresh \cup announced \cup lost
  /\ FindingsAreAnnounced

WorldInv ==
  /\ served \in [Cert -> BOOLEAN] /\ reach \in [Target -> {"up", "down"}]
  /\ found \subseteq Finding /\ tracked \subseteq Finding
  /\ lost \subseteq Target \cup Finding

IInv == ProcessInv /\ NoteInv /\ ProbeInv /\ CheckInv /\ ScanInv /\ WorldInv

LEMMA InvImplies ==
  ASSUME IInv
  PROVE  MarksAgree /\ ProbesAgree /\ NothingIsSkipped
<1>1. TypeOK
  BY DEF IInv, ProcessInv, NoteInv, Notes, ProbeInv, Probes, CheckInv, Checks, ScanInv, Scans, WorldInv, TypeOK
<1>2. FlipsAreAnnounced
  BY DEF IInv, CheckInv, TargetOK, FlipsAreAnnounced
<1>. QED  BY <1>1, <1>2 DEF IInv, NoteInv, ProbeInv, ScanInv, MarksAgree, NothingIsSkipped

LEMMA InitOK == Init => IInv
<1>. SUFFICES ASSUME Init PROVE IInv
  OBVIOUS
<1>1. ProcessInv
  BY RegistrationsAssumption, BoundsAssumption DEF Init, ProcessInv
<1>2. NoteInv
  BY ChannelAssumption DEF Init, NoteInv, Notes, NoNote, MarkedHasReachedAll, ReachedIsMarked
<1>3. ProbeInv
  <2>1. NoProbe \in Probes
    BY DEF NoProbe, Probes
  <2>2. ProbeOK(NoProbe)
    BY <2>1 DEF NoProbe, ProbeOK
  <2>. QED  BY <2>1, <2>2 DEF Init, ProbeInv, ProbesAgree, Row
<1>4. CheckInv
  BY DEF Init, CheckInv, Checks, NoCheck, TargetOK
<1>5. ScanInv
  BY DEF Init, ScanInv, Scans, NoScan, FindingsAreAnnounced
<1>6. WorldInv
  BY DEF Init, WorldInv
<1>. QED  BY <1>1, <1>2, <1>3, <1>4, <1>5, <1>6 DEF IInv

-----------------------------------------------------------------------------
(* What leaves a part's variables alone keeps it.                            *)

LEMMA ProcessKept ==
  ASSUME ProcessInv, UNCHANGED faults \/ Fault, UNCHANGED events \/ Event,
         UNCHANGED process \/ \E j \in Job : EndsPass(j)
  PROVE  ProcessInv'
<1>1. faults' \in 0 .. MaxFaults /\ events' \in 0 .. MaxEvents
  BY BoundsAssumption DEF ProcessInv, Fault, Event
<1>. QED  BY <1>1 DEF ProcessInv, process, EndsPass

LEMMA NoteKept ==
  ASSUME NoteInv, UNCHANGED noteVars
  PROVE  NoteInv'
BY DEF NoteInv, noteVars, MarkedHasReachedAll, ReachedIsMarked

LEMMA ProbeKept ==
  ASSUME ProbeInv, UNCHANGED probeVars
  PROVE  ProbeInv'
BY DEF ProbeInv, probeVars, ProbesAgree

LEMMA CheckKept ==
  ASSUME CheckInv, UNCHANGED <<checkVars, told>>, lost \cap Target \subseteq lost'
  PROVE  CheckInv'
BY DEF CheckInv, checkVars, TargetOK

LEMMA ScanKept ==
  ASSUME ScanInv, UNCHANGED <<scanVars, announced>>, lost \cap Finding \subseteq lost'
  PROVE  ScanInv'
<1>1. scan.keys \subseteq Finding /\ (runs # None => runs \subseteq Finding)
  BY DEF ScanInv, Scans
<1>. QED  BY <1>1 DEF ScanInv, scanVars, FindingsAreAnnounced

LEMMA WorldKept ==
  ASSUME WorldInv, UNCHANGED <<outside, lost>>
  PROVE  WorldInv'
BY DEF WorldInv, outside

-----------------------------------------------------------------------------
(* The notifier.                                                             *)

LEMMA ExpiryKeeps ==
  ASSUME IInv, Expiry
  PROVE  NoteInv'
<1>. USE DEF IInv, NoteInv, Notes, MarkedHasReachedAll, ReachedIsMarked
<1>1. CASE Gather
  BY <1>1 DEF Gather
<1>2. CASE Decide
  BY <1>2 DEF Decide
<1>3. ASSUME NEW c \in Cert, ClearMark(c) PROVE NoteInv'
  <2>1. /\ note.at = "work" /\ marks' = marks \ {c} /\ excused' = excused \ {c}
        /\ reached' = [reached EXCEPT ![c] = {}]
        /\ note' = [note EXCEPT !.clear = @ \ {c}]
    BY <1>3 DEF ClearMark
  <2>2. note' \in Notes /\ note'.at = "work" /\ note'.todo = note.todo
    BY <2>1
  <2>3. reached'[c] # Channel /\ \A d \in Cert : d # c => reached'[d] = reached[d]
    BY <2>1, ChannelAssumption
  <2>4. MarkedHasReachedAll' /\ ReachedIsMarked'
    BY <2>1, <2>2, <2>3
  <2>. QED  BY <2>1, <2>2, <2>4
<1>4. ASSUME NEW c \in Cert, Send(c) PROVE NoteInv'
  <2>1. PICK got \in SUBSET Channel :
          /\ note.at = "work" /\ c \in note.todo
          /\ reached' = [reached EXCEPT ![c] = got]
          /\ note' = IF got = Channel THEN [note EXCEPT !.at = "mark", !.item = c]
                     ELSE [note EXCEPT !.todo = @ \ {c}]
    BY <1>4 DEF Send
  <2>2. marks' = marks /\ excused' = excused /\ c \notin marks
    BY <1>4, <2>1 DEF Send
  <2>3. reached'[c] = got /\ \A d \in Cert : d # c => reached'[d] = reached[d]
    BY <2>1
  <2>. QED  BY <2>1, <2>2, <2>3
<1>5. CASE Mark
  <2>1. /\ note.at = "mark" /\ marks' = marks \cup {note.item}
        /\ note' = [note EXCEPT !.at = "work", !.todo = @ \ {note.item}, !.item = None]
        /\ UNCHANGED <<reached, excused>>
    BY <1>5 DEF Mark
  <2>. QED  BY <2>1
<1>6. CASE NoteFails
  BY <1>6 DEF NoteFails, NoNote
<1>7. CASE NoteDone
  BY <1>7 DEF NoteDone, NoNote
<1>. QED  BY <1>1, <1>2, <1>3, <1>4, <1>5, <1>6, <1>7 DEF Expiry

LEMMA ExpiryOK ==
  ASSUME IInv, Expiry
  PROVE  IInv'
<1>1. /\ UNCHANGED besidesNote
      /\ UNCHANGED faults \/ Fault
      /\ UNCHANGED process \/ EndsPass("expiry")
  BY DEF Expiry, Gather, Decide, ClearMark, Send, Mark, NoteFails, NoteDone, process, EndsPass
<1>2. ProcessInv'
  BY <1>1, ProcessKept DEF IInv, Job, besidesNote
<1>. QED  BY <1>1, <1>2, ExpiryKeeps, ProbeKept, CheckKept, ScanKept, WorldKept
          DEF IInv, besidesNote, talk, checkVars, scanVars

-----------------------------------------------------------------------------
(* The certificate prober, and the button.                                   *)

\* A prober goes on, and the tables stay.
LEMMA ProbeGoesOn ==
  ASSUME ProbeInv, NEW p \in Prober, NEW x, ProbeOK(x),
         probe' = [probe EXCEPT ![p] = x], UNCHANGED <<cert, probed, edited>>
  PROVE  ProbeInv'
<1>1. x \in Probes
  BY DEF ProbeOK
<1>2. probe' \in [Prober -> Probes] /\ probe'[p] = x /\ \A q \in Prober : q # p => probe'[q] = probe[q]
  BY <1>1 DEF ProbeInv
<1>3. \A q \in Prober : ProbeOK(probe[q])'
  <2>. TAKE q \in Prober
  <2>1. CASE q = p
    BY <2>1, <1>2 DEF ProbeOK
  <2>2. CASE q # p
    BY <2>2, <1>2 DEF ProbeInv, ProbeOK
  <2>. QED  BY <2>1, <2>2
<1>. QED  BY <1>2, <1>3 DEF ProbeInv, ProbesAgree

\* The prober records something of its certificate.
LEMMA ProbeRecords ==
  ASSUME ProbeInv, NEW p \in Prober, ProbeOK(AfterProbe(p)),
         probe' = [probe EXCEPT ![p] = AfterProbe(p)],
         cert' \in [Cert -> Row \cup {None}], edited' \subseteq Cert,
         probed' \in [Cert -> Probed \cup {None}], ProbesAgree'
  PROVE  ProbeInv'
<1>. DEFINE x == AfterProbe(p)
<1>. HIDE DEF x
<1>0. ProbeOK(x) /\ probe' = [probe EXCEPT ![p] = x]
  BY DEF x
<1>1. x \in Probes
  BY <1>0 DEF ProbeOK
<1>2. probe' \in [Prober -> Probes] /\ probe'[p] = x /\ \A q \in Prober : q # p => probe'[q] = probe[q]
  BY <1>0, <1>1 DEF ProbeInv
<1>3. \A q \in Prober : ProbeOK(probe'[q])
  BY <1>0, <1>2 DEF ProbeInv
<1>. QED  BY <1>2, <1>3 DEF ProbeInv, ProbeOK

LEMMA NoProbeOK == ProbeOK(NoProbe)
BY DEF NoProbe, Probes, ProbeOK

LEMMA AfterProbeOK ==
  ASSUME ProbeInv, NEW p \in Prober
  PROVE  ProbeOK(AfterProbe(p))
<1>1. CASE p = "button"
  BY <1>1, NoProbeOK DEF AfterProbe
<1>2. CASE p # "button"
  <2>1. probe[p] \in Probes /\ ProbeOK(probe[p])
    BY DEF ProbeInv
  <2>. QED  BY <1>2, <2>1 DEF AfterProbe, ProbeOK, Probes
<1>. QED  BY <1>1, <1>2

LEMMA ProbeOneKeeps ==
  ASSUME IInv, NEW p \in Prober, ProbeOne(p)
  PROVE  ProbeInv'
<1>1. ProbeInv /\ probe[p] \in Probes /\ ProbeOK(probe[p]) /\ WorldInv
  BY DEF IInv, ProbeInv
<1>2. CASE PriorState(p)
  <2>. DEFINE x == [probe[p] EXCEPT !.at = "dial", !.prev = probed[probe[p].id]]
  <2>1. probe' = [probe EXCEPT ![p] = x] /\ UNCHANGED <<cert, probed, edited>> /\ probe[p].at = "read"
    BY <1>2 DEF PriorState
  <2>2. probed[probe[p].id] \in Probed \cup {None}
    BY <1>1, <2>1 DEF ProbeInv, ProbeOK
  <2>3. ProbeOK(x)
    BY <1>1, <2>1, <2>2 DEF ProbeOK, Probes
  <2>. QED  BY <1>1, <2>1, <2>3, ProbeGoesOn
<1>3. CASE DialTLS(p)
  <2>1. UNCHANGED <<cert, probed, edited>> /\ probe[p].at = "dial"
    BY <1>3 DEF DialTLS
  <2>2. \/ probe' = [probe EXCEPT ![p] = [probe[p] EXCEPT !.at = "store", !.due = served[probe[p].id]]]
        \/ probe' = [probe EXCEPT ![p] = [probe[p] EXCEPT !.at = "failed"]]
        \/ probe' = [probe EXCEPT ![p] = AfterProbe(p)]
    BY <1>3 DEF DialTLS
  <2>3. ProbeOK([probe[p] EXCEPT !.at = "store", !.due = served[probe[p].id]])
    BY <1>1, <2>1 DEF ProbeOK, Probes, WorldInv
  <2>4. ProbeOK([probe[p] EXCEPT !.at = "failed"])
    BY <1>1, <2>1 DEF ProbeOK, Probes
  <2>. QED  BY <1>1, <2>1, <2>2, <2>3, <2>4, AfterProbeOK, ProbeGoesOn
<1>4. CASE RecordFailure(p)
  <2>. DEFINE c == probe[p].id
              new == [ok |-> FALSE, due |-> IF probe[p].prev = None THEN FALSE ELSE probe[p].prev.due]
  <2>1. /\ probe[p].at = "failed" /\ UNCHANGED <<cert, edited>>
        /\ probed' = [probed EXCEPT ![c] = new]
        /\ probe' = [probe EXCEPT ![p] = AfterProbe(p)]
    BY <1>4 DEF RecordFailure
  <2>2. c \in Cert /\ new \in Probed /\ ~new.ok
    BY <1>1, <2>1 DEF ProbeOK, Probes, Probed
  <2>. HIDE DEF new, c
  <2>3. /\ probed' \in [Cert -> Probed \cup {None}] /\ probed'[c] = new
        /\ \A d \in Cert : d # c => probed'[d] = probed[d]
    BY <1>1, <2>1, <2>2 DEF ProbeInv
  <2>4. ProbesAgree'
    BY <1>1, <2>1, <2>2, <2>3 DEF ProbeInv, ProbesAgree
  <2>. QED  BY <1>1, <2>1, <2>3, <2>4, AfterProbeOK, ProbeRecords DEF ProbeInv
<1>5. CASE RecordProbe(p)
  <2>. DEFINE c == probe[p].id
              row == [probe[p].rows[c] EXCEPT !.due = probe[p].due]
              new == [ok |-> TRUE, due |-> probe[p].due]
  <2>1. /\ probe[p].at = "store" /\ probe' = [probe EXCEPT ![p] = AfterProbe(p)]
        /\ \/ UNCHANGED <<cert, probed, edited>>
           \/ /\ cert' = [cert EXCEPT ![c] = row]
              /\ probed' = [probed EXCEPT ![c] = new]
              /\ edited' = edited \ {c}
    BY <1>5 DEF RecordProbe
  <2>2. c \in Cert /\ row \in Row /\ new \in Probed /\ row.due = new.due
    BY <1>1, <2>1 DEF ProbeOK, Probes, Probed, Row
  <2>. HIDE DEF row, new, c
  <2>3. CASE UNCHANGED <<cert, probed, edited>>
    BY <2>3, <1>1, <2>1, AfterProbeOK, ProbeGoesOn
  <2>4. CASE /\ cert' = [cert EXCEPT ![c] = row]
             /\ probed' = [probed EXCEPT ![c] = new]
             /\ edited' = edited \ {c}
    <3>1. /\ probed' \in [Cert -> Probed \cup {None}] /\ cert' \in [Cert -> Row \cup {None}]
          /\ probed'[c] = new /\ cert'[c] = row
          /\ \A d \in Cert : d # c => probed'[d] = probed[d] /\ cert'[d] = cert[d]
      BY <1>1, <2>2, <2>4 DEF ProbeInv
    <3>2. ProbesAgree'
      BY <1>1, <2>2, <2>4, <3>1 DEF ProbeInv, ProbesAgree
    <3>3. edited' \subseteq Cert
      BY <1>1, <2>4 DEF ProbeInv
    <3>. QED  BY <1>1, <2>1, <3>1, <3>2, <3>3, AfterProbeOK, ProbeRecords
  <2>. QED  BY <2>1, <2>3, <2>4
<1>6. CASE ProbeWriteFails(p)
  BY <1>1, <1>6, AfterProbeOK, ProbeGoesOn DEF ProbeWriteFails
<1>. QED  BY <1>2, <1>3, <1>4, <1>5, <1>6 DEF ProbeOne

LEMMA ProbeOneOK ==
  ASSUME IInv, NEW p \in Prober, ProbeOne(p)
  PROVE  IInv'
<1>1. UNCHANGED besidesProbe /\ UNCHANGED process /\ (UNCHANGED faults \/ Fault)
  BY DEF ProbeOne, PriorState, DialTLS, RecordFailure, RecordProbe, ProbeWriteFails, KeepsPass
<1>2. ProcessInv'
  BY <1>1, ProcessKept DEF IInv, besidesProbe
<1>. QED  BY <1>1, <1>2, ProbeOneKeeps, NoteKept, CheckKept, ScanKept, WorldKept
          DEF IInv, besidesProbe, talk, checkVars, scanVars

LEMMA CertProbeOK ==
  ASSUME IInv, CertProbe
  PROVE  IInv'
<1>1. ProbeInv /\ "job" \in Prober /\ probe["job"] \in Probes /\ ProbeOK(probe["job"])
  BY DEF IInv, ProbeInv, Prober
<1>2. ASSUME ProbeList PROVE ProbeInv'
  <2>. DEFINE x == [NoProbe EXCEPT !.at = "next", !.rows = cert, !.todo = {c \in Cert : cert[c] # None}]
  <2>1. ProbeOK(x)
    BY <1>1 DEF ProbeOK, Probes, NoProbe, ProbeInv
  <2>2. probe' = [probe EXCEPT !["job"] = x] /\ UNCHANGED <<cert, probed, edited>>
    BY <1>2 DEF ProbeList
  <2>. HIDE DEF x
  <2>. QED  BY <1>1, <2>1, <2>2, ProbeGoesOn
<1>3. ASSUME NEW c \in Cert, ProbeNext(c) PROVE ProbeInv'
  <2>. DEFINE x == [probe["job"] EXCEPT !.at = "read", !.id = c, !.todo = @ \ {c}]
  <2>1. ProbeOK(x)
    BY <1>1, <1>3 DEF ProbeNext, ProbeOK, Probes
  <2>2. probe' = [probe EXCEPT !["job"] = x] /\ UNCHANGED <<cert, probed, edited>>
    BY <1>3 DEF ProbeNext
  <2>. QED  BY <1>1, <2>1, <2>2, ProbeGoesOn
<1>4. ASSUME ProbePassEnds PROVE ProbeInv'
  <2>1. probe' = [probe EXCEPT !["job"] = NoProbe] /\ UNCHANGED <<cert, probed, edited>>
    BY <1>4 DEF ProbePassEnds
  <2>. QED  BY <1>1, <2>1, NoProbeOK, ProbeGoesOn
<1>5. ASSUME ProbeList \/ ProbePassEnds \/ \E c \in Cert : ProbeNext(c) PROVE IInv'
  <2>1. /\ UNCHANGED besidesProbe /\ UNCHANGED faults
        /\ UNCHANGED process \/ EndsPass("cert-probe")
    BY <1>5 DEF ProbeList, ProbePassEnds, ProbeNext, KeepsPass
  <2>2. ProcessInv'
    BY <2>1, ProcessKept DEF IInv, besidesProbe, Job
  <2>. QED  BY <1>2, <1>3, <1>4, <1>5, <2>1, <2>2, NoteKept, CheckKept, ScanKept, WorldKept
            DEF IInv, besidesProbe, talk, checkVars, scanVars
<1>. QED  BY <1>1, <1>5, ProbeOneOK DEF CertProbe

-----------------------------------------------------------------------------
(* The liveness checks.                                                      *)

\* A check goes on; what it stores and sends is of its target.
LEMMA CheckGoesOn ==
  ASSUME CheckInv, NEW t \in Target, NEW x \in Checks, check' = [check EXCEPT ![t] = x],
         NEW s \in {"up", "down", None}, live' = [live EXCEPT ![t] = s],
         NEW k \in {"up", "down", None}, told' = [told EXCEPT ![t] = k],
         lost \ {t} \subseteq lost',
         s # None => s = k \/ t \in lost' \/ x.at = "notify",
         x.at = "store" /\ x.prior # None => x.prior = k \/ t \in lost',
         x.at = "notify" => s \in {x.status, None}
  PROVE  CheckInv'
<1>1. /\ check' \in [Target -> Checks] /\ check'[t] = x
      /\ live' \in [Target -> {"up", "down", None}] /\ live'[t] = s
      /\ told' \in [Target -> {"up", "down", None}] /\ told'[t] = k
      /\ \A u \in Target : u # t => check'[u] = check[u] /\ live'[u] = live[u] /\ told'[u] = told[u]
  BY DEF CheckInv
<1>2. ASSUME NEW u \in Target PROVE TargetOK(u)'
  <2>1. CASE u = t
    BY <2>1, <1>1 DEF TargetOK
  <2>2. CASE u # t
    BY <2>2, <1>1 DEF CheckInv, TargetOK
  <2>. QED  BY <2>1, <2>2
<1>. QED  BY <1>1, <1>2 DEF CheckInv

LEMMA CheckKeeps ==
  ASSUME IInv, NEW t \in Target, Check(t)
  PROVE  CheckInv' /\ WorldInv' /\ lost \cap Finding \subseteq lost'
<1>1. /\ CheckInv /\ WorldInv /\ check[t] \in Checks /\ TargetOK(t)
      /\ live[t] \in {"up", "down", None} /\ told[t] \in {"up", "down", None}
      /\ live = [live EXCEPT ![t] = live[t]] /\ told = [told EXCEPT ![t] = told[t]]
  BY DEF IInv, CheckInv
<1>2. t \notin Finding
  BY KindsAssumption
<1>3. lost' = lost \/ lost' = lost \cup {t} \/ lost' = lost \ {t}
  BY DEF Check, Dial, ReadPrior, StoreStatus, CheckFails, Notify
<1>4. UNCHANGED outside
  BY DEF Check, Dial, ReadPrior, StoreStatus, CheckFails, Notify, CheckedBy, besidesCheck
<1>5. WorldInv' /\ lost \cap Finding \subseteq lost'
  BY <1>1, <1>2, <1>3, <1>4 DEF WorldInv, outside
<1>. DEFINE done == [NoCheck EXCEPT !.at = "done"]
<1>6. done \in Checks /\ done.at = "done"
  BY DEF NoCheck, Checks
<1>7. CASE Dial(t)
  <2>1. UNCHANGED <<live, told, lost>> /\ check[t].at = "dial"
    BY <1>7 DEF Dial
  <2>2. \/ check' = [check EXCEPT ![t] = done]
        \/ \E status \in {"up", "down"} :
             check' = [check EXCEPT ![t] = [check[t] EXCEPT !.at = "read", !.status = status]]
    BY <1>7 DEF Dial, CheckAt
  <2>3. \A status \in {"up", "down"} :
          [check[t] EXCEPT !.at = "read", !.status = status] \in {x \in Checks : x.at = "read"}
    BY <1>1 DEF Checks
  <2>. HIDE DEF done
  <2>4. PICK x \in Checks : check' = [check EXCEPT ![t] = x] /\ x.at \in {"done", "read"}
    BY <1>6, <2>2, <2>3
  <2>. QED  BY <1>1, <1>5, <2>1, <2>4, CheckGoesOn DEF TargetOK
<1>8. CASE ReadPrior(t)
  <2>. DEFINE x == [check[t] EXCEPT !.at = "store", !.prior = live[t]]
  <2>1. UNCHANGED <<live, told, lost>> /\ check[t].at = "read" /\ check' = [check EXCEPT ![t] = x]
    BY <1>8 DEF ReadPrior
  <2>2. x \in Checks /\ x.at = "store" /\ x.prior = live[t]
    BY <1>1 DEF Checks
  <2>3. live[t] # None => live[t] = told[t] \/ t \in lost
    BY <1>1, <2>1 DEF TargetOK
  <2>. HIDE DEF x
  <2>. QED  BY <1>1, <1>5, <2>1, <2>2, <2>3, CheckGoesOn
<1>9. CASE StoreStatus(t)
  <2>. DEFINE s == check[t].status
              x == [check[t] EXCEPT !.at = "notify"]
  <2>1. check[t].at = "store" /\ live' = [live EXCEPT ![t] = s] /\ s \in {"up", "down"}
    BY <1>1, <1>9 DEF StoreStatus, Checks
  <2>2. CASE check[t].prior = None
    <3>1. /\ check' = [check EXCEPT ![t] = done]
          /\ told' = [told EXCEPT ![t] = s] /\ lost' = lost \ {t}
      BY <1>9, <2>2 DEF StoreStatus, CheckAt
    <3>. HIDE DEF s, done
    <3>. QED  BY <1>1, <1>5, <1>6, <2>1, <3>1, CheckGoesOn
  <2>3. CASE check[t].prior # None /\ check[t].prior = s
    <3>1. check' = [check EXCEPT ![t] = done] /\ UNCHANGED <<told, lost>>
      BY <1>9, <2>3 DEF StoreStatus, CheckAt
    <3>2. s = told[t] \/ t \in lost
      BY <1>1, <2>1, <2>3 DEF TargetOK
    <3>. HIDE DEF s, done
    <3>. QED  BY <1>1, <1>5, <1>6, <2>1, <3>1, <3>2, CheckGoesOn
  <2>4. CASE check[t].prior # None /\ check[t].prior # s
    <3>1. check' = [check EXCEPT ![t] = x] /\ UNCHANGED <<told, lost>>
      BY <1>9, <2>4 DEF StoreStatus
    <3>2. x \in Checks /\ x.at = "notify" /\ x.status = s
      BY <1>1 DEF Checks
    <3>. HIDE DEF s, x
    <3>. QED  BY <1>1, <1>5, <2>1, <3>1, <3>2, CheckGoesOn
  <2>. QED  BY <2>2, <2>3, <2>4
<1>10. CASE CheckFails(t)
  <2>1. /\ check[t].at \in {"read", "store"} /\ UNCHANGED <<live, told, lost>>
        /\ check' = [check EXCEPT ![t] = done]
    BY <1>10 DEF CheckFails, CheckAt
  <2>. HIDE DEF done
  <2>. QED  BY <1>1, <1>5, <1>6, <2>1, CheckGoesOn DEF TargetOK
<1>11. CASE Notify(t)
  <2>1. /\ check[t].at = "notify" /\ live' = live /\ check' = [check EXCEPT ![t] = done]
        /\ \/ told' = [told EXCEPT ![t] = check[t].status] /\ lost' = lost \ {t}
           \/ told' = told /\ lost' = lost \cup {t}
    BY <1>11 DEF Notify, CheckAt
  <2>2. check[t].status \in {"up", "down"} /\ live[t] \in {check[t].status, None}
    BY <1>1, <2>1 DEF TargetOK, Checks
  <2>. HIDE DEF done
  <2>3. CASE told' = [told EXCEPT ![t] = check[t].status] /\ lost' = lost \ {t}
    BY <1>1, <1>5, <1>6, <2>1, <2>2, <2>3, CheckGoesOn
  <2>4. CASE told' = told /\ lost' = lost \cup {t}
    BY <1>1, <1>5, <1>6, <2>1, <2>4, CheckGoesOn
  <2>. QED  BY <2>1, <2>3, <2>4
<1>. QED  BY <1>7, <1>8, <1>9, <1>10, <1>11 DEF Check

LEMMA LivenessOK ==
  ASSUME IInv, Liveness
  PROVE  IInv'
<1>1. CASE CheckList \/ CheckPassEnds
  <2>1. /\ UNCHANGED <<live, told, lost>> /\ UNCHANGED besidesCheck /\ UNCHANGED faults
        /\ UNCHANGED process \/ EndsPass("liveness")
        /\ \E x \in {"dial", "idle"} : check' = [t \in Target |-> [NoCheck EXCEPT !.at = x]]
        /\ \A t \in Target : check[t].at \in {"idle", "done"}
    BY <1>1 DEF CheckList, CheckPassEnds, CheckedBy, NoCheck
  <2>2. PICK x \in {"dial", "idle"} : check' = [t \in Target |-> [NoCheck EXCEPT !.at = x]]
    BY <2>1
  <2>3. CheckInv'
    BY <2>1, <2>2 DEF IInv, CheckInv, TargetOK, NoCheck, Checks
  <2>4. ProcessInv'
    BY <2>1, ProcessKept DEF IInv, besidesCheck, Job
  <2>. QED  BY <2>1, <2>3, <2>4, NoteKept, ProbeKept, ScanKept, WorldKept
            DEF IInv, besidesCheck, scanVars
<1>2. ASSUME NEW t \in Target, Check(t) PROVE IInv'
  <2>1. UNCHANGED <<process, besidesCheck>> /\ (UNCHANGED faults \/ Fault)
    BY <1>2 DEF Check, Dial, ReadPrior, StoreStatus, CheckFails, Notify, CheckedBy
  <2>2. ProcessInv'
    BY <2>1, ProcessKept DEF IInv, besidesCheck
  <2>3. CheckInv' /\ WorldInv' /\ lost \cap Finding \subseteq lost'
    BY <1>2, CheckKeeps
  <2>. QED  BY <2>1, <2>2, <2>3, NoteKept, ProbeKept, ScanKept
            DEF IInv, besidesCheck, scanVars
<1>. QED  BY <1>1, <1>2 DEF Liveness

-----------------------------------------------------------------------------
(* The scheduled discovery.                                                  *)

LEMMA DiscoveryKeeps ==
  ASSUME IInv, Discovery
  PROVE  ScanInv' /\ WorldInv' /\ lost \cap Target \subseteq lost'
<1>. USE DEF IInv, ScanInv, Scans, WorldInv, outside, FindingsAreAnnounced
<1>0. UNCHANGED outside
  BY DEF Discovery, Scan, ScanFails, FreshKeys, Record, Finish, besidesScan
<1>1. CASE Scan
  BY <1>0, <1>1 DEF Scan, NoScan
<1>2. CASE ScanFails
  BY <1>0, <1>2 DEF ScanFails
<1>3. CASE FreshKeys
  <2>1. scan.keys \subseteq Finding
    OBVIOUS
  <2>2. /\ scan.at = "baseline" /\ UNCHANGED <<runs, announced>>
        /\ \/ /\ scan' = [scan EXCEPT !.at = "record", !.fresh = IF runs = None THEN scan.keys ELSE scan.keys \ runs]
              /\ lost' = lost
           \/ scan' = [scan EXCEPT !.at = "record"] /\ lost' = lost \cup scan.keys
    BY <1>3 DEF FreshKeys
  <2>3. CASE /\ scan' = [scan EXCEPT !.at = "record", !.fresh = IF runs = None THEN scan.keys ELSE scan.keys \ runs]
             /\ lost' = lost
    <3>1. scan'.at = "record" /\ scan' \in Scans /\ scan'.keys = scan.keys
          /\ scan'.fresh = IF runs = None THEN scan.keys ELSE scan.keys \ runs
      BY <2>1, <2>2, <2>3
    <3>. QED  BY <1>0, <2>1, <2>2, <2>3, <3>1
  <2>4. CASE scan' = [scan EXCEPT !.at = "record"] /\ lost' = lost \cup scan.keys
    BY <1>0, <2>1, <2>2, <2>4
  <2>. QED  BY <2>2, <2>3, <2>4
<1>4. CASE Record
  BY <1>0, <1>4 DEF Record
<1>5. CASE Finish
  BY <1>0, <1>5, KindsAssumption DEF Finish, NoScan
<1>. QED  BY <1>1, <1>2, <1>3, <1>4, <1>5 DEF Discovery

LEMMA DiscoveryOK ==
  ASSUME IInv, Discovery
  PROVE  IInv'
<1>1. /\ UNCHANGED besidesScan
      /\ UNCHANGED faults \/ Fault
      /\ UNCHANGED process \/ EndsPass("discovery")
  BY DEF Discovery, Scan, ScanFails, FreshKeys, Record, Finish
<1>2. ProcessInv'
  BY <1>1, ProcessKept DEF IInv, Job, besidesScan
<1>. QED  BY <1>1, <1>2, DiscoveryKeeps, NoteKept, ProbeKept, CheckKept
          DEF IInv, besidesScan, checkVars

-----------------------------------------------------------------------------
(* The process, people, and the world.                                       *)

LEMMA GoneOK ==
  ASSUME IInv, Gone, UNCHANGED faults \/ Fault, UNCHANGED events
  PROVE  IInv'
<1>1. ProcessInv'
  <2>1. faults' \in 0 .. MaxFaults /\ events' \in 0 .. MaxEvents
    BY BoundsAssumption DEF IInv, ProcessInv, Fault
  <2>. QED  BY <2>1 DEF IInv, ProcessInv, Gone
<1>2. NoteInv'
  BY DEF IInv, NoteInv, Notes, NoNote, Gone, MarkedHasReachedAll, ReachedIsMarked
<1>3. ProbeInv'
  <2>1. probe' \in [Prober -> Probes] /\ \A p \in Prober : ProbeOK(probe'[p])
    BY NoProbeOK DEF Gone, ProbeOK
  <2>2. UNCHANGED <<cert, probed, edited>>
    BY DEF Gone
  <2>. QED  BY <2>1, <2>2 DEF IInv, ProbeInv, ProbeOK, ProbesAgree
<1>4. lost \subseteq lost' /\ UNCHANGED <<live, told, runs, announced, outside>>
  BY DEF Gone
<1>5. CheckInv'
  <2>1. check' \in [Target -> Checks] /\ \A t \in Target : check'[t].at = "idle"
    BY DEF Gone, NoCheck, Checks
  <2>2. \A t \in Target : check[t].at = "notify" => t \in lost'
    BY DEF Gone
  <2>3. \A t \in Target : TargetOK(t)'
    BY <1>4, <2>1, <2>2 DEF IInv, CheckInv, TargetOK
  <2>. QED  BY <1>4, <2>1, <2>3 DEF IInv, CheckInv
<1>6. ScanInv'
  <2>1. scan' \in Scans /\ scan'.at = "scan" /\ scan'.fresh = {} /\ scan'.keys = {}
    BY DEF Gone, NoScan, Scans
  <2>2. scan.at = "notify" => scan.fresh \subseteq lost'
    BY DEF Gone
  <2>. QED  BY <1>4, <2>1, <2>2 DEF IInv, ScanInv, FindingsAreAnnounced
<1>7. WorldInv'
  <2>1. lost' \subseteq Target \cup Finding
    BY DEF IInv, ScanInv, Scans, WorldInv, Gone
  <2>. QED  BY <1>4, <2>1 DEF IInv, WorldInv, outside
<1>. QED  BY <1>1, <1>2, <1>3, <1>5, <1>6, <1>7 DEF IInv

LEMMA LoopOK ==
  ASSUME IInv, Start \/ Signal \/ \E j \in Job : Loop(j)
  PROVE  IInv'
<1>1. UNCHANGED elsewhere /\ (UNCHANGED faults \/ Fault) /\ (UNCHANGED events \/ Event)
  BY DEF Start, Signal, Loop, Tick, Trigger, TakeTick, TakeTrigger, SelectDone, PassTimesOut, elsewhere
<1>2. ProcessInv'
  <2>1. faults' \in 0 .. MaxFaults /\ events' \in 0 .. MaxEvents
    BY <1>1, BoundsAssumption DEF IInv, ProcessInv, Fault, Event
  <2>2. CASE Start \/ Signal
    BY <2>1, <2>2 DEF IInv, ProcessInv, Start, Signal
  <2>3. ASSUME NEW j \in Job, Loop(j) PROVE ProcessInv'
    BY <2>1, <2>3 DEF IInv, ProcessInv, Loop, Tick, Trigger, TakeTick, TakeTrigger, SelectDone, PassTimesOut
  <2>. QED  BY <2>2, <2>3
<1>. QED  BY <1>1, <1>2, NoteKept, ProbeKept, CheckKept, ScanKept, WorldKept
          DEF IInv, elsewhere, talk, checkVars, scanVars

LEMMA ProbeNowOK ==
  ASSUME IInv, NEW c \in Cert, ProbeNow(c)
  PROVE  IInv'
<1>. DEFINE x == [NoProbe EXCEPT !.at = "read", !.id = c, !.rows[c] = cert[c]]
<1>1. ProbeInv /\ "button" \in Prober /\ cert[c] \in Row
  BY DEF IInv, ProbeInv, Prober, ProbeNow
<1>2. ProbeOK(x)
  BY <1>1 DEF ProbeOK, Probes, NoProbe
<1>3. probe' = [probe EXCEPT !["button"] = x] /\ UNCHANGED <<cert, probed, edited>>
  BY DEF ProbeNow
<1>. HIDE DEF x
<1>4. ProbeInv'
  BY <1>1, <1>2, <1>3, ProbeGoesOn
<1>5. UNCHANGED <<process, besidesProbe, faults>>
  BY DEF ProbeNow, KeepsPass
<1>6. ProcessInv'
  BY <1>5, ProcessKept DEF IInv, besidesProbe
<1>. QED  BY <1>4, <1>5, <1>6, NoteKept, CheckKept, ScanKept, WorldKept
          DEF IInv, besidesProbe, talk, checkVars, scanVars

LEMMA PeopleOK ==
  ASSUME IInv, NEW c \in Cert, Delete(c) \/ \E row \in Row : Edit(c, row)
  PROVE  IInv'
<1>1. UNCHANGED <<process, noteVars, probe, probed, checkVars, scanVars, outside, talk, faults>> /\ Event
  BY DEF Delete, Edit
<1>2. ProbeInv'
  <2>1. \/ cert' = [cert EXCEPT ![c] = None] /\ edited' = edited
        \/ \E row \in Row : cert' = [cert EXCEPT ![c] = row] /\ edited' = edited \cup {c}
    BY DEF Delete, Edit
  <2>2. cert' \in [Cert -> Row \cup {None}] /\ edited' \subseteq Cert
    BY <2>1 DEF IInv, ProbeInv
  <2>3. \A d \in Cert : cert'[d] = cert[d] \/ cert'[d] = None \/ d \in edited'
    BY <2>1 DEF IInv, ProbeInv
  <2>4. ProbesAgree'
    BY <1>1, <2>1, <2>3 DEF IInv, ProbeInv, ProbesAgree
  <2>. QED  BY <1>1, <2>2, <2>4 DEF IInv, ProbeInv, ProbeOK
<1>3. ProcessInv'
  BY <1>1, ProcessKept DEF IInv
<1>. QED  BY <1>1, <1>2, <1>3, NoteKept, CheckKept, ScanKept, WorldKept DEF IInv, talk

LEMMA ImportOK ==
  ASSUME IInv, Import
  PROVE  IInv'
<1>1. UNCHANGED <<process, note, reached, probe, check, scanVars, outside, talk, faults>> /\ Event
  BY DEF Import
<1>2. ProcessInv'
  BY <1>1, ProcessKept DEF IInv
<1>3. NoteInv'
  BY <1>1 DEF Import, IInv, NoteInv, MarkedHasReachedAll, ReachedIsMarked
<1>4. ProbeInv'
  BY <1>1 DEF Import, IInv, ProbeInv, ProbeOK, ProbesAgree, Row
<1>5. CheckInv'
  BY <1>1 DEF Import, IInv, CheckInv, TargetOK, talk
<1>. QED  BY <1>1, <1>2, <1>3, <1>4, <1>5, ScanKept, WorldKept DEF IInv, talk

LEMMA WorldOK ==
  ASSUME IInv, World
  PROVE  IInv'
<1>1. UNCHANGED <<process, noteVars, probeVars, checkVars, scanVars, talk, faults>> /\ Event
  BY DEF World
<1>2. ProcessInv'
  BY <1>1, ProcessKept DEF IInv
<1>3. WorldInv'
  BY <1>1 DEF World, IInv, WorldInv, talk
<1>. QED  BY <1>1, <1>2, <1>3, NoteKept, ProbeKept, CheckKept, ScanKept DEF IInv, talk

LEMMA Inductive ==
  ASSUME IInv, [Next]_vars
  PROVE  IInv'
<1>1. CASE UNCHANGED vars
  BY <1>1, ProcessKept, NoteKept, ProbeKept, CheckKept, ScanKept, WorldKept DEF IInv, vars, talk
<1>2. CASE Start \/ CleanExit \/ Others \/ \E j \in Job : Loop(j)
  BY <1>2, GoneOK, LoopOK, ProbeNowOK, PeopleOK, ImportOK, WorldOK DEF CleanExit, Others, Dies
<1>3. CASE \E j \in Job : Pass(j)
  BY <1>3, ExpiryOK, CertProbeOK, LivenessOK, DiscoveryOK DEF Pass
<1>4. CASE ProbeOne("button")
  BY <1>4, ProbeOneOK DEF Prober
<1>. QED  BY <1>1, <1>2, <1>3, <1>4 DEF Next

LEMMA Invariance == Spec => []IInv
<1>1. IInv /\ [Next]_vars => IInv'
  BY Inductive
<1>. QED  BY InitOK, <1>1, PTL DEF Spec

(***************************************************************************)
(* What is marked as notified has reached every channel, and what has       *)
(* reached every channel is marked, unless a crash, a failed write or an    *)
(* import came between the two (notify.go).                                 *)
(***************************************************************************)
THEOREM MarksAlwaysAgree == Spec => []MarksAgree
<1>1. IInv => MarksAgree
  BY InvImplies
<1>. QED  BY <1>1, Invariance, PTL

(***************************************************************************)
(* However the passes, the button, edits, deletions and imports interleave, *)
(* a successful probe and its certificate agree on the date (certprobe.go). *)
(***************************************************************************)
THEOREM ProbesAlwaysAgree == Spec => []ProbesAgree
<1>1. IInv => ProbesAgree
  BY InvImplies
<1>. QED  BY <1>1, Invariance, PTL

(***************************************************************************)
(* A status that the table shows and a finding that a run has recorded were *)
(* announced, or a failure that is in the log kept them from the channels   *)
(* (liveness.go, scheddiscovery.go).                                        *)
(***************************************************************************)
THEOREM NothingIsEverSkipped == Spec => []NothingIsSkipped
<1>1. IInv => NothingIsSkipped
  BY InvImplies
<1>. QED  BY <1>1, Invariance, PTL
=============================================================================
