---------------------------------- MODULE Jobs ----------------------------------
(***************************************************************************)
(* The process and its background jobs: main.go starts the runner and stops  *)
(* it, internal/job gives each job a loop, and the jobs work on tables that  *)
(* the handlers and the import change at the same time: the expiry notifier  *)
(* (internal/notify), the certificate prober (internal/certprobe), the       *)
(* liveness checks (internal/liveness) and the scheduled discovery           *)
(* (internal/scheddiscovery).                                                *)
(*                                                                           *)
(* A pass is a series of statements, dials and sends; each is a step.        *)
(* Durations are left open: a pass may run into its timeout, and a shutdown  *)
(* into its deadline, at any point.                                          *)
(***************************************************************************)
EXTENDS Naturals, FiniteSets

CONSTANTS
  Cert,           \* ids of certificates; the other kinds that expire are alike
  Target,         \* ids of hosts and services with a check address
  Channel,        \* the configured notification channels
  Finding,        \* what a scan may find
  Registrations,  \* which jobs the configuration may enable together
  MaxFaults,      \* bound on failed reads, writes, dials and sends, timeouts and crashes
  MaxEvents,      \* bound on edits, imports, shutdowns and changes of the world
  None

Job == {"expiry", "cert-probe", "liveness", "discovery"}

ASSUME RegistrationsAssumption == Registrations \subseteq SUBSET Job
ASSUME NoneAssumption == None \notin Cert \cup Target \cup Finding
ASSUME KindsAssumption == Target \cap Finding = {}
\* main.go registers the expiry job only when a channel is configured.
ASSUME ChannelAssumption == Channel # {}
ASSUME BoundsAssumption == MaxFaults \in Nat /\ MaxEvents \in Nat

VARIABLES
  phase,       \* of the process: "up", "stopping" (ctx is done) or "down"
  registered,  \* the registered jobs
  loop,        \* where each job's loop is
  tick,        \* the ticker's channel
  trigger,     \* job.trigger
  expired,     \* the pass has run into its timeout
  note, probe, check, scan,        \* what the passes keep in their variables
  cert, marks, probed, live, runs, \* the tables
  served, reach, found, tracked,   \* the world, and which findings are in the inventory
  faults, events,
  asked,       \* history: triggers that no pass has answered
  reached,     \* history: the channels the last notification of an item came to
  excused,     \* history: items whose notification may be repeated
  edited,      \* history: certificates edited since their last successful probe
  told,        \* history: the status of each target the channels know of
  announced,   \* history: the findings the channels know of
  lost         \* history: what a failure kept from the channels

process == <<phase, registered, loop, tick, trigger, expired, asked>>
noteVars == <<note, marks, reached, excused>>
probeVars == <<probe, cert, probed, edited>>
checkVars == <<check, live>>
scanVars == <<scan, runs>>
outside == <<served, reach, found, tracked>>
talk == <<told, announced, lost>>
vars == <<process, noteVars, probeVars, checkVars, scanVars, outside, talk, faults, events>>

NoNote == [at |-> "gather", due |-> {}, clear |-> {}, todo |-> {}, item |-> None]
NoProbe == [at |-> "idle", todo |-> {}, rows |-> [c \in Cert |-> None], id |-> None, prev |-> None, due |-> FALSE]
NoCheck == [at |-> "idle", status |-> "up", prior |-> None]
NoScan == [at |-> "scan", keys |-> {}, fresh |-> {}]
Prober == {"job", "button"}  \* the pass, and the "Probe now" of the certificate's page

\* due: the certificate expires within the window. text: what people edit.
Row == [due : BOOLEAN, text : 0 .. 1]
Probed == [ok : BOOLEAN, due : BOOLEAN]

Init ==
  /\ phase = "down" /\ registered \in Registrations
  /\ loop = [j \in Job |-> "off"]
  /\ tick = [j \in Job |-> FALSE] /\ trigger = [j \in Job |-> FALSE] /\ expired = [j \in Job |-> FALSE]
  /\ note = NoNote /\ probe = [p \in Prober |-> NoProbe]
  /\ check = [t \in Target |-> NoCheck] /\ scan = NoScan
  /\ cert = [c \in Cert |-> [due |-> TRUE, text |-> 0]]
  /\ marks = {} /\ probed = [c \in Cert |-> None]
  /\ live = [t \in Target |-> None] /\ runs = None
  /\ served = [c \in Cert |-> FALSE] /\ reach = [t \in Target |-> "up"]
  /\ found = Finding /\ tracked = {}
  /\ faults = 0 /\ events = 0
  /\ asked = [j \in Job |-> FALSE]
  /\ reached = [c \in Cert |-> {}] /\ excused = {} /\ edited = {}
  /\ told = [t \in Target |-> None] /\ announced = {} /\ lost = {}

Fault == faults < MaxFaults /\ faults' = faults + 1
Event == events < MaxEvents /\ events' = events + 1
-----------------------------------------------------------------------------
(* main.go: start, shutdown, and an end that nobody waits for.               *)

Start ==
  /\ phase = "down"
  /\ phase' = "up"
  /\ loop' = [j \in Job |-> IF j \in registered THEN "first" ELSE "off"]
  /\ UNCHANGED <<registered, tick, trigger, expired, asked, noteVars, probeVars, checkVars, scanVars,
                 outside, talk, faults, events>>

\* What ends with the process, and what that leaves undone.
Gone ==
  /\ phase' = "down"
  /\ loop' = [j \in Job |-> "off"]
  /\ tick' = [j \in Job |-> FALSE] /\ trigger' = [j \in Job |-> FALSE]
  /\ expired' = [j \in Job |-> FALSE] /\ asked' = [j \in Job |-> FALSE]
  /\ note' = NoNote /\ probe' = [p \in Prober |-> NoProbe]
  /\ check' = [t \in Target |-> NoCheck] /\ scan' = NoScan
  /\ excused' = excused \cup (IF note.at = "mark" THEN {note.item} ELSE {})
  /\ lost' = lost \cup {t \in Target : check[t].at = "notify"} \cup (IF scan.at = "notify" THEN scan.fresh ELSE {})
  /\ UNCHANGED <<registered, marks, reached, cert, probed, edited, live, runs, outside, told, announced>>

Signal ==
  /\ phase = "up" /\ Event
  /\ phase' = "stopping"
  /\ UNCHANGED <<registered, loop, tick, trigger, expired, asked, noteVars, probeVars, checkVars, scanVars,
                 outside, talk, faults>>

\* The loops have ended and so has every request.
CleanExit ==
  /\ phase = "stopping"
  /\ \A j \in Job : loop[j] = "off"
  /\ probe["button"].at = "idle"
  /\ Gone /\ UNCHANGED <<faults, events>>

\* A crash, the deadline of the shutdown, or the log.Fatalf of a server that
\* cannot listen.
Dies == phase # "down" /\ Fault /\ Gone /\ UNCHANGED events

-----------------------------------------------------------------------------
(* The runner's loops.                                                       *)

elsewhere == <<noteVars, probeVars, checkVars, scanVars, outside, talk>>
Running(j) == loop[j] \in {"first", "pass"}
ContextEnded(j) == expired[j] \/ phase = "stopping"

\* The ticker is made after the first pass, and its channel holds one tick.
Tick(j) ==
  /\ loop[j] \in {"pass", "select"}
  /\ tick' = [tick EXCEPT ![j] = TRUE]
  /\ UNCHANGED <<phase, registered, loop, trigger, expired, asked, elsewhere, faults, events>>

\* Faulty: without the buffer, a trigger during a pass is dropped.
TriggerUnbuffered(j) ==
  /\ phase # "down" /\ j \in registered
  /\ trigger' = [trigger EXCEPT ![j] = @ \/ loop[j] = "select"]
  /\ asked' = [asked EXCEPT ![j] = TRUE]
  /\ UNCHANGED <<phase, registered, loop, tick, expired, elsewhere, faults, events>>

Trigger(j) ==
  /\ phase # "down" /\ j \in registered
  /\ trigger' = [trigger EXCEPT ![j] = TRUE]
  /\ asked' = [asked EXCEPT ![j] = TRUE]
  /\ UNCHANGED <<phase, registered, loop, tick, expired, elsewhere, faults, events>>

TakeTick(j) ==
  /\ loop[j] = "select" /\ tick[j]
  /\ tick' = [tick EXCEPT ![j] = FALSE]
  /\ loop' = [loop EXCEPT ![j] = "pass"]
  /\ UNCHANGED <<phase, registered, trigger, expired, asked, elsewhere, faults, events>>

TakeTrigger(j) ==
  /\ loop[j] = "select" /\ trigger[j]
  /\ trigger' = [trigger EXCEPT ![j] = FALSE] /\ asked' = [asked EXCEPT ![j] = FALSE]
  /\ loop' = [loop EXCEPT ![j] = "pass"]
  /\ UNCHANGED <<phase, registered, tick, expired, elsewhere, faults, events>>

SelectDone(j) ==
  /\ loop[j] = "select" /\ phase = "stopping"
  /\ loop' = [loop EXCEPT ![j] = "off"]
  /\ UNCHANGED <<phase, registered, tick, trigger, expired, asked, elsewhere, faults, events>>

PassTimesOut(j) ==
  /\ Running(j) /\ ~ContextEnded(j) /\ Fault
  /\ expired' = [expired EXCEPT ![j] = TRUE]
  /\ UNCHANGED <<phase, registered, loop, tick, trigger, asked, elsewhere, events>>

\* Faulty: one context for all the passes of a job.
EndsPassOnly(j) ==
  /\ loop' = [loop EXCEPT ![j] = "select"]
  /\ UNCHANGED <<phase, registered, tick, trigger, asked, expired>>

\* A pass returns, or panics, which is recorded like an error.
EndsPass(j) ==
  /\ loop' = [loop EXCEPT ![j] = "select"]
  /\ expired' = [expired EXCEPT ![j] = FALSE]
  /\ UNCHANGED <<phase, registered, tick, trigger, asked>>

-----------------------------------------------------------------------------
(* Notifier.Run                                                              *)

besidesNote == <<probeVars, checkVars, scanVars, outside, talk, events>>

Gather ==
  /\ Running("expiry") /\ note.at = "gather"
  /\ note' = [note EXCEPT !.at = "sent", !.due = {c \in Cert : cert[c] # None /\ cert[c].due}]
  /\ UNCHANGED <<process, marks, reached, excused, besidesNote, faults>>

\* Sent and decide.
Decide ==
  /\ note.at = "sent"
  /\ note' = [note EXCEPT !.at = "work", !.clear = marks \ note.due, !.todo = note.due \ marks]
  /\ UNCHANGED <<process, marks, reached, excused, besidesNote, faults>>

ClearMark(c) ==
  /\ note.at = "work" /\ c \in note.clear
  /\ marks' = marks \ {c}
  /\ note' = [note EXCEPT !.clear = @ \ {c}]
  /\ reached' = [reached EXCEPT ![c] = {}] /\ excused' = excused \ {c}
  /\ UNCHANGED <<process, besidesNote, faults>>

\* multiSender.Send tries every channel. If one of them fails the item is left
\* for the next pass.
Send(c) ==
  /\ note.at = "work" /\ note.clear = {} /\ c \in note.todo
  /\ \E got \in SUBSET Channel :
       /\ ContextEnded("expiry") => got = {}
       /\ IF got = Channel \/ ContextEnded("expiry") THEN UNCHANGED faults ELSE Fault
       /\ reached' = [reached EXCEPT ![c] = got]
       /\ note' = IF got = Channel THEN [note EXCEPT !.at = "mark", !.item = c]
                  ELSE [note EXCEPT !.todo = @ \ {c}]
  /\ UNCHANGED <<process, marks, excused, besidesNote>>

\* Faulty: the pass goes on without the mark.
MarkNothing ==
  /\ note.at = "mark"
  /\ note' = [note EXCEPT !.at = "work", !.todo = @ \ {note.item}, !.item = None]
  /\ UNCHANGED <<process, marks, reached, excused, besidesNote, faults>>

Mark ==
  /\ note.at = "mark"
  /\ marks' = marks \cup {note.item}
  /\ note' = [note EXCEPT !.at = "work", !.todo = @ \ {note.item}, !.item = None]
  /\ UNCHANGED <<process, reached, excused, besidesNote, faults>>

\* A statement fails, which ends the pass.
NoteFails ==
  /\ Running("expiry")
  /\ note.at = "work" => note.clear # {}
  /\ Fault
  /\ note' = NoNote
  /\ excused' = excused \cup (IF note.at = "mark" THEN {note.item} ELSE {})
  /\ EndsPass("expiry")
  /\ UNCHANGED <<marks, reached, besidesNote>>

NoteDone ==
  /\ note.at = "work" /\ note.clear = {} /\ note.todo = {}
  /\ note' = NoNote
  /\ EndsPass("expiry")
  /\ UNCHANGED <<marks, reached, excused, besidesNote, faults>>

-----------------------------------------------------------------------------
(* Prober.Run, and ProbeOne for it and for the button                        *)

besidesProbe == <<noteVars, checkVars, scanVars, outside, talk, events>>
KeepsPass == UNCHANGED process

ProbeList ==
  /\ Running("cert-probe") /\ probe["job"].at = "idle"
  /\ probe' = [probe EXCEPT !["job"] =
       [NoProbe EXCEPT !.at = "next", !.rows = cert, !.todo = {c \in Cert : cert[c] # None}]]
  /\ KeepsPass /\ UNCHANGED <<cert, probed, edited, besidesProbe, faults>>

ProbeNext(c) ==
  /\ probe["job"].at = "next" /\ c \in probe["job"].todo /\ ~ContextEnded("cert-probe")
  /\ probe' = [probe EXCEPT !["job"].at = "read", !["job"].id = c, !["job"].todo = @ \ {c}]
  /\ KeepsPass /\ UNCHANGED <<cert, probed, edited, besidesProbe, faults>>

ProbePassEnds ==
  /\ probe["job"].at = "next"
  /\ probe["job"].todo = {} \/ ContextEnded("cert-probe")
  /\ probe' = [probe EXCEPT !["job"] = NoProbe]
  /\ EndsPass("cert-probe")
  /\ UNCHANGED <<cert, probed, edited, besidesProbe, faults>>

\* The button's request.
ProbeNow(c) ==
  /\ phase = "up" /\ probe["button"].at = "idle" /\ cert[c] # None
  /\ probe' = [probe EXCEPT !["button"] = [NoProbe EXCEPT !.at = "read", !.id = c, !.rows[c] = cert[c]]]
  /\ KeepsPass /\ UNCHANGED <<cert, probed, edited, besidesProbe, faults>>

AfterProbe(p) ==
  IF p = "button" THEN NoProbe
  ELSE [probe[p] EXCEPT !.at = "next", !.id = None, !.prev = None, !.due = FALSE]

PriorState(p) ==
  /\ probe[p].at = "read"
  /\ probe' = [probe EXCEPT ![p].at = "dial", ![p].prev = probed[probe[p].id]]
  /\ KeepsPass /\ UNCHANGED <<cert, probed, edited, besidesProbe, faults>>

DialTLS(p) ==
  /\ probe[p].at = "dial"
  /\ \/ /\ p = "job" => ~ContextEnded("cert-probe")
        /\ \/ probe' = [probe EXCEPT ![p].at = "store", ![p].due = served[probe[p].id]] /\ UNCHANGED faults
           \/ probe' = [probe EXCEPT ![p].at = "failed"] /\ Fault
     \/ /\ p = "job" => ContextEnded("cert-probe")   \* the caller has gone
        /\ probe' = [probe EXCEPT ![p] = AfterProbe(p)] /\ UNCHANGED faults
  /\ KeepsPass /\ UNCHANGED <<cert, probed, edited, besidesProbe>>

\* The last known data stay beside the failure.
RecordFailure(p) ==
  LET prev == probe[p].prev IN
  /\ probe[p].at = "failed"
  /\ probed' = [probed EXCEPT ![probe[p].id] =
                  [ok |-> FALSE, due |-> IF prev = None THEN FALSE ELSE prev.due]]
  /\ probe' = [probe EXCEPT ![p] = AfterProbe(p)]
  /\ KeepsPass /\ UNCHANGED <<cert, edited, besidesProbe, faults>>

\* One transaction, which a deleted certificate undoes. The row is the one that
\* was read when the pass or the request began, but for the date.
RecordProbe(p) ==
  LET c == probe[p].id IN
  /\ probe[p].at = "store"
  /\ IF cert[c] = None THEN UNCHANGED <<cert, probed, edited>>
     ELSE /\ cert' = [cert EXCEPT ![c] = [probe[p].rows[c] EXCEPT !.due = probe[p].due]]
          /\ probed' = [probed EXCEPT ![c] = [ok |-> TRUE, due |-> probe[p].due]]
          /\ edited' = edited \ {c}
  /\ probe' = [probe EXCEPT ![p] = AfterProbe(p)]
  /\ KeepsPass /\ UNCHANGED <<besidesProbe, faults>>

ProbeWriteFails(p) ==
  /\ probe[p].at \in {"store", "failed"} /\ Fault
  /\ probe' = [probe EXCEPT ![p] = AfterProbe(p)]
  /\ KeepsPass /\ UNCHANGED <<cert, probed, edited, besidesProbe>>

-----------------------------------------------------------------------------
(* Checker.Run: the targets side by side                                     *)

besidesCheck == <<noteVars, probeVars, scanVars, outside, announced, events>>
CheckAt(t, at) == check' = [check EXCEPT ![t] = [NoCheck EXCEPT !.at = at]]
CheckedBy == UNCHANGED <<process, besidesCheck>>

CheckList ==
  /\ Running("liveness") /\ \A t \in Target : check[t].at = "idle"
  /\ check' = [t \in Target |-> [NoCheck EXCEPT !.at = "dial"]]
  /\ CheckedBy /\ UNCHANGED <<live, told, lost, faults>>

\* When the context has ended nothing is dialled, and what was dialled is not
\* recorded.
Dial(t) ==
  /\ check[t].at = "dial"
  /\ IF ContextEnded("liveness") THEN CheckAt(t, "done") /\ UNCHANGED faults
     ELSE \E status \in {"up", "down"} :
            /\ check' = [check EXCEPT ![t].at = "read", ![t].status = status]
            /\ IF status = reach[t] THEN UNCHANGED faults ELSE status = "down" /\ Fault
  /\ CheckedBy /\ UNCHANGED <<live, told, lost>>

ReadPrior(t) ==
  /\ check[t].at = "read"
  /\ check' = [check EXCEPT ![t].at = "store", ![t].prior = live[t]]
  /\ CheckedBy /\ UNCHANGED <<live, told, lost, faults>>

\* Faulty: the first observation is the only one that is announced.
StoreQuietly(t) ==
  /\ check[t].at = "store"
  /\ live' = [live EXCEPT ![t] = check[t].status]
  /\ IF check[t].prior # None THEN CheckAt(t, "done") /\ UNCHANGED <<told, lost>>
     ELSE /\ CheckAt(t, "done")
          /\ told' = [told EXCEPT ![t] = check[t].status] /\ lost' = lost \ {t}
  /\ CheckedBy /\ UNCHANGED faults

StoreStatus(t) ==
  /\ check[t].at = "store"
  /\ live' = [live EXCEPT ![t] = check[t].status]
  /\ IF check[t].prior = None
     THEN /\ CheckAt(t, "done")
          /\ told' = [told EXCEPT ![t] = check[t].status] /\ lost' = lost \ {t}
     ELSE /\ IF check[t].prior = check[t].status THEN CheckAt(t, "done")
             ELSE check' = [check EXCEPT ![t].at = "notify"]
          /\ UNCHANGED <<told, lost>>
  /\ CheckedBy /\ UNCHANGED faults

CheckFails(t) ==
  /\ check[t].at \in {"read", "store"} /\ Fault
  /\ CheckAt(t, "done")
  /\ CheckedBy /\ UNCHANGED <<live, told, lost>>

\* A failed send is logged and not tried again.
Notify(t) ==
  /\ check[t].at = "notify"
  /\ \/ ~ContextEnded("liveness") /\ told' = [told EXCEPT ![t] = check[t].status]
        /\ lost' = lost \ {t} /\ UNCHANGED faults
     \/ lost' = lost \cup {t} /\ UNCHANGED told
        /\ IF ContextEnded("liveness") THEN UNCHANGED faults ELSE Fault
  /\ CheckAt(t, "done")
  /\ CheckedBy /\ UNCHANGED live

CheckPassEnds ==
  /\ Running("liveness") /\ \A t \in Target : check[t].at = "done"
  /\ check' = [t \in Target |-> NoCheck]
  /\ EndsPass("liveness")
  /\ UNCHANGED <<live, told, lost, besidesCheck, faults>>

-----------------------------------------------------------------------------
(* Detector.RunDocker, RunNetwork and RunProxmox, for one source             *)

besidesScan == <<noteVars, probeVars, checkVars, outside, told, events>>

\* The scan, and the entities it is compared with.
Scan ==
  /\ Running("discovery") /\ scan.at = "scan"
  /\ scan' = [NoScan EXCEPT !.at = "baseline", !.keys = found \ tracked]
  /\ UNCHANGED <<process, runs, announced, lost, besidesScan, faults>>

\* The run is recorded with its error; LatestSuccessful does not see it.
ScanFails ==
  /\ Running("discovery") /\ scan.at = "scan" /\ Fault
  /\ EndsPass("discovery")
  /\ UNCHANGED <<scan, runs, announced, lost, besidesScan>>

FreshKeys ==
  /\ scan.at = "baseline"
  /\ \/ /\ scan' = [scan EXCEPT !.at = "record", !.fresh = IF runs = None THEN scan.keys ELSE scan.keys \ runs]
        /\ UNCHANGED <<lost, faults>>
     \/ /\ Fault    \* no baseline: nothing is fresh
        /\ scan' = [scan EXCEPT !.at = "record"]
        /\ lost' = lost \cup scan.keys
  /\ UNCHANGED <<process, runs, announced, besidesScan>>

Record ==
  /\ scan.at = "record"
  /\ \/ runs' = scan.keys /\ announced' = announced \cap scan.keys /\ UNCHANGED faults
     \/ UNCHANGED <<runs, announced>> /\ Fault
  /\ scan' = [scan EXCEPT !.at = "notify"]
  /\ UNCHANGED <<process, lost, besidesScan>>

Finish ==
  /\ scan.at = "notify"
  /\ \/ announced' = announced \cup scan.fresh /\ lost' = lost \ scan.fresh
        /\ (scan.fresh # {} => ~ContextEnded("discovery")) /\ UNCHANGED faults
     \/ lost' = lost \cup scan.fresh /\ UNCHANGED announced
        /\ IF ContextEnded("discovery") THEN UNCHANGED faults ELSE Fault
  /\ scan' = NoScan
  /\ EndsPass("discovery")
  /\ UNCHANGED <<runs, besidesScan>>

-----------------------------------------------------------------------------
(* People, and the world.                                                    *)

Edit(c, row) ==
  /\ phase = "up" /\ cert[c] \notin {None, row} /\ Event
  /\ cert' = [cert EXCEPT ![c] = row]
  /\ edited' = edited \cup {c}
  /\ UNCHANGED <<process, noteVars, probe, probed, checkVars, scanVars, outside, talk, faults>>

\* The derived rows of a deleted entity stay.
Delete(c) ==
  /\ phase = "up" /\ cert[c] # None /\ Event
  /\ cert' = [cert EXCEPT ![c] = None]
  /\ UNCHANGED <<process, noteVars, probe, probed, edited, checkVars, scanVars, outside, talk, faults>>

\* Faulty: the derived tables stay.
ImportOnly ==
  /\ phase = "up" /\ Event
  /\ cert' = [c \in Cert |-> [due |-> TRUE, text |-> 0]]
  /\ UNCHANGED <<probed, live, marks, excused, edited>>
  /\ UNCHANGED <<process, note, reached, probe, check, scanVars, outside, talk, faults>>

\* Import puts the rows of the file in place and clears derivedStateTables,
\* whatever the passes are doing.
Import ==
  /\ phase = "up" /\ Event
  /\ cert' = [c \in Cert |-> [due |-> TRUE, text |-> 0]]
  /\ probed' = [c \in Cert |-> None] /\ live' = [t \in Target |-> None] /\ marks' = {}
  /\ excused' = Cert /\ edited' = Cert
  /\ UNCHANGED <<process, note, reached, probe, check, scanVars, outside, talk, faults>>

\* What none of the registered jobs looks at stays as it is (a bound).
World ==
  /\ Event
  /\ \/ /\ "cert-probe" \in registered
        /\ \E c \in Cert : served' = [served EXCEPT ![c] = ~@]
        /\ UNCHANGED <<reach, found, tracked>>
     \/ /\ "liveness" \in registered
        /\ \E t \in Target : reach' = [reach EXCEPT ![t] = IF @ = "up" THEN "down" ELSE "up"]
        /\ UNCHANGED <<served, found, tracked>>
     \/ /\ "discovery" \in registered
        /\ \E k \in Finding :
             \/ found' = (IF k \in found THEN found \ {k} ELSE found \cup {k}) /\ UNCHANGED tracked
             \/ tracked' = (IF k \in tracked THEN tracked \ {k} ELSE tracked \cup {k}) /\ UNCHANGED found
        /\ UNCHANGED <<served, reach>>
  /\ UNCHANGED <<process, noteVars, probeVars, checkVars, scanVars, talk, faults>>

Loop(j) ==
  \/ Tick(j) \/ Trigger(j) \/ TakeTick(j) \/ TakeTrigger(j) \/ SelectDone(j) \/ PassTimesOut(j)

Expiry ==
  \/ Gather \/ Decide \/ Mark \/ NoteFails \/ NoteDone
  \/ \E c \in Cert : ClearMark(c) \/ Send(c)

ProbeOne(p) ==
  PriorState(p) \/ DialTLS(p) \/ RecordFailure(p) \/ RecordProbe(p) \/ ProbeWriteFails(p)

CertProbe == ProbeList \/ ProbePassEnds \/ ProbeOne("job") \/ \E c \in Cert : ProbeNext(c)

Check(t) == Dial(t) \/ ReadPrior(t) \/ StoreStatus(t) \/ CheckFails(t) \/ Notify(t)
Liveness == CheckList \/ CheckPassEnds \/ \E t \in Target : Check(t)
Discovery == Scan \/ ScanFails \/ FreshKeys \/ Record \/ Finish

Pass(j) ==
  \/ j = "expiry" /\ Expiry
  \/ j = "cert-probe" /\ CertProbe
  \/ j = "liveness" /\ Liveness
  \/ j = "discovery" /\ Discovery

\* Certificates change while a registered job reads them (a bound).
Others ==
  \/ Signal \/ Dies \/ Import \/ World
  \/ \E c \in Cert :
       \/ "cert-probe" \in registered /\ ProbeNow(c)
       \/ /\ registered \cap {"expiry", "cert-probe"} # {}
          /\ Delete(c) \/ \E row \in Row : Edit(c, row)

Next ==
  \/ Start \/ CleanExit \/ Others
  \/ \E j \in Job : Loop(j)
  \/ \E j \in Job : Pass(j)
  \/ ProbeOne("button")

\* A pass goes on, tickers tick, and a stopped process is started again. The
\* select picks one of the ready cases at random, so none is passed over for
\* ever.
Fairness ==
  /\ WF_vars(Start) /\ WF_vars(CleanExit) /\ WF_vars(ProbeOne("button"))
  /\ \A j \in Job : WF_vars(Tick(j)) /\ WF_vars(Pass(j) \/ TakeTick(j) \/ TakeTrigger(j) \/ SelectDone(j))
  /\ SF_vars(\E j \in Job : TakeTrigger(j)) /\ SF_vars(\E j \in Job : SelectDone(j))

Spec == Init /\ [][Next]_vars
FairSpec == Spec /\ Fairness
-----------------------------------------------------------------------------
TypeOK ==
  /\ phase \in {"down", "up", "stopping"}
  /\ registered \subseteq Job
  /\ loop \in [Job -> {"off", "first", "pass", "select"}]
  /\ tick \in [Job -> BOOLEAN] /\ trigger \in [Job -> BOOLEAN]
  /\ expired \in [Job -> BOOLEAN] /\ asked \in [Job -> BOOLEAN]
  /\ note \in [at : {"gather", "sent", "work", "mark"}, due : SUBSET Cert, clear : SUBSET Cert,
                todo : SUBSET Cert, item : Cert \cup {None}]
  /\ marks \subseteq Cert /\ reached \in [Cert -> SUBSET Channel] /\ excused \subseteq Cert
  /\ probe \in [Prober -> [at : {"idle", "next", "read", "dial", "store", "failed"},
        todo : SUBSET Cert, rows : [Cert -> Row \cup {None}], id : Cert \cup {None},
        prev : Probed \cup {None}, due : BOOLEAN]]
  /\ cert \in [Cert -> Row \cup {None}] /\ edited \subseteq Cert
  /\ probed \in [Cert -> Probed \cup {None}]
  /\ check \in [Target -> [at : {"idle", "dial", "read", "store", "notify", "done"},
                          status : {"up", "down"}, prior : {"up", "down", None}]]
  /\ live \in [Target -> {"up", "down", None}] /\ told \in [Target -> {"up", "down", None}]
  /\ scan \in [at : {"scan", "baseline", "record", "notify"}, keys : SUBSET Finding, fresh : SUBSET Finding]
  /\ scan.fresh \subseteq scan.keys
  /\ runs \in (SUBSET Finding) \cup {None} /\ announced \subseteq Finding
  /\ served \in [Cert -> BOOLEAN] /\ reach \in [Target -> {"up", "down"}]
  /\ found \subseteq Finding /\ tracked \subseteq Finding
  /\ lost \subseteq Target \cup Finding
  /\ faults \in 0 .. MaxFaults /\ events \in 0 .. MaxEvents

(***************************************************************************)
(* What is marked as notified has reached every channel since the mark was  *)
(* last cleared (multi.go: "marks an item sent only when Send returns nil,  *)
(* i.e. once it has reached every channel").                                *)
(***************************************************************************)
MarkedHasReachedAll == \A c \in marks : reached[c] = Channel

(***************************************************************************)
(* What has reached every channel is marked, so that it is not sent again:  *)
(* a shutdown that ends before its deadline does not cut a pass off between *)
(* the two (main.go). Only a crash, a failed write and an import do.        *)
(***************************************************************************)
ReachedIsMarked ==
  \A c \in Cert :
    reached[c] = Channel /\ c \notin excused => c \in marks \/ (note.at = "mark" /\ note.item = c)

(***************************************************************************)
(* The marks and the channels agree: marked is what has reached every        *)
(* channel, and what has is marked.                                          *)
(***************************************************************************)
MarksAgree == TypeOK /\ MarkedHasReachedAll /\ ReachedIsMarked

(***************************************************************************)
(* A successful probe and the certificate it was for agree on the date,     *)
(* until somebody edits the certificate: probes of the pass and of the      *)
(* button, edits and imports in any order.                                  *)
(***************************************************************************)
ProbesAgree ==
  \A c \in Cert :
    cert[c] # None /\ probed[c] # None /\ c \notin edited
    => (probed[c].ok => cert[c].due = probed[c].due)

(***************************************************************************)
(* The channels know the status the table shows, unless the notification of *)
(* the change failed or is under way.                                       *)
(***************************************************************************)
FlipsAreAnnounced ==
  \A t \in Target :
    live[t] # None => live[t] = told[t] \/ t \in lost \/ check[t].at = "notify"

(***************************************************************************)
(* Every finding of the last successful run was announced, now or when it   *)
(* appeared, unless the notification failed or is under way.                *)
(***************************************************************************)
FindingsAreAnnounced ==
  runs # None =>
    runs \subseteq announced \cup lost \cup (IF scan.at = "notify" THEN scan.fresh ELSE {})

(***************************************************************************)
(* Nothing is skipped silently: what the tables show as known, a status or   *)
(* the findings of a run, has been announced, or its notification has        *)
(* failed for all to see in the log.                                         *)
(***************************************************************************)
NothingIsSkipped == FlipsAreAnnounced /\ FindingsAreAnnounced

(***************************************************************************)
(* "A trigger arriving mid-pass coalesces into exactly one follow-up pass"   *)
(* (job.go): every accepted trigger leads to a pass that starts after it,   *)
(* unless the process ends.                                                 *)
(***************************************************************************)
TriggersAreServed == \A j \in Job : []<>(~asked[j])

(***************************************************************************)
(* What goes on expiring is notified in the end, through failed sends,      *)
(* restarts and imports.                                                    *)
(***************************************************************************)
ExpiryIsNotified ==
  "expiry" \in registered =>
    \A c \in Cert : <>[](cert[c] # None /\ cert[c].due) => <>[](c \in marks)

(***************************************************************************)
(* The table shows the status of a target in the end.                       *)
(***************************************************************************)
StatusSettles ==
  "liveness" \in registered => \A t \in Target : <>[](live[t] = reach[t])
=============================================================================
