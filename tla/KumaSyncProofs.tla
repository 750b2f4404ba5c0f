--------------------------- MODULE KumaSyncProofs ---------------------------
(***************************************************************************)
(* Proofs about KumaSync, for every set of services and targets and every   *)
(* bound.                                                                   *)
(***************************************************************************)
EXTENDS KumaSync, TLAPS

-----------------------------------------------------------------------------
(***************************************************************************)
(* The inductive invariant. That a row names a monitor of its own, made by  *)
(* almanaut, needs the same of the entries of the plan and of the requests  *)
(* on their way. That a pass which goes through leaves everything in sync   *)
(* needs to be said of the pass on its way: what it listed is still wanted, *)
(* or a trigger is to come, and what is no longer on its plan is done.      *)
(***************************************************************************)

Planning == {"list", "connect"}
Making == {"put", "cleanup"}
Acting == {"act", "put", "cleanup", "drop"}

SpentType == [commits : 0 .. MaxCommits, faults : 0 .. MaxFaults, byHand : 0 .. MaxByHand]

Typed ==
  /\ want \in [Service -> Target \cup {None}]
  /\ owed \in 0 .. MaxCommits /\ owed <= spent.commits /\ trigger \in BOOLEAN
  /\ mapping \in [Service -> Monitor \cup {None}]
  /\ kuma \in [Monitor -> Target \cup {None}]
  /\ issued \in 0 .. MaxMonitors
  /\ wire \subseteq Action /\ todo \subseteq Action
  /\ pc \in {"idle", "list", "connect", "act", "put", "cleanup", "drop"}
  /\ seen \in [Service -> Target \cup {None}]
  /\ fresh \in Monitor \cup {None}
  /\ last \in {"none", "ok", "failed"}
  /\ born \subseteq 1 .. issued /\ lost \subseteq born
  /\ missed \subseteq Service /\ touched \subseteq 1 .. issued
  /\ spent \in SpentType

\* Whose monitors the numbers are.
Numbers ==
  /\ \A m \in Monitor : m > issued => kuma[m] = None
  /\ \A s \in Service : mapping[s] \in born \cup {None}
  /\ fresh \in born \cup {None}
  /\ \A s \in Service : mapping[s] = fresh => fresh = None
  /\ \A a \in wire : a.mon \in born \cup {None} /\ (a.kind # "create" => a.mon # None)

\* The plan fits the rows and what was listed. A monitor it takes for gone
\* stays gone.
Planned ==
  /\ pc \notin Acting => todo = {}
  /\ \A a \in todo :
       /\ a.mon = mapping[a.svc]
       /\ a.target = seen[a.svc]
       /\ a.kind \in {"create", "edit"} <=> a.target # None
       /\ a.kind # "create" => a.mon # None
       /\ a.kind \in {"create", "forget"} => a.mon = None \/ kuma[a.mon] = None
  /\ \A a, b \in todo : a.svc = b.svc => a = b

\* What the entry whose turn it is has got so far.
InHand ==
  /\ fresh # None <=> pc \in Making
  /\ pc \in Making => \A a \in todo : Turn(a) => a.kind = "create"
  /\ pc = "put" => \A a \in todo : Turn(a) => fresh \in touched \/ kuma[fresh] = a.target
  /\ pc = "drop" => \A a \in todo : Turn(a) => a.kind = "delete" /\ kuma[a.mon] = None

\* What the pass listed is still wanted, or a trigger is to come.
Heard(s) == seen[s] = want[s] \/ owed > 0 \/ trigger \/ s \in missed

InSync ==
  /\ pc \in Acting \cup {"connect"} => \A s \in Service : Heard(s)
  /\ pc \in Acting => \A s \in Service :
       (\E a \in todo : a.svc = s) \/ mapping[s] \in touched \/ Agree(s, seen[s])
  /\ QuietMeansSynced

IInv == Typed /\ Numbers /\ RowsAreDistinct /\ Planned /\ InHand /\ NoOrphans /\ InSync

-----------------------------------------------------------------------------
(* Constants, spending and turns. *)

LEMMA Bounds ==
  /\ MaxMonitors \in Nat /\ MaxCommits \in Nat /\ MaxFaults \in Nat /\ MaxByHand \in Nat
  /\ None \notin Target /\ None \notin Monitor /\ Service \subseteq Nat
<1>1. MaxMonitors \in Nat /\ MaxCommits \in Nat /\ MaxFaults \in Nat /\ MaxByHand \in Nat
  BY BoundsAssumption
<1>2. None \notin Monitor
  BY <1>1, NoneAssumption DEF Monitor
<1>. QED  BY <1>1, <1>2, NoneAssumption, ServiceAssumption

LEMMA SpentIs ==
  ASSUME spent \in SpentType
  PROVE  /\ Spend("commits", MaxCommits) => spent' \in SpentType /\ spent'.commits = spent.commits + 1
         /\ Spend("faults", MaxFaults) => spent' \in SpentType /\ spent'.commits = spent.commits
         /\ Spend("byHand", MaxByHand) => spent' \in SpentType /\ spent'.commits = spent.commits
                                          /\ spent'.byHand > spent.byHand
<1>1. Spend("commits", MaxCommits) => spent' \in SpentType /\ spent'.commits = spent.commits + 1
  BY Bounds DEF Spend, SpentType
<1>2. Spend("faults", MaxFaults) => spent' \in SpentType /\ spent'.commits = spent.commits
  BY Bounds DEF Spend, SpentType
<1>3. Spend("byHand", MaxByHand) => spent' \in SpentType /\ spent'.commits = spent.commits
                                    /\ spent'.byHand > spent.byHand
  BY Bounds DEF Spend, SpentType
<1>. QED  BY <1>1, <1>2, <1>3

\* The turn is one entry's only.
LEMMA OneTurn ==
  ASSUME todo \subseteq Action, \A a, b \in todo : a.svc = b.svc => a = b,
         NEW a, NEW b, Turn(a), Turn(b)
  PROVE  a = b
<1>1. a \in todo /\ b \in todo /\ Before(a, b) /\ Before(b, a)
  BY DEF Turn
<1>2. a.svc \in Nat /\ b.svc \in Nat
  BY <1>1, ServiceAssumption DEF Action
<1>3. a.svc = b.svc
  BY <1>1, <1>2 DEF Before
<1>. QED  BY <1>1, <1>3

LEMMA ActionFields ==
  ASSUME NEW a \in Action
  PROVE  a.svc \in Service /\ a.mon \in Monitor \cup {None} /\ a.target \in Target \cup {None}
BY DEF Action

-----------------------------------------------------------------------------
(* The plan. *)

LEMMA EntryIs ==
  ASSUME NEW kind, NEW s, NEW services, NEW rows
  PROVE  /\ Entry(kind, s, services, rows).kind = kind
         /\ Entry(kind, s, services, rows).svc = s
         /\ Entry(kind, s, services, rows).mon = rows[s]
         /\ Entry(kind, s, services, rows).target = services[s]
BY DEF Entry

LEMMA PlanFits ==
  ASSUME NEW services \in [Service -> Target \cup {None}],
         NEW rows \in [Service -> Monitor \cup {None}],
         NEW monitors \in [Monitor -> Target \cup {None}],
         NEW a \in Plan(services, rows, monitors)
  PROVE  /\ a \in Action
         /\ a.mon = rows[a.svc] /\ a.target = services[a.svc]
         /\ a.kind \in {"create", "edit"} <=> a.target # None
         /\ a.kind # "create" => a.mon # None
         /\ a.kind \in {"create", "forget"} => a.mon = None \/ monitors[a.mon] = None
         /\ a.kind = IF services[a.svc] = None
                     THEN IF monitors[rows[a.svc]] # None THEN "delete" ELSE "forget"
                     ELSE IF rows[a.svc] # None /\ monitors[rows[a.svc]] # None THEN "edit" ELSE "create"
<1>. DEFINE e(kind, s) == Entry(kind, s, services, rows)
            gone(s) == rows[s] = None \/ monitors[rows[s]] = None
<1>1. PICK s \in Service :
        \/ a = e("edit", s) /\ services[s] # None /\ ~gone(s)
        \/ a = e("create", s) /\ services[s] # None /\ gone(s)
        \/ a = e("delete", s) /\ services[s] = None /\ ~gone(s)
        \/ a = e("forget", s) /\ services[s] = None /\ rows[s] # None /\ gone(s)
  BY DEF Plan
<1>2. \A kind \in Kind : e(kind, s) \in Action
  BY DEF Entry, Action
<1>3. a.svc = s /\ a.mon = rows[s] /\ a.target = services[s]
  BY <1>1, EntryIs
<1>4. a \in Action
  BY <1>1, <1>2 DEF Kind
<1>5. \/ a.kind = "edit" /\ services[s] # None /\ ~gone(s)
      \/ a.kind = "create" /\ services[s] # None /\ gone(s)
      \/ a.kind = "delete" /\ services[s] = None /\ ~gone(s)
      \/ a.kind = "forget" /\ services[s] = None /\ rows[s] # None /\ gone(s)
  BY <1>1, EntryIs
<1>. QED  BY <1>3, <1>4, <1>5

\* There is one entry for a service, and none only if nothing is to be done.
LEMMA PlanCovers ==
  ASSUME NEW services \in [Service -> Target \cup {None}],
         NEW rows \in [Service -> Monitor \cup {None}],
         NEW monitors \in [Monitor -> Target \cup {None}]
  PROVE  /\ \A a, b \in Plan(services, rows, monitors) : a.svc = b.svc => a = b
         /\ \A s \in Service :
              \/ \E a \in Plan(services, rows, monitors) : a.svc = s
              \/ IF services[s] = None THEN rows[s] = None
                 ELSE rows[s] # None /\ monitors[rows[s]] = services[s]
<1>1. ASSUME NEW a \in Plan(services, rows, monitors), NEW b \in Plan(services, rows, monitors),
             a.svc = b.svc
      PROVE  a = b
  <2>1. a \in Action /\ b \in Action /\ a.mon = b.mon /\ a.target = b.target /\ a.kind = b.kind
    BY <1>1, PlanFits
  <2>. QED  BY <1>1, <2>1 DEF Action
<1>2. ASSUME NEW s \in Service,
             ~ IF services[s] = None THEN rows[s] = None
               ELSE rows[s] # None /\ monitors[rows[s]] = services[s]
      PROVE  \E a \in Plan(services, rows, monitors) : a.svc = s
  <2>1. \E kind \in Kind : Entry(kind, s, services, rows) \in Plan(services, rows, monitors)
    BY <1>2 DEF Plan, Kind
  <2>. QED  BY <2>1, EntryIs
<1>. QED  BY <1>1, <1>2

-----------------------------------------------------------------------------
(***************************************************************************)
(* What the steps do, in the groups the proofs treat alike: those of users, *)
(* those outside of almanaut, those that end a pass, and the rest.          *)
(***************************************************************************)

Users ==
  \/ \E services \in [Service -> Target \cup {None}] : Commit(services) \/ Import(services)
  \/ Dispatch \/ SyncNow

Outside == ByHand \/ \E a \in wire : Arrive(a) \/ Vanish(a)

Ends ==
  \/ Cleanup \/ PassFails \/ Finish \/ Restart
  \/ \E a \in todo : CleanupFails(a) \/ EditRefused(a) \/ RequestFails(a)

Others ==
  \/ StartPass \/ ListServices \/ Connect \/ PutFails
  \/ \E a \in todo : Add(a) \/ Put(a) \/ Edit(a) \/ Delete(a) \/ DropRow(a)

LEMMA Groups == [Next]_vars => Users \/ Outside \/ Ends \/ Others \/ UNCHANGED vars
BY DEF Next, PassStep, Users, Outside, Ends, Others

LEMMA UsersAre ==
  ASSUME Typed, Users
  PROVE  /\ UNCHANGED <<mapping, kumaVars, passVars, born, lost>>
         /\ want' \in [Service -> Target \cup {None}]
         /\ owed' \in 0 .. MaxCommits /\ owed' <= spent'.commits
         /\ trigger' \in BOOLEAN
         /\ missed \subseteq missed' /\ missed' \subseteq Service
         /\ spent' \in SpentType
         /\ owed > 0 \/ trigger => owed' > 0 \/ trigger'
         /\ \A s \in Service : want'[s] # want[s] => owed' > 0 \/ s \in missed'
<1>. spent \in SpentType /\ owed \in 0 .. MaxCommits /\ owed <= spent.commits
     /\ want \in [Service -> Target \cup {None}] /\ missed \subseteq Service /\ trigger \in BOOLEAN
  BY DEF Typed
<1>c. spent.commits \in 0 .. MaxCommits
  BY DEF SpentType
<1>1. ASSUME NEW services \in [Service -> Target \cup {None}], Commit(services)
      PROVE  /\ UNCHANGED <<mapping, kumaVars, passVars, born, lost, missed, trigger>>
             /\ want' = services /\ owed' = owed + 1
             /\ spent' \in SpentType /\ spent'.commits = spent.commits + 1
  BY <1>1, SpentIs DEF Commit
<1>2. ASSUME NEW services \in [Service -> Target \cup {None}], Import(services)
      PROVE  /\ UNCHANGED <<mapping, kumaVars, passVars, born, lost, owed, trigger>>
             /\ want' = services
             /\ missed' = missed \cup {s \in Service : services[s] # want[s]}
             /\ spent' \in SpentType /\ spent'.commits = spent.commits + 1
  BY <1>2, SpentIs DEF Import
<1>3. CASE \E services \in [Service -> Target \cup {None}] : Commit(services)
  <2>1. PICK services \in [Service -> Target \cup {None}] : Commit(services)
    BY <1>3
  <2>2. spent'.commits \in 0 .. MaxCommits
    BY <1>1, <2>1 DEF SpentType
  <2>3. owed' \in 0 .. MaxCommits /\ owed' <= spent'.commits /\ owed' > 0
    BY <1>1, <1>c, <2>1, <2>2, Bounds
  <2>4. want' \in [Service -> Target \cup {None}]
    BY <1>1, <2>1
  <2>. QED  BY <1>1, <2>1, <2>3, <2>4
<1>4. CASE \E services \in [Service -> Target \cup {None}] : Import(services)
  BY <1>2, <1>4, <1>c
<1>5. CASE Dispatch
  <2>1. owed > 0 /\ owed' = owed - 1 /\ spent' = spent
    BY <1>5 DEF Dispatch
  <2>2. owed' \in 0 .. MaxCommits /\ owed' <= spent'.commits
    BY <1>c, <2>1, Bounds
  <2>. QED  BY <1>5, <2>2 DEF Dispatch
<1>6. CASE SyncNow
  BY <1>6, <1>c DEF SyncNow
<1>. QED  BY <1>3, <1>4, <1>5, <1>6 DEF Users

LEMMA MakeIs ==
  ASSUME Typed, Numbers, NEW t \in Target \cup {None}, Make(t)
  PROVE  /\ issued' \in Monitor /\ issued' = issued + 1
         /\ kuma' \in [Monitor -> Target \cup {None}]
         /\ \A m \in Monitor : m # issued' => kuma'[m] = kuma[m]
         /\ kuma'[issued'] = t
         /\ \A m \in Monitor : m > issued' => kuma'[m] = None
         /\ issued' \notin 1 .. issued /\ 1 .. issued' = 1 .. issued \cup {issued'}
         /\ issued' \notin born
<1>1. issued \in 0 .. MaxMonitors /\ kuma \in [Monitor -> Target \cup {None}] /\ born \subseteq 1 .. issued
  BY DEF Typed
<1>2. issued' \in Monitor /\ issued' = issued + 1
  BY <1>1, Bounds DEF Make, Monitor
<1>3. \A m \in Monitor : m > issued => kuma[m] = None
  BY DEF Numbers
<1>. QED  BY <1>1, <1>2, <1>3, Bounds DEF Make, Monitor

\* What a step outside of the syncer, or a request that arrives late, may do.
LEMMA OutsideIs ==
  ASSUME Typed, Numbers, Outside
  PROVE  /\ UNCHANGED <<want, owed, trigger, mapping, passVars, missed>>
         /\ kuma' \in [Monitor -> Target \cup {None}]
         /\ issued' \in 0 .. MaxMonitors /\ issued <= issued'
         /\ wire' \subseteq wire
         /\ touched \subseteq touched' /\ touched' \subseteq 1 .. issued'
         /\ born \subseteq born' /\ born' \subseteq born \cup lost' /\ born' \subseteq 1 .. issued'
         /\ lost \subseteq lost' /\ lost' \subseteq born'
         /\ spent' \in SpentType /\ spent'.commits = spent.commits
         /\ \A m \in Monitor : kuma'[m] # kuma[m] => m \in touched'
         /\ \A m \in Monitor : m \in 1 .. issued /\ kuma[m] = None => kuma'[m] = None
         /\ \A m \in Monitor : m > issued' => kuma'[m] = None
         /\ \A m \in Monitor : m \in (1 .. issued) \ born /\ kuma'[m] # kuma[m]
              => spent'.byHand > spent.byHand
<1>. DEFINE Same == UNCHANGED <<want, owed, trigger, mapping, passVars, missed>>
            History == /\ born \subseteq born' /\ born' \subseteq born \cup lost' /\ born' \subseteq 1 .. issued'
                       /\ lost \subseteq lost' /\ lost' \subseteq born'
<1>t. /\ spent \in SpentType /\ issued \in 0 .. MaxMonitors /\ touched \subseteq 1 .. issued
      /\ born \subseteq 1 .. issued /\ lost \subseteq born /\ wire \subseteq Action
      /\ kuma \in [Monitor -> Target \cup {None}]
      /\ \A m \in Monitor : m > issued => kuma[m] = None
      /\ \A a \in wire : a.mon \in born \cup {None} /\ (a.kind # "create" => a.mon # None)
  BY DEF Typed, Numbers
<1>b. \A m \in born : m \in 1 .. issued /\ m \in Monitor /\ m <= issued
  <2>. issued \in 0 .. MaxMonitors /\ born \subseteq 1 .. issued
    BY <1>t
  <2>. QED  BY Bounds DEF Monitor
\* A monitor m that exists, or existed, changes.
<1>e. ASSUME NEW m \in Monitor, NEW t \in Target \cup {None}, m <= issued,
             kuma[m] # None \/ t = None,
             kuma' = [kuma EXCEPT ![m] = t], touched' = touched \cup {m}, issued' = issued
      PROVE  /\ kuma' \in [Monitor -> Target \cup {None}]
             /\ touched \subseteq touched' /\ touched' \subseteq 1 .. issued'
             /\ \A n \in Monitor : kuma'[n] # kuma[n] => n = m
             /\ \A n \in Monitor : n \in 1 .. issued /\ kuma[n] = None => kuma'[n] = None
             /\ \A n \in Monitor : n > issued' => kuma'[n] = None
  BY <1>e, <1>t, Bounds DEF Monitor
\* A monitor is made.
<1>m. ASSUME NEW t \in Target \cup {None}, Make(t), touched' = touched \cup {issued'}
      PROVE  /\ kuma' \in [Monitor -> Target \cup {None}]
             /\ issued' \in 0 .. MaxMonitors /\ issued <= issued'
             /\ touched \subseteq touched' /\ touched' \subseteq 1 .. issued'
             /\ \A n \in Monitor : kuma'[n] # kuma[n] => n = issued'
             /\ \A n \in Monitor : n \in 1 .. issued /\ kuma[n] = None => kuma'[n] = None
             /\ \A n \in Monitor : n > issued' => kuma'[n] = None
  <2>1. issued' = issued + 1 /\ issued' \in Monitor
    BY <1>m, MakeIs
  <2>. QED  BY <1>m, <1>t, <2>1, MakeIs, Bounds DEF Monitor
<1>1. CASE ByHand
  <2>1. Same /\ wire' = wire /\ born' = born /\ lost' = lost
    BY <1>1 DEF ByHand
  <2>2. spent' \in SpentType /\ spent'.commits = spent.commits /\ spent'.byHand > spent.byHand
    BY <1>1, <1>t, SpentIs DEF ByHand
  <2>3. CASE (\E t \in Target : Make(t)) /\ touched' = touched \cup {issued'}
    BY <1>m, <1>t, <2>1, <2>2, <2>3
  <2>4. CASE \E m \in Monitor, t \in Target \cup {None} :
               /\ kuma[m] \notin {None, t}
               /\ kuma' = [kuma EXCEPT ![m] = t]
               /\ touched' = touched \cup {m}
               /\ UNCHANGED issued
    <3>1. PICK m \in Monitor, t \in Target \cup {None} :
            kuma[m] # None /\ kuma' = [kuma EXCEPT ![m] = t] /\ touched' = touched \cup {m}
            /\ issued' = issued
      BY <2>4
    <3>2. m <= issued
      BY <1>t, <3>1, Bounds DEF Monitor
    <3>3. /\ kuma' \in [Monitor -> Target \cup {None}]
          /\ touched \subseteq touched' /\ touched' \subseteq 1 .. issued'
          /\ \A n \in Monitor : kuma'[n] # kuma[n] => n = m
          /\ \A n \in Monitor : n \in 1 .. issued /\ kuma[n] = None => kuma'[n] = None
          /\ \A n \in Monitor : n > issued' => kuma'[n] = None
      BY <1>e, <3>1, <3>2
    <3>4. issued' \in 0 .. MaxMonitors /\ issued <= issued'
      BY <1>t, <3>1, Bounds
    <3>5. born' \subseteq 1 .. issued' /\ lost' \subseteq born'
      BY <1>t, <2>1, <3>1
    <3>. QED  BY <2>1, <2>2, <3>1, <3>3, <3>4, <3>5
  <2>. QED  BY <1>1, <2>3, <2>4 DEF ByHand
<1>. DEFINE Arrived ==
             /\ kuma' \in [Monitor -> Target \cup {None}]
             /\ issued' \in 0 .. MaxMonitors /\ issued <= issued'
             /\ touched \subseteq touched' /\ touched' \subseteq 1 .. issued'
             /\ History
             /\ \A m \in Monitor : kuma'[m] # kuma[m] => m \in touched'
             /\ \A m \in Monitor : m \in 1 .. issued /\ kuma[m] = None => kuma'[m] = None
             /\ \A m \in Monitor : m > issued' => kuma'[m] = None
             /\ \A m \in Monitor : m \in (1 .. issued) \ born => kuma'[m] = kuma[m]
<1>2. ASSUME NEW a \in wire, Arrive(a)
      PROVE  Arrived
  <2>1. a.target \in Target \cup {None} /\ a.mon \in born \cup {None} /\ (a.kind # "create" => a.mon # None)
    BY <1>t, ActionFields
  <2>2. CASE /\ Make(a.target) /\ born' = born \cup {issued'}
             /\ lost' = lost \cup {issued'} /\ touched' = touched \cup {issued'}
    <3>1. issued' = issued + 1 /\ issued' \in Monitor
      BY <2>1, <2>2, MakeIs
    <3>2. History
      BY <1>t, <2>2, <3>1, Bounds DEF Monitor
    <3>3. \A m \in Monitor : m \in 1 .. issued => m # issued'
      BY <1>t, <3>1
    <3>. QED  BY <1>m, <2>1, <2>2, <3>2, <3>3
  <2>3. ASSUME a.mon # None, NEW t \in Target \cup {None}, kuma[a.mon] # None \/ t = None,
               kuma' = [kuma EXCEPT ![a.mon] = t], touched' = touched \cup {a.mon},
               UNCHANGED <<issued, born, lost>>
        PROVE  Arrived
    <3>1. a.mon \in born /\ a.mon \in 1 .. issued /\ a.mon \in Monitor /\ a.mon <= issued
      BY <1>b, <2>1, <2>3
    <3>2. History
      BY <1>t, <2>3
    <3>3. /\ kuma' \in [Monitor -> Target \cup {None}]
          /\ touched \subseteq touched' /\ touched' \subseteq 1 .. issued'
          /\ \A n \in Monitor : kuma'[n] # kuma[n] => n = a.mon
          /\ \A n \in Monitor : n \in 1 .. issued /\ kuma[n] = None => kuma'[n] = None
          /\ \A n \in Monitor : n > issued' => kuma'[n] = None
      BY <1>e, <2>3, <3>1
    <3>4. issued' \in 0 .. MaxMonitors /\ issued <= issued'
      BY <1>t, <2>3, Bounds
    <3>. QED  BY <2>3, <3>1, <3>2, <3>3, <3>4
  <2>. QED  BY <1>2, <2>1, <2>2, <2>3 DEF Arrive
<1>3. CASE \E a \in wire : Arrive(a)
  <2>1. PICK a \in wire : Arrive(a)
    BY <1>3
  <2>2. Same /\ wire' \subseteq wire /\ spent' = spent
    BY <2>1 DEF Arrive
  <2>. QED  BY <1>2, <1>t, <2>1, <2>2
<1>4. CASE \E a \in wire : Vanish(a)
  BY <1>4, <1>t DEF Vanish
<1>. QED  BY <1>1, <1>3, <1>4 DEF Outside

\* A request on its way is about a monitor of almanaut's.
Sent(a) == a \in Action /\ a.mon \in born \cup {None} /\ (a.kind # "create" => a.mon # None)

LEMMA EntriesAreSent ==
  ASSUME Typed, Numbers, Planned
  PROVE  (\A a \in todo : Sent(a)) /\ (\A a \in wire : Sent(a))
<1>1. todo \subseteq Action /\ wire \subseteq Action
  BY DEF Typed
<1>2. ASSUME NEW a \in todo PROVE a.mon \in born \cup {None} /\ (a.kind # "create" => a.mon # None)
  BY <1>1, ActionFields DEF Planned, Numbers
<1>3. ASSUME NEW a \in wire PROVE a.mon \in born \cup {None} /\ (a.kind # "create" => a.mon # None)
  BY DEF Numbers
<1>. QED  BY <1>1, <1>2, <1>3 DEF Sent

\* What the steps that end a pass do.
LEMMA EndsAre ==
  ASSUME Typed, Numbers, Planned, InHand, Ends
  PROVE  /\ UNCHANGED <<want, mapping, issued, touched, born, missed>>
         /\ owed' \in {owed, 0} /\ trigger' \in BOOLEAN
         /\ pc' \in {"idle", "list"} /\ todo' = {} /\ fresh' = None /\ seen' = Unseen
         /\ last' \in {"none", "ok", "failed"}
         /\ last' = "ok" => pc = "act" /\ todo = {} /\ UNCHANGED <<owed, trigger, kuma>>
         /\ pc' = "list" => last' = "none"
         /\ kuma' \in [Monitor -> Target \cup {None}]
         /\ \A m \in Monitor : kuma'[m] # kuma[m] => m = fresh /\ kuma'[m] = None
         /\ lost \subseteq lost' /\ lost' \subseteq born
         /\ fresh # None => fresh \in lost' \/ kuma'[fresh] = None
         /\ \A a \in wire' : Sent(a)
         /\ spent' \in SpentType /\ spent'.commits = spent.commits
<1>. DEFINE Kept == UNCHANGED <<want, mapping, issued, touched, born, missed>>
            Ended == pc' \in {"idle", "list"} /\ todo' = {} /\ fresh' = None /\ seen' = Unseen
            Paid == spent' \in SpentType /\ spent'.commits = spent.commits
<1>t. /\ spent \in SpentType /\ kuma \in [Monitor -> Target \cup {None}] /\ trigger \in BOOLEAN
      /\ lost \subseteq born /\ fresh \in born \cup {None} /\ fresh \in Monitor \cup {None}
  BY DEF Typed, Numbers
<1>p. fresh # None <=> pc \in {"put", "cleanup"}
  BY DEF InHand, Making
<1>w. \A a \in todo \cup wire : Sent(a)
  BY EntriesAreSent
<1>1. CASE Cleanup
  <2>1. pc = "cleanup" /\ fresh \in Monitor
    BY <1>1, <1>p, <1>t DEF Cleanup
  <2>. QED  BY <1>1, <1>t, <1>w, <2>1 DEF Cleanup, EndPass
<1>2. CASE PassFails
  <2>1. fresh = None
    BY <1>2, <1>p DEF PassFails
  <2>2. Paid
    BY <1>2, <1>t, SpentIs DEF PassFails
  <2>. QED  BY <1>2, <1>t, <1>w, <2>1, <2>2 DEF PassFails, EndPass, kumaVars
<1>3. CASE Finish
  <2>1. fresh = None
    BY <1>3, <1>p DEF Finish
  <2>. QED  BY <1>3, <1>t, <1>w, <2>1 DEF Finish, EndPass, kumaVars
<1>4. CASE Restart
  <2>1. Paid
    BY <1>4, <1>t, SpentIs DEF Restart
  <2>2. \A a \in wire' : Sent(a)
    BY <1>4, <1>w DEF Restart
  <2>. QED  BY <1>4, <1>t, <2>1, <2>2 DEF Restart
<1>5. ASSUME NEW a \in todo, CleanupFails(a)
      PROVE  /\ Kept /\ Ended /\ Paid /\ UNCHANGED <<owed, trigger, kuma>> /\ last' = "failed" /\ pc' = "idle"
             /\ lost' = lost \cup {fresh} /\ fresh # None
             /\ \A b \in wire' : Sent(b)
  <2>1. pc = "cleanup" /\ fresh # None /\ fresh \in born /\ fresh \in Monitor
    BY <1>5, <1>p, <1>t DEF CleanupFails
  <2>2. Paid
    BY <1>5, <1>t, SpentIs DEF CleanupFails
  <2>3. Sent([kind |-> "delete", svc |-> a.svc, mon |-> fresh, target |-> None])
    <3>. DEFINE b == [kind |-> "delete", svc |-> a.svc, mon |-> fresh, target |-> None]
    <3>1. a.svc \in Service
      BY <1>w, ActionFields DEF Sent
    <3>2. b \in Action
      BY <2>1, <3>1 DEF Action, Kind
    <3>3. b.mon = fresh
      OBVIOUS
    <3>. QED  BY <2>1, <3>2, <3>3 DEF Sent
  <2>4. \A b \in wire' : Sent(b)
    BY <1>5, <1>w, <2>3 DEF CleanupFails
  <2>. QED  BY <1>5, <2>1, <2>2, <2>4 DEF CleanupFails, EndPass
<1>6. ASSUME NEW a \in todo, EditRefused(a) \/ RequestFails(a)
      PROVE  /\ Kept /\ Ended /\ Paid /\ UNCHANGED <<owed, trigger, kuma, lost>> /\ last' = "failed" /\ pc' = "idle"
             /\ fresh = None
             /\ \A b \in wire' : Sent(b)
  <2>1. CASE EditRefused(a)
    BY <1>p, <1>t, <1>w, <2>1 DEF EditRefused, EndPass, kumaVars
  <2>2. CASE RequestFails(a)
    <3>1. Paid
      BY <1>t, <2>2, SpentIs DEF RequestFails
    <3>. QED  BY <1>p, <1>t, <1>w, <2>2, <3>1 DEF RequestFails, EndPass
  <2>. QED  BY <1>6, <2>1, <2>2
<1>7. CASE \E a \in todo : CleanupFails(a) \/ EditRefused(a) \/ RequestFails(a)
  <2>1. PICK a \in todo : CleanupFails(a) \/ EditRefused(a) \/ RequestFails(a)
    BY <1>7
  <2>2. CASE CleanupFails(a)
    BY <1>5, <1>t, <2>2
  <2>3. CASE EditRefused(a) \/ RequestFails(a)
    BY <1>6, <1>t, <2>3
  <2>. QED  BY <2>1, <2>2, <2>3
<1>. QED  BY <1>1, <1>2, <1>3, <1>4, <1>7 DEF Ends

-----------------------------------------------------------------------------
(* Typed and Numbers. *)

LEMMA InitHolds == Init => IInv
<1>. SUFFICES ASSUME Init PROVE IInv
  OBVIOUS
<1>. USE Bounds DEF Init, Unseen, Absent
<1>1. Typed
  <2>1. owed \in 0 .. MaxCommits /\ issued \in 0 .. MaxMonitors
    OBVIOUS
  <2>2. spent \in [commits : 0 .. MaxCommits, faults : 0 .. MaxFaults, byHand : 0 .. MaxByHand]
        /\ owed <= spent.commits
    OBVIOUS
  <2>3. /\ mapping \in [Service -> Monitor \cup {None}] /\ kuma \in [Monitor -> Target \cup {None}]
        /\ seen \in [Service -> Target \cup {None}]
    OBVIOUS
  <2>4. /\ wire \subseteq Action /\ todo \subseteq Action /\ fresh \in Monitor \cup {None}
        /\ pc \in {"idle", "list", "connect", "act", "put", "cleanup", "drop"}
        /\ last \in {"none", "ok", "failed"}
    OBVIOUS
  <2>5. born \subseteq 1 .. issued /\ lost \subseteq born /\ missed \subseteq Service /\ touched \subseteq 1 .. issued
    OBVIOUS
  <2>6. want \in [Service -> Target \cup {None}] /\ trigger \in BOOLEAN
    OBVIOUS
  <2>. QED  BY <2>1, <2>2, <2>3, <2>4, <2>5, <2>6 DEF Typed, SpentType
<1>2. Numbers /\ RowsAreDistinct /\ Planned
  BY DEF Numbers, RowsAreDistinct, Planned
<1>3. InHand /\ NoOrphans /\ InSync
  BY DEF InHand, Making, NoOrphans, InSync, Acting, QuietMeansSynced
<1>. QED  BY <1>1, <1>2, <1>3 DEF IInv

LEMMA TypedIsTypeOK == Typed => TypeOK
BY DEF Typed, TypeOK, SpentType

LEMMA TypedStep ==
  ASSUME IInv, [Next]_vars
  PROVE  Typed'
<1>. Typed /\ Numbers /\ Planned /\ InHand
  BY DEF IInv
<1>. USE DEF Typed
<1>1. CASE Users
  <2>. UNCHANGED <<mapping, kuma, issued, wire, touched, pc, seen, todo, fresh, last, born, lost>>
    BY <1>1, UsersAre DEF kumaVars, passVars
  <2>. QED  BY <1>1, UsersAre
<1>2. CASE Outside
  <2>. UNCHANGED <<pc, seen, todo, fresh, last>>
    BY <1>2, OutsideIs DEF passVars
  <2>. QED  BY <1>2, OutsideIs
<1>3. CASE Ends
  <2>1. owed' \in 0 .. MaxCommits /\ owed' <= spent'.commits
    <3>1. owed' \in {owed, 0} /\ spent'.commits = spent.commits /\ spent.commits \in 0 .. MaxCommits
      BY <1>3, EndsAre DEF SpentType
    <3>. QED  BY <3>1, Bounds
  <2>2. wire' \subseteq Action
    BY <1>3, EndsAre DEF Sent
  <2>. QED  BY <1>3, <2>1, <2>2, EndsAre DEF Unseen
<1>4. ASSUME StartPass \/ ListServices \/ PutFails PROVE Typed'
  <2>1. CASE StartPass
    BY <2>1 DEF StartPass, kumaVars
  <2>2. CASE ListServices
    BY <2>2 DEF ListServices, kumaVars
  <2>3. CASE PutFails
    <3>1. spent' \in SpentType /\ spent'.commits = spent.commits
      BY <2>3, SpentIs DEF PutFails
    <3>. QED  BY <2>3, <3>1 DEF PutFails, kumaVars
  <2>. QED  BY <1>4, <2>1, <2>2, <2>3
<1>5. CASE Connect
  <2>1. todo' \subseteq Action
    BY <1>5, PlanFits DEF Connect
  <2>. QED  BY <1>5, <2>1 DEF Connect
<1>6. ASSUME NEW a \in todo, Add(a) PROVE Typed'
  <2>1. /\ issued' \in Monitor /\ issued' = issued + 1
        /\ kuma' \in [Monitor -> Target \cup {None}]
        /\ 1 .. issued' = 1 .. issued \cup {issued'}
    BY <1>6, ActionFields, MakeIs DEF Add
  <2>2. issued' \in 0 .. MaxMonitors
    BY <2>1, Bounds DEF Monitor
  <2>3. born' \subseteq 1 .. issued' /\ lost' \subseteq born' /\ touched' \subseteq 1 .. issued' /\ fresh' \in Monitor
    BY <1>6, <2>1 DEF Add
  <2>. QED  BY <1>6, <2>1, <2>2, <2>3 DEF Add
<1>7. ASSUME NEW a \in todo, Put(a) \/ DropRow(a) PROVE Typed'
  <2>1. a.svc \in Service
    BY ActionFields
  <2>2. CASE Put(a)
    <3>1. mapping' \in [Service -> Monitor \cup {None}]
      BY <2>1, <2>2 DEF Put
    <3>. QED  BY <2>2, <3>1 DEF Put, Done, kumaVars
  <2>3. CASE DropRow(a)
    <3>1. mapping' \in [Service -> Monitor \cup {None}]
      BY <2>1, <2>3 DEF DropRow
    <3>. QED  BY <2>3, <3>1 DEF DropRow, Done, kumaVars
  <2>. QED  BY <1>7, <2>2, <2>3
<1>8. ASSUME NEW a \in todo, Edit(a) \/ Delete(a) PROVE Typed'
  <2>1. a.target \in Target \cup {None}
    BY ActionFields
  <2>2. CASE Edit(a)
    <3>1. kuma' \in [Monitor -> Target \cup {None}]
      BY <2>1, <2>2 DEF Edit
    <3>. QED  BY <2>2, <3>1 DEF Edit, Done
  <2>3. CASE Delete(a)
    <3>1. kuma' \in [Monitor -> Target \cup {None}]
      BY <2>3 DEF Delete
    <3>. QED  BY <2>3, <3>1 DEF Delete
  <2>. QED  BY <1>8, <2>2, <2>3
<1>9. CASE UNCHANGED vars
  BY <1>9 DEF vars, kumaVars, passVars
<1>. QED  BY <1>1, <1>2, <1>3, <1>4, <1>5, <1>6, <1>7, <1>8, <1>9, Groups DEF Others

LEMMA NumbersStep ==
  ASSUME IInv, [Next]_vars
  PROVE  Numbers' /\ RowsAreDistinct'
<1>. Typed /\ Numbers /\ Planned /\ InHand /\ RowsAreDistinct
  BY DEF IInv
<1>t. /\ \A m \in Monitor : m > issued => kuma[m] = None
      /\ \A s \in Service : mapping[s] \in born \cup {None}
      /\ fresh \in born \cup {None}
      /\ \A s \in Service : mapping[s] = fresh => fresh = None
      /\ \A a \in wire : a.mon \in born \cup {None} /\ (a.kind # "create" => a.mon # None)
      /\ \A s, r \in Service : mapping[s] = mapping[r] /\ mapping[s] # None => s = r
  BY DEF Numbers, RowsAreDistinct
<1>b. born \subseteq 1 .. issued /\ issued \in 0 .. MaxMonitors
      /\ kuma \in [Monitor -> Target \cup {None}]
      /\ mapping \in [Service -> Monitor \cup {None}] /\ todo \subseteq Action
  BY DEF Typed
<1>m. \A m \in born : m \in Monitor /\ m <= issued
  BY <1>b, Bounds DEF Monitor
\* A step that leaves the rows, the numbers and the requests.
<1>u. ASSUME UNCHANGED <<mapping, kuma, issued, wire, fresh, born>> PROVE Numbers' /\ RowsAreDistinct'
  BY <1>t, <1>u DEF Numbers, RowsAreDistinct
<1>1. CASE Users
  BY <1>1, <1>u, UsersAre DEF kumaVars, passVars
<1>2. CASE Outside
  <2>1. UNCHANGED <<mapping, fresh>> /\ born \subseteq born' /\ wire' \subseteq wire
        /\ \A m \in Monitor : m > issued' => kuma'[m] = None
    BY <1>2, OutsideIs DEF passVars
  <2>. QED  BY <1>t, <2>1 DEF Numbers, RowsAreDistinct
<1>3. CASE Ends
  <2>1. UNCHANGED <<mapping, issued, born>> /\ fresh' = None
        /\ \A m \in Monitor : kuma'[m] # kuma[m] => m = fresh /\ kuma'[m] = None
        /\ \A a \in wire' : Sent(a)
    BY <1>3, EndsAre
  <2>2. \A a \in wire' : a.mon \in born' \cup {None} /\ (a.kind # "create" => a.mon # None)
    <3>1. \A a \in wire' : Sent(a)
      BY <1>3, EndsAre
    <3>2. born' = born
      BY <2>1
    <3>. QED  BY <3>1, <3>2 DEF Sent
  <2>3. \A m \in Monitor : m > issued' => kuma'[m] = None
    BY <1>t, <2>1
  <2>. QED  BY <1>t, <2>1, <2>2, <2>3 DEF Numbers, RowsAreDistinct
<1>4. CASE StartPass \/ ListServices \/ PutFails \/ Connect
  BY <1>4, <1>u DEF StartPass, ListServices, PutFails, Connect, kumaVars
<1>5. ASSUME NEW a \in todo, Add(a) PROVE Numbers' /\ RowsAreDistinct'
  <2>1. a.target \in Target \cup {None} /\ Make(a.target)
        /\ UNCHANGED <<mapping, wire>> /\ born' = born \cup {issued'} /\ fresh' = issued'
    BY <1>5, <1>b, ActionFields DEF Add
  <2>2. issued' \in Monitor /\ issued' \notin born
        /\ \A m \in Monitor : m > issued' => kuma'[m] = None
    BY <2>1, MakeIs
  <2>3. \A s \in Service : mapping[s] # issued'
    BY <1>t, <2>2, Bounds
  <2>. QED  BY <1>t, <2>1, <2>2, <2>3 DEF Numbers, RowsAreDistinct
<1>6. ASSUME NEW a \in todo, Put(a) PROVE Numbers' /\ RowsAreDistinct'
  <2>1. mapping' = [mapping EXCEPT ![a.svc] = fresh] /\ fresh' = None
        /\ UNCHANGED <<kuma, issued, wire, born>> /\ a.svc \in Service
    BY <1>6, <1>b, ActionFields DEF Put, kumaVars
  <2>2. \A s \in Service : mapping'[s] = IF s = a.svc THEN fresh ELSE mapping[s]
    BY <1>b, <2>1
  <2>. QED  BY <1>t, <2>1, <2>2 DEF Numbers, RowsAreDistinct
<1>7. ASSUME NEW a \in todo, DropRow(a) PROVE Numbers' /\ RowsAreDistinct'
  <2>1. mapping' = [mapping EXCEPT ![a.svc] = None] /\ fresh' = fresh
        /\ UNCHANGED <<kuma, issued, wire, born>> /\ a.svc \in Service
    BY <1>7, <1>b, ActionFields DEF DropRow, kumaVars
  <2>2. \A s \in Service : mapping'[s] = IF s = a.svc THEN None ELSE mapping[s]
    BY <1>b, <2>1
  <2>. QED  BY <1>t, <2>1, <2>2 DEF Numbers, RowsAreDistinct
<1>8. ASSUME NEW a \in todo, Edit(a) \/ Delete(a) PROVE Numbers' /\ RowsAreDistinct'
  <2>1. UNCHANGED <<mapping, issued, wire, fresh, born>>
    BY <1>8 DEF Edit, Delete
  <2>2. a.kind # "create" /\ \A m \in Monitor : m # a.mon => kuma'[m] = kuma[m]
    BY <1>8, <1>b DEF Edit, Delete
  <2>3. a.mon \in born /\ a.mon <= issued
    BY <1>m, <2>2, EntriesAreSent DEF Sent
  <2>4. \A m \in Monitor : m > issued => m # a.mon
    BY <1>b, <2>3, Bounds DEF Monitor
  <2>. QED  BY <1>t, <2>1, <2>2, <2>4 DEF Numbers, RowsAreDistinct
<1>9. CASE UNCHANGED vars
  BY <1>9, <1>u DEF vars, kumaVars, passVars
<1>. QED  BY <1>1, <1>2, <1>3, <1>4, <1>5, <1>6, <1>7, <1>8, <1>9, Groups DEF Others

-----------------------------------------------------------------------------
(* Planned and InHand. *)

LEMMA TurnIn == \A a : Turn(a) => a \in todo
BY DEF Turn

\* A monitor that is gone stays gone, whatever the step.
LEMMA GoneStaysGone ==
  ASSUME IInv, [Next]_vars, NEW m \in born, kuma[m] = None
  PROVE  kuma'[m] = None
<1>. Typed /\ Numbers /\ Planned /\ InHand
  BY DEF IInv
<1>b. born \subseteq 1 .. issued /\ issued \in 0 .. MaxMonitors
      /\ kuma \in [Monitor -> Target \cup {None}] /\ todo \subseteq Action
  BY DEF Typed
<1>m. m \in Monitor /\ m \in 1 .. issued
  BY <1>b, Bounds DEF Monitor
<1>1. CASE Users
  BY <1>1, UsersAre DEF kumaVars
<1>2. CASE Outside
  BY <1>2, <1>m, OutsideIs
<1>3. CASE Ends
  BY <1>3, <1>m, EndsAre
<1>4. ASSUME NEW a \in todo, Add(a) PROVE kuma'[m] = None
  <2>1. a.target \in Target \cup {None} /\ Make(a.target)
    BY <1>4, <1>b, ActionFields DEF Add
  <2>. QED  BY <1>m, <2>1, MakeIs
<1>5. ASSUME NEW a \in todo, Edit(a) \/ Delete(a) PROVE kuma'[m] = None
  BY <1>5, <1>b, <1>m DEF Edit, Delete
<1>6. CASE StartPass \/ ListServices \/ PutFails \/ Connect \/ (\E a \in todo : Put(a) \/ DropRow(a)) \/ UNCHANGED vars
  BY <1>6 DEF StartPass, ListServices, PutFails, Connect, Put, DropRow, kumaVars, vars
<1>. QED  BY <1>1, <1>2, <1>3, <1>4, <1>5, <1>6, Groups DEF Others

LEMMA PlannedStep ==
  ASSUME IInv, [Next]_vars
  PROVE  Planned'
<1>. Typed /\ Numbers /\ Planned /\ InHand
  BY DEF IInv
<1>t. /\ pc \notin Acting => todo = {}
      /\ \A a \in todo :
           /\ a.mon = mapping[a.svc]
           /\ a.target = seen[a.svc]
           /\ a.kind \in {"create", "edit"} <=> a.target # None
           /\ a.kind # "create" => a.mon # None
           /\ a.kind \in {"create", "forget"} => a.mon = None \/ kuma[a.mon] = None
      /\ \A a, b \in todo : a.svc = b.svc => a = b
  BY DEF Planned
<1>b. kuma \in [Monitor -> Target \cup {None}] /\ todo \subseteq Action
      /\ mapping \in [Service -> Monitor \cup {None}] /\ seen \in [Service -> Target \cup {None}]
  BY DEF Typed
<1>s. \A a \in todo : a.svc \in Service /\ a.mon \in born \cup {None}
  BY <1>b, ActionFields, EntriesAreSent DEF Sent
<1>g. \A m \in born : kuma[m] = None => kuma'[m] = None
  BY GoneStaysGone
\* A step that leaves the rows and what was listed.
<1>u. ASSUME todo' \subseteq todo, UNCHANGED <<mapping, seen>>, pc' \in Acting \/ todo' = {} PROVE Planned'
  <2>1. \A a \in todo' : a.kind \in {"create", "forget"} => a.mon = None \/ kuma'[a.mon] = None
    BY <1>t, <1>s, <1>g, <1>u
  <2>. QED  BY <1>t, <1>u, <2>1 DEF Planned
<1>1. CASE Users
  BY <1>1, <1>t, <1>u, UsersAre DEF passVars
<1>2. CASE Outside
  BY <1>2, <1>t, <1>u, OutsideIs DEF passVars
<1>3. CASE Ends
  <2>. todo' = {}
    BY <1>3, EndsAre
  <2>. QED  BY DEF Planned
<1>4. CASE StartPass \/ ListServices
  <2>. todo' = {}
    BY <1>4, <1>t DEF StartPass, ListServices, Acting
  <2>. QED  BY DEF Planned
<1>5. CASE Connect
  <2>1. todo' = Plan(seen, mapping, kuma) /\ UNCHANGED <<seen, mapping, kuma>> /\ pc' = "act"
    BY <1>5 DEF Connect
  <2>2. \A a \in todo' :
          /\ a.mon = mapping'[a.svc] /\ a.target = seen'[a.svc]
          /\ a.kind \in {"create", "edit"} <=> a.target # None
          /\ a.kind # "create" => a.mon # None
          /\ a.kind \in {"create", "forget"} => a.mon = None \/ kuma'[a.mon] = None
    BY <1>b, <2>1, PlanFits
  <2>3. \A a, b \in todo' : a.svc = b.svc => a = b
    BY <1>b, <2>1, PlanCovers
  <2>. QED  BY <2>1, <2>2, <2>3 DEF Planned, Acting
<1>6. CASE PutFails
  BY <1>6, <1>t, <1>u DEF PutFails, Acting
<1>7. ASSUME NEW a \in todo, Put(a) \/ DropRow(a) PROVE Planned'
  <2>1. todo' = todo \ {a} /\ UNCHANGED <<seen, kuma>> /\ pc' = "act"
    BY <1>7 DEF Put, DropRow, Done, kumaVars
  <2>2. \A s \in Service : s # a.svc => mapping'[s] = mapping[s]
    BY <1>7, <1>b, <1>s DEF Put, DropRow
  <2>3. \A b \in todo' : mapping'[b.svc] = mapping[b.svc]
    BY <1>t, <1>s, <2>1, <2>2
  <2>. QED  BY <1>t, <2>1, <2>3 DEF Planned, Acting
<1>8. ASSUME NEW a \in todo, Add(a) \/ Edit(a) \/ Delete(a) PROVE Planned'
  BY <1>8, <1>t, <1>u DEF Add, Edit, Delete, Done, Acting
<1>9. CASE UNCHANGED vars
  BY <1>9, <1>t, <1>u DEF vars, passVars
<1>. QED  BY <1>1, <1>2, <1>3, <1>4, <1>5, <1>6, <1>7, <1>8, <1>9, Groups DEF Others

LEMMA InHandStep ==
  ASSUME IInv, [Next]_vars
  PROVE  InHand'
<1>. Typed /\ Numbers /\ Planned /\ InHand
  BY DEF IInv
<1>t. /\ fresh # None <=> pc \in Making
      /\ pc \in Making => \A a \in todo : Turn(a) => a.kind = "create"
      /\ pc = "put" => \A a \in todo : Turn(a) => fresh \in touched \/ kuma[fresh] = a.target
      /\ pc = "drop" => \A a \in todo : Turn(a) => a.kind = "delete" /\ kuma[a.mon] = None
  BY DEF InHand
<1>b. kuma \in [Monitor -> Target \cup {None}] /\ todo \subseteq Action /\ fresh \in Monitor \cup {None}
  BY DEF Typed
<1>o. \A a, b : Turn(a) /\ Turn(b) => a = b
  BY <1>b, OneTurn DEF Planned
<1>1. CASE Users
  <2>. UNCHANGED <<kuma, touched, pc, todo, fresh>>
    BY <1>1, UsersAre DEF kumaVars, passVars
  <2>. QED  BY <1>t DEF InHand, Turn
<1>2. CASE Outside
  <2>1. UNCHANGED <<pc, todo, fresh>> /\ touched \subseteq touched'
        /\ \A m \in Monitor : kuma'[m] # kuma[m] => m \in touched'
    BY <1>2, OutsideIs DEF passVars
  <2>2. ASSUME NEW a \in todo, a.kind = "delete", kuma[a.mon] = None PROVE kuma'[a.mon] = None
    <3>. a.mon \in born
      BY <2>2, EntriesAreSent DEF Sent
    <3>. QED  BY <2>2, GoneStaysGone
  <2>3. pc = "put" => fresh \in Monitor
    BY <1>b, <1>t DEF Making
  <2>4. \A a \in todo' : Turn(a)' <=> Turn(a)
    BY <2>1 DEF Turn
  <2>. QED  BY <1>t, <2>1, <2>2, <2>3, <2>4 DEF InHand
<1>3. CASE Ends
  <2>. todo' = {} /\ fresh' = None /\ pc' \in {"idle", "list"}
    BY <1>3, EndsAre
  <2>. QED  BY DEF InHand, Making
<1>4. CASE StartPass \/ ListServices \/ Connect
  <2>. fresh' = fresh /\ pc \notin Making /\ pc' \notin Making \cup {"drop"}
    BY <1>4 DEF StartPass, ListServices, Connect, Making
  <2>. QED  BY <1>t DEF InHand, Making
<1>5. CASE PutFails
  <2>. UNCHANGED <<todo, fresh>> /\ pc = "put" /\ pc' = "cleanup"
    BY <1>5 DEF PutFails
  <2>. QED  BY <1>t DEF InHand, Making, Turn
<1>6. ASSUME NEW a \in todo, Add(a) PROVE InHand'
  <2>1. a.target \in Target \cup {None} /\ Make(a.target) /\ Turn(a) /\ a.kind = "create"
        /\ todo' = todo /\ fresh' = issued' /\ pc' = "put"
    BY <1>6, <1>b, ActionFields DEF Add
  <2>2. kuma'[issued'] = a.target /\ issued' # None
    BY <2>1, MakeIs, Bounds
  <2>3. \A b \in todo' : Turn(b)' => b = a
    BY <1>o, <2>1 DEF Turn
  <2>. QED  BY <2>1, <2>2, <2>3 DEF InHand, Making
<1>7. ASSUME NEW a \in todo, Put(a) \/ DropRow(a) \/ Edit(a) PROVE InHand'
  <2>. fresh' = None /\ pc' = "act"
    BY <1>7, <1>t DEF Put, DropRow, Edit, Done, Making
  <2>. QED  BY DEF InHand, Making
<1>8. ASSUME NEW a \in todo, Delete(a) PROVE InHand'
  <2>1. Turn(a) /\ a.kind = "delete" /\ todo' = todo /\ fresh' = fresh /\ pc = "act" /\ pc' = "drop"
        /\ kuma' = [kuma EXCEPT ![a.mon] = None]
    BY <1>8 DEF Delete
  <2>2. a.mon \in Monitor
    BY <1>b, <2>1, ActionFields, EntriesAreSent DEF Sent
  <2>3. kuma'[a.mon] = None
    BY <1>b, <2>1, <2>2
  <2>4. \A b \in todo' : Turn(b)' => b = a
    BY <1>o, <2>1 DEF Turn
  <2>. QED  BY <1>t, <2>1, <2>3, <2>4 DEF InHand, Making
<1>9. CASE UNCHANGED vars
  <2>. UNCHANGED <<kuma, touched, pc, todo, fresh>>
    BY <1>9 DEF vars, kumaVars, passVars
  <2>. QED  BY <1>t DEF InHand, Turn
<1>. QED  BY <1>1, <1>2, <1>3, <1>4, <1>5, <1>6, <1>7, <1>8, <1>9, Groups DEF Others

-----------------------------------------------------------------------------
(* No orphans, and the quiet state. *)

LEMMA NoOrphansStep ==
  ASSUME IInv, [Next]_vars
  PROVE  NoOrphans'
<1>. Typed /\ Numbers /\ Planned /\ InHand /\ NoOrphans /\ RowsAreDistinct
  BY DEF IInv
<1>t. \A m \in born \ lost : kuma[m] = None \/ m = fresh \/ \E s \in Service : mapping[s] = m
  BY DEF NoOrphans
<1>b. kuma \in [Monitor -> Target \cup {None}] /\ todo \subseteq Action
      /\ mapping \in [Service -> Monitor \cup {None}]
  BY DEF Typed
<1>g. \A m \in born : kuma[m] = None => kuma'[m] = None
  BY GoneStaysGone
\* A step after which every row is still there.
<1>u. ASSUME born' \subseteq born \cup lost' \cup {fresh'}, lost \subseteq lost', mapping' = mapping,
             fresh \in {None, fresh'} \/ fresh \in lost' \/ kuma'[fresh] = None
      PROVE  NoOrphans'
  <2>1. ASSUME NEW m \in born \ lost', m # fresh'
        PROVE  kuma'[m] = None \/ \E s \in Service : mapping'[s] = m
    <3>1. kuma[m] = None \/ m = fresh \/ \E s \in Service : mapping[s] = m
      BY <1>t, <1>u, <2>1
    <3>2. m # None
      BY <2>1, Bounds DEF Typed, Monitor
    <3>. QED  BY <1>g, <1>u, <2>1, <3>1, <3>2
  <2>. QED  BY <1>u, <2>1 DEF NoOrphans
<1>1. CASE Users
  BY <1>1, <1>u, UsersAre DEF passVars
<1>2. CASE Outside
  BY <1>2, <1>u, OutsideIs DEF passVars
<1>3. CASE Ends
  BY <1>3, <1>u, EndsAre
<1>4. CASE StartPass \/ ListServices \/ Connect \/ PutFails \/ UNCHANGED vars
  BY <1>4, <1>u DEF StartPass, ListServices, Connect, PutFails, vars, passVars
<1>5. ASSUME NEW a \in todo, Add(a) \/ Edit(a) \/ Delete(a) PROVE NoOrphans'
  <2>1. CASE Add(a)
    <3>. fresh = None
      BY <2>1 DEF Add, InHand, Making
    <3>. QED  BY <1>u, <2>1 DEF Add
  <2>2. CASE Edit(a) \/ Delete(a)
    BY <1>u, <2>2 DEF Edit, Delete
  <2>. QED  BY <1>5, <2>1, <2>2
\* The row that is overwritten or dropped names a monitor that is gone.
<1>6. ASSUME NEW a \in todo, Put(a) \/ DropRow(a) PROVE NoOrphans'
  <2>1. a.svc \in Service /\ a.mon = mapping[a.svc] /\ Turn(a)
        /\ UNCHANGED <<kuma, born, lost>>
    BY <1>6, <1>b, ActionFields DEF Put, DropRow, Planned, kumaVars
  <2>2. a.mon = None \/ kuma[a.mon] = None
    <3>1. CASE Put(a)
      <4>. a.kind = "create"
        BY <2>1, <3>1 DEF Put, InHand, Making
      <4>. QED  BY DEF Planned
    <3>2. CASE DropRow(a)
      <4>. a.kind = "forget" \/ kuma[a.mon] = None
        BY <2>1, <3>2 DEF DropRow, InHand
      <4>. QED  BY DEF Planned
    <3>. QED  BY <1>6, <3>1, <3>2
  <2>3. \E m \in {fresh, None} : mapping' = [mapping EXCEPT ![a.svc] = m] /\ (m = fresh \/ fresh' = fresh)
    BY <1>6 DEF Put, DropRow
  <2>4. \A s \in Service : s # a.svc => mapping'[s] = mapping[s]
    BY <1>b, <2>1, <2>3
  <2>5. fresh' = fresh \/ mapping'[a.svc] = fresh
    BY <1>b, <2>1, <2>3
  <2>6. ASSUME NEW m \in born \ lost PROVE kuma[m] = None \/ m = fresh' \/ \E s \in Service : mapping'[s] = m
    <3>1. CASE kuma[m] = None
      BY <3>1
    <3>2. CASE m = fresh
      BY <2>1, <2>5, <3>2
    <3>3. CASE \E s \in Service : mapping[s] = m
      <4>1. PICK s \in Service : mapping[s] = m
        BY <3>3
      <4>2. m # None
        BY <2>6, Bounds DEF Typed, Monitor
      <4>. QED  BY <2>1, <2>2, <2>4, <4>1, <4>2
    <3>. QED  BY <1>t, <2>6, <3>1, <3>2, <3>3
  <2>. QED  BY <2>1, <2>6 DEF NoOrphans
<1>. QED  BY <1>1, <1>2, <1>3, <1>4, <1>5, <1>6, Groups DEF Others

AllHeard == pc \in Acting \cup {"connect"} => \A s \in Service : Heard(s)
AllDone == pc \in Acting => \A s \in Service :
             (\E a \in todo : a.svc = s) \/ mapping[s] \in touched \/ Agree(s, seen[s])

LEMMA HeardStep ==
  ASSUME IInv, [Next]_vars
  PROVE  AllHeard'
<1>. Typed /\ Numbers /\ Planned /\ InHand /\ AllHeard
  BY DEF IInv, InSync, AllHeard
<1>u. ASSUME UNCHANGED <<want, seen, owed, trigger, missed>>, pc \in Acting \cup {"connect"}
      PROVE  AllHeard'
  BY <1>u DEF AllHeard, Heard
<1>1. CASE Users
  <2>1. /\ UNCHANGED <<pc, seen>> /\ missed \subseteq missed'
        /\ owed > 0 \/ trigger => owed' > 0 \/ trigger'
        /\ \A s \in Service : want'[s] # want[s] => owed' > 0 \/ s \in missed'
    BY <1>1, UsersAre DEF passVars
  <2>. QED  BY <2>1 DEF AllHeard, Heard
<1>2. CASE Outside
  <2>. UNCHANGED <<want, owed, trigger, pc, seen, missed>>
    BY <1>2, OutsideIs DEF passVars
  <2>. QED  BY DEF AllHeard, Heard
<1>3. CASE Ends
  <2>. pc' \in {"idle", "list"}
    BY <1>3, EndsAre
  <2>. QED  BY DEF AllHeard, Acting
<1>4. CASE StartPass
  BY <1>4 DEF StartPass, AllHeard, Acting
<1>5. CASE ListServices
  BY <1>5 DEF ListServices, AllHeard, Heard
<1>6. CASE Connect \/ PutFails
  BY <1>6, <1>u DEF Connect, PutFails, Acting
<1>7. ASSUME NEW a \in todo, Add(a) \/ Put(a) \/ Edit(a) \/ Delete(a) \/ DropRow(a) PROVE AllHeard'
  BY <1>7, <1>u DEF Add, Put, Edit, Delete, DropRow, Done, Acting
<1>8. CASE UNCHANGED vars
  BY <1>8 DEF vars, passVars, AllHeard, Heard
<1>. QED  BY <1>1, <1>2, <1>3, <1>4, <1>5, <1>6, <1>7, <1>8, Groups DEF Others

\* What agrees still does when no monitor changes but those that are touched
\* and those of no row.
LEMMA AgreeKept ==
  ASSUME Typed, NEW s \in Service, NEW t \in Target \cup {None},
         mapping'[s] = mapping[s], touched \subseteq touched',
         mapping[s] \in Monitor => kuma'[mapping[s]] = kuma[mapping[s]] \/ mapping[s] \in touched',
         mapping[s] \in touched \/ Agree(s, t)
  PROVE  mapping'[s] \in touched' \/ (IF t = None THEN mapping'[s] = None
                                      ELSE mapping'[s] # None /\ kuma'[mapping'[s]] = t)
<1>. mapping[s] \in Monitor \cup {None}
  BY DEF Typed
<1>. QED  BY DEF Agree

LEMMA DoneStep ==
  ASSUME IInv, [Next]_vars
  PROVE  AllDone'
<1>. Typed /\ Numbers /\ Planned /\ InHand /\ AllDone /\ RowsAreDistinct
  BY DEF IInv, InSync, AllDone
<1>b. kuma \in [Monitor -> Target \cup {None}] /\ todo \subseteq Action /\ fresh \in Monitor \cup {None}
      /\ mapping \in [Service -> Monitor \cup {None}] /\ seen \in [Service -> Target \cup {None}]
  BY DEF Typed
\* A step that takes nothing off the plan.
<1>u. ASSUME pc \in Acting, todo' = todo, UNCHANGED <<mapping, seen>>, touched \subseteq touched',
             \A s \in Service : (\E a \in todo : a.svc = s) \/ mapping[s] = None
                                \/ kuma'[mapping[s]] = kuma[mapping[s]] \/ mapping[s] \in touched'
      PROVE  AllDone'
  <2>1. ASSUME NEW s \in Service, ~ \E a \in todo : a.svc = s
        PROVE  mapping'[s] \in touched' \/ (IF seen[s] = None THEN mapping'[s] = None
                                            ELSE mapping'[s] # None /\ kuma'[mapping'[s]] = seen[s])
    <3>1. mapping[s] \in touched \/ Agree(s, seen[s])
      BY <1>u, <2>1 DEF AllDone
    <3>2. mapping[s] \in Monitor => kuma'[mapping[s]] = kuma[mapping[s]] \/ mapping[s] \in touched'
      BY <1>u, <2>1, Bounds
    <3>. QED  BY <1>b, <1>u, <3>1, <3>2, AgreeKept
  <2>. QED  BY <1>u, <2>1 DEF AllDone, Agree
\* A step that takes one entry off, whose service is in order then.
<1>d. ASSUME NEW a \in todo, pc \in Acting, todo' = todo \ {a}, UNCHANGED <<seen, touched>>,
             \A s \in Service : s # a.svc => mapping'[s] = mapping[s] /\
               (mapping[s] = None \/ kuma'[mapping[s]] = kuma[mapping[s]]),
             mapping'[a.svc] \in touched \/
               (IF seen[a.svc] = None THEN mapping'[a.svc] = None
                ELSE mapping'[a.svc] # None /\ kuma'[mapping'[a.svc]] = seen[a.svc])
      PROVE  AllDone'
  <2>1. ASSUME NEW s \in Service, ~ \E b \in todo' : b.svc = s, s # a.svc
        PROVE  mapping'[s] \in touched' \/ (IF seen[s] = None THEN mapping'[s] = None
                                            ELSE mapping'[s] # None /\ kuma'[mapping'[s]] = seen[s])
    <3>1. mapping[s] \in touched \/ Agree(s, seen[s])
      BY <1>d, <2>1 DEF AllDone
    <3>2. mapping[s] \in Monitor => kuma'[mapping[s]] = kuma[mapping[s]] \/ mapping[s] \in touched'
      BY <1>d, <2>1, Bounds
    <3>. QED  BY <1>b, <1>d, <2>1, <3>1, <3>2, AgreeKept
  <2>. QED  BY <1>d, <2>1 DEF AllDone, Agree
<1>1. CASE Users
  <2>. UNCHANGED <<mapping, kuma, touched, pc, seen, todo>>
    BY <1>1, UsersAre DEF kumaVars, passVars
  <2>. QED  BY DEF AllDone, Agree
<1>2. CASE Outside
  <2>1. UNCHANGED <<mapping, pc, seen, todo>> /\ touched \subseteq touched'
        /\ \A m \in Monitor : kuma'[m] # kuma[m] => m \in touched'
    BY <1>2, OutsideIs DEF passVars
  <2>2. CASE pc \in Acting
    BY <1>b, <1>u, <2>1, <2>2
  <2>. QED  BY <2>1, <2>2 DEF AllDone
<1>3. CASE Ends
  <2>. pc' \in {"idle", "list"}
    BY <1>3, EndsAre
  <2>. QED  BY DEF AllDone, Acting
<1>4. CASE StartPass \/ ListServices
  BY <1>4 DEF StartPass, ListServices, AllDone, Acting
<1>5. CASE Connect
  <2>1. todo' = Plan(seen, mapping, kuma) /\ UNCHANGED <<seen, mapping, kuma>>
    BY <1>5 DEF Connect
  <2>2. \A s \in Service :
          \/ \E a \in todo' : a.svc = s
          \/ IF seen[s] = None THEN mapping[s] = None
             ELSE mapping[s] # None /\ kuma[mapping[s]] = seen[s]
    BY <1>b, <2>1, PlanCovers
  <2>. QED  BY <2>1, <2>2 DEF AllDone, Agree
<1>6. CASE PutFails
  BY <1>6, <1>u DEF PutFails, kumaVars, Acting
<1>7. ASSUME NEW a \in todo, Add(a) PROVE AllDone'
  <2>1. a.target \in Target \cup {None} /\ Make(a.target) /\ pc = "act"
        /\ UNCHANGED <<todo, mapping, seen, touched>>
    BY <1>7, <1>b, ActionFields DEF Add
  <2>2. issued' \notin born /\ \A m \in Monitor : m # issued' => kuma'[m] = kuma[m]
    BY <2>1, MakeIs
  <2>3. \A s \in Service : mapping[s] = None \/ kuma'[mapping[s]] = kuma[mapping[s]]
    BY <1>b, <2>2 DEF Numbers
  <2>. QED  BY <1>u, <2>1, <2>3 DEF Acting
<1>8. ASSUME NEW a \in todo, Put(a) PROVE AllDone'
  <2>1. pc = "put" /\ Turn(a) /\ todo' = todo \ {a} /\ UNCHANGED <<seen, touched, kuma>>
        /\ mapping' = [mapping EXCEPT ![a.svc] = fresh] /\ a.svc \in Service
    BY <1>8, <1>b, ActionFields DEF Put, Done, kumaVars
  <2>2. fresh # None /\ a.kind = "create" /\ (fresh \in touched \/ kuma[fresh] = a.target)
    BY <2>1 DEF InHand, Making
  <2>3. a.target = seen[a.svc] /\ a.target # None
    BY <2>2 DEF Planned
  <2>4. mapping'[a.svc] = fresh /\ \A s \in Service : s # a.svc => mapping'[s] = mapping[s]
    BY <1>b, <2>1
  <2>. QED  BY <1>d, <2>1, <2>2, <2>3, <2>4 DEF Acting
<1>9. ASSUME NEW a \in todo, DropRow(a) PROVE AllDone'
  <2>1. pc \in Acting /\ Turn(a) /\ todo' = todo \ {a} /\ UNCHANGED <<seen, touched, kuma>>
        /\ mapping' = [mapping EXCEPT ![a.svc] = None] /\ a.svc \in Service
    BY <1>9, <1>b, ActionFields DEF DropRow, Done, kumaVars, Acting
  <2>2. a.kind \in {"delete", "forget"}
    BY <1>9, <2>1 DEF DropRow, InHand
  <2>3. seen[a.svc] = None
    BY <2>2 DEF Planned
  <2>4. mapping'[a.svc] = None /\ \A s \in Service : s # a.svc => mapping'[s] = mapping[s]
    BY <1>b, <2>1
  <2>. QED  BY <1>d, <2>1, <2>3, <2>4
<1>10. ASSUME NEW a \in todo, Edit(a) \/ Delete(a) PROVE AllDone'
  <2>1. a.svc \in Service /\ a.mon = mapping[a.svc] /\ a.kind # "create" /\ a.mon # None
    BY <1>10, <1>b, ActionFields DEF Edit, Delete, Planned
  <2>2. a.mon \in Monitor /\ \A m \in Monitor : m # a.mon => kuma'[m] = kuma[m]
    BY <1>10, <1>b, <2>1, ActionFields DEF Edit, Delete
  <2>3. \A s \in Service : s # a.svc => mapping[s] = None \/ kuma'[mapping[s]] = kuma[mapping[s]]
    BY <1>b, <2>1, <2>2 DEF RowsAreDistinct
  <2>4. CASE Edit(a)
    <3>1. pc = "act" /\ todo' = todo \ {a} /\ UNCHANGED <<seen, touched, mapping>>
          /\ kuma' = [kuma EXCEPT ![a.mon] = a.target] /\ a.kind = "edit"
      BY <2>4 DEF Edit, Done
    <3>2. kuma'[mapping'[a.svc]] = a.target /\ a.target # None /\ a.target = seen[a.svc]
      BY <1>b, <2>1, <2>2, <3>1 DEF Planned
    <3>. QED  BY <1>d, <2>1, <2>3, <3>1, <3>2 DEF Acting
  <2>5. CASE Delete(a)
    <3>1. pc = "act" /\ UNCHANGED <<todo, seen, touched, mapping>>
      BY <2>5 DEF Delete
    <3>. QED  BY <1>u, <2>3, <3>1 DEF Acting
  <2>. QED  BY <1>10, <2>4, <2>5
<1>11. CASE UNCHANGED vars
  BY <1>11 DEF vars, kumaVars, passVars, AllDone, Agree
<1>. QED  BY <1>1, <1>2, <1>3, <1>4, <1>5, <1>6, <1>7, <1>8, <1>9, <1>10, <1>11, Groups DEF Others

LEMMA QuietStep ==
  ASSUME IInv, [Next]_vars
  PROVE  QuietMeansSynced'
<1>. Typed /\ Numbers /\ Planned /\ InHand /\ AllDone /\ AllHeard /\ QuietMeansSynced
  BY DEF IInv, InSync, AllDone, AllHeard
<1>. SUFFICES ASSUME pc' = "idle", last' = "ok", ~trigger', owed' = 0, NEW s \in Service, s \notin missed'
              PROVE  mapping'[s] \in touched' \/ Agree(s, want[s])'
  BY DEF QuietMeansSynced
<1>b. /\ mapping \in [Service -> Monitor \cup {None}] /\ want \in [Service -> Target \cup {None}]
      /\ owed \in Nat /\ trigger \in BOOLEAN
  BY Bounds DEF Typed
<1>1. CASE Users
  <2>1. UNCHANGED <<mapping, kuma, touched, pc, last>> /\ missed \subseteq missed'
        /\ (owed > 0 \/ trigger => owed' > 0 \/ trigger')
        /\ (want'[s] # want[s] => owed' > 0 \/ s \in missed')
    BY <1>1, UsersAre DEF kumaVars, passVars
  <2>2. want'[s] = want[s] /\ owed = 0 /\ ~trigger
    BY <1>b, <2>1
  <2>3. mapping[s] \in touched \/ Agree(s, want[s])
    BY <2>1, <2>2 DEF QuietMeansSynced
  <2>. QED  BY <2>1, <2>2, <2>3 DEF Agree
<1>2. CASE Outside
  <2>1. UNCHANGED <<want, owed, trigger, mapping, pc, last, missed>> /\ touched \subseteq touched'
        /\ \A m \in Monitor : kuma'[m] # kuma[m] => m \in touched'
    BY <1>2, OutsideIs DEF passVars
  <2>2. mapping[s] \in touched \/ Agree(s, want[s])
    BY <2>1 DEF QuietMeansSynced
  <2>. QED  BY <1>b, <2>1, <2>2, AgreeKept DEF Agree
<1>3. CASE Ends
  <2>1. UNCHANGED <<want, mapping, touched, missed, owed, trigger, kuma>> /\ pc = "act" /\ todo = {}
    BY <1>3, EndsAre
  <2>2. seen[s] = want[s]
    BY <2>1 DEF AllHeard, Heard, Acting
  <2>3. mapping[s] \in touched \/ Agree(s, seen[s])
    BY <2>1 DEF AllDone, Acting
  <2>. QED  BY <2>1, <2>2, <2>3 DEF Agree
<1>4. CASE Others
  BY <1>4 DEF Others, StartPass, ListServices, Connect, PutFails, Add, Put, Edit, Delete, DropRow, Done
<1>5. CASE UNCHANGED vars
  <2>1. UNCHANGED <<want, mapping, touched, missed, owed, trigger, kuma, pc, last>>
    BY <1>5 DEF vars, kumaVars, passVars
  <2>2. mapping[s] \in touched \/ Agree(s, want[s])
    BY <2>1 DEF QuietMeansSynced
  <2>. QED  BY <2>1, <2>2 DEF Agree
<1>. QED  BY <1>1, <1>2, <1>3, <1>4, <1>5, Groups

LEMMA Invariant == Spec => []IInv
<1>1. Init => IInv
  BY InitHolds
<1>2. IInv /\ [Next]_vars => IInv'
  <2>. SUFFICES ASSUME IInv, [Next]_vars PROVE IInv'
    OBVIOUS
  <2>1. InSync'
    BY HeardStep, DoneStep, QuietStep DEF InSync, AllHeard, AllDone
  <2>. QED  BY <2>1, TypedStep, NumbersStep, PlannedStep, InHandStep, NoOrphansStep DEF IInv
<1>. QED  BY <1>1, <1>2, PTL DEF Spec

-----------------------------------------------------------------------------
(* The theorems. *)

\* The variables keep their types.
THEOREM SyncTypeCorrect == Spec => []TypeOK
<1>1. IInv => TypeOK
  BY TypedIsTypeOK DEF IInv
<1>. QED  BY <1>1, Invariant, PTL

\* No monitor of almanaut's is left without a row, unless its number was lost.
THEOREM NoOrphansRemain == Spec => []NoOrphans
<1>1. IInv => NoOrphans
  BY DEF IInv
<1>. QED  BY <1>1, Invariant, PTL

\* No two services share a monitor.
THEOREM RowsStayDistinct == Spec => []RowsAreDistinct
<1>1. IInv => RowsAreDistinct
  BY DEF IInv
<1>. QED  BY <1>1, Invariant, PTL

\* When the sync is quiet, Kuma agrees with the services.
THEOREM QuietIsSynced == Spec => []QuietMeansSynced
<1>1. IInv => QuietMeansSynced
  BY DEF IInv, InSync
<1>. QED  BY <1>1, Invariant, PTL

\* Monitors made by hand are left alone.
THEOREM HandMadeStayUntouched == Spec => HandMadeUntouched
<1>. DEFINE Left == \A m \in (1 .. issued) \ born : kuma'[m] # kuma[m] => spent'.byHand > spent.byHand
<1>1. IInv /\ [Next]_vars => [Left]_vars
  <2>. SUFFICES ASSUME IInv, [Next]_vars PROVE Left
    OBVIOUS
  <2>. Typed /\ Numbers /\ Planned /\ InHand
    BY DEF IInv
  <2>. SUFFICES ASSUME NEW m \in (1 .. issued) \ born, kuma'[m] # kuma[m]
                PROVE  spent'.byHand > spent.byHand
    OBVIOUS
  <2>b. m \in Monitor /\ fresh \in born \cup {None} /\ None \notin Monitor /\ todo \subseteq Action
        /\ kuma \in [Monitor -> Target \cup {None}]
    BY Bounds DEF Typed, Numbers, Monitor
  <2>1. CASE Users
    BY <2>1, UsersAre DEF kumaVars
  <2>2. CASE Outside
    BY <2>2, <2>b, OutsideIs
  <2>3. CASE Ends
    BY <2>3, <2>b, EndsAre
  <2>4. ASSUME NEW a \in todo, Add(a) PROVE FALSE
    <3>1. a.target \in Target \cup {None} /\ Make(a.target)
      BY <2>4, <2>b, ActionFields DEF Add
    <3>. QED  BY <2>b, <3>1, MakeIs
  <2>5. ASSUME NEW a \in todo, Edit(a) \/ Delete(a) PROVE FALSE
    <3>1. a.mon \in born \cup {None} /\ a.kind # "create" /\ a.mon # None
      BY <2>5, EntriesAreSent DEF Sent, Edit, Delete
    <3>. QED  BY <2>5, <2>b, <3>1 DEF Edit, Delete
  <2>6. CASE StartPass \/ ListServices \/ Connect \/ PutFails \/ (\E a \in todo : Put(a) \/ DropRow(a)) \/ UNCHANGED vars
    BY <2>6 DEF StartPass, ListServices, Connect, PutFails, Put, DropRow, vars, kumaVars
  <2>. QED  BY <2>1, <2>2, <2>3, <2>4, <2>5, <2>6, Groups DEF Others
<1>. QED  BY <1>1, Invariant, PTL DEF Spec, HandMadeUntouched

(***************************************************************************)
(* Every monitor almanaut made is accounted for, by one row at most, for    *)
(* any number of services, changes, faults and restarts.                    *)
(***************************************************************************)
THEOREM MonitorsStayAccounted == Spec => []MonitorsAccounted
<1>1. TypeOK /\ NoOrphans /\ RowsAreDistinct => MonitorsAccounted
  BY DEF MonitorsAccounted
<1>. QED  BY <1>1, SyncTypeCorrect, NoOrphansRemain, RowsStayDistinct, PTL
=============================================================================
