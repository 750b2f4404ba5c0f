-------------------------- MODULE WebhookQueueProofs --------------------------
(***************************************************************************)
(* Proofs about WebhookQueue, for every set of events, endpoints and        *)
(* workers, every channel capacity and every number of attempts.            *)
(***************************************************************************)
EXTENDS WebhookQueue, FiniteSetTheorems, SequenceTheorems, TLAPS

-----------------------------------------------------------------------------
(***************************************************************************)
(* The inductive invariant. To know that the counter is right one has to    *)
(* know that an event or a delivery is in one place only: a delivery that   *)
(* entered backoff twice would be counted once there and hold two slots.    *)
(***************************************************************************)

\* TypeOK by the goroutines that own the variables.
EventTypes ==
  /\ sending \in SUBSET Event
  /\ dispatched \in SUBSET Event
  /\ events \in Seq(Event)
  /\ expanding \in Event \cup {Idle}
  /\ targets \in SUBSET Endpoint

JobTypes ==
  /\ jobs \in Seq(Delivery)
  /\ posting \in [Worker -> Delivery \cup {Idle}]
  /\ backoff \in SUBSET Delivery
  /\ attempt \in [Delivery -> 0 .. MaxAttempts]
  /\ posts \in [Delivery -> Nat]
  /\ outcome \in [Delivery -> {"open", "delivered", "given up", "dropped"}]

\* An event is with its caller, in the channel, with the expander or gone.
EventsPlaced ==
  /\ sending \subseteq dispatched
  /\ \A i \in 1 .. Len(events) :
       /\ events[i] \in dispatched \ sending
       /\ events[i] # expanding
       /\ \A j \in 1 .. Len(events) : events[i] = events[j] => i = j
  /\ expanding # Idle => expanding \in dispatched \ sending
  /\ expanding = Idle => targets = {}

\* The deliveries of an event are made while the expander has it.
Unmade ==
  \A e \in Event, ep \in Endpoint :
    attempt[<<e, ep>>] # 0 =>
      /\ e \in dispatched \ sending
      /\ \A i \in 1 .. Len(events) : events[i] # e
      /\ ~(e = expanding /\ ep \in targets)

\* The deliveries in the channel, at a worker, and not yet ended.
Queued == {jobs[i] : i \in 1 .. Len(jobs)}
Posted == {posting[w] : w \in Worker} \ {Idle}
Opened == {d \in Delivery : attempt[d] # 0 /\ outcome[d] = "open"}

QueuedOnce == \A i, j \in 1 .. Len(jobs) : jobs[i] = jobs[j] => i = j

\* An open delivery is in the channel, with a worker or with a timer, in one of
\* these only, and posts counts its attempts.
JobsPlaced ==
  /\ QueuedOnce
  /\ NoConcurrentPosts
  /\ Opened = Queued \cup Posted \cup backoff
  /\ Queued \cap Posted = {}
  /\ Queued \cap backoff = {}
  /\ Posted \cap backoff = {}
  /\ \A d \in Queued \cup backoff : posts[d] = attempt[d] - 1
  /\ \A d \in Posted : posts[d] = attempt[d]

Counted ==
  \A d \in Delivery :
    /\ posts[d] <= MaxAttempts
    /\ attempt[d] = 0 => posts[d] = 0 /\ outcome[d] = "open"
    /\ outcome[d] = "given up" => posts[d] = MaxAttempts

Finite == IsFiniteSet(sending) /\ IsFiniteSet(Busy) /\ IsFiniteSet(backoff)

Slots == Finite /\ SlotsMatch

EventInv == EventTypes /\ EventsPlaced
JobInv == JobTypes /\ JobsPlaced /\ Counted
PlacesInv == EventInv /\ JobInv /\ Unmade /\ waiting \in BOOLEAN
IInv == PlacesInv /\ Slots

-----------------------------------------------------------------------------
LEMMA Types == EventTypes /\ JobTypes /\ wg \in Int /\ waiting \in BOOLEAN => TypeOK
BY DEF TypeOK, EventTypes, JobTypes

(* Channels. *)

LEMMA Sent ==
  ASSUME NEW S, NEW s \in Seq(S), NEW x \in S
  PROVE  /\ Append(s, x) \in Seq(S)
         /\ Len(Append(s, x)) = Len(s) + 1
         /\ Len(s) \in Nat
         /\ \A i \in 1 .. Len(s) : Append(s, x)[i] = s[i]
         /\ Append(s, x)[Len(s) + 1] = x
BY AppendProperties

LEMMA Received ==
  ASSUME NEW S, NEW s \in Seq(S), s # <<>>
  PROVE  /\ Head(s) \in S /\ Head(s) = s[1]
         /\ Tail(s) \in Seq(S)
         /\ Len(s) \in Nat \ {0}
         /\ Len(Tail(s)) = Len(s) - 1
         /\ \A i \in 1 .. Len(s) - 1 : Tail(s)[i] = s[i + 1]
<1>1. Len(s) \in Nat \ {0}
  BY EmptySeq
<1>. QED  BY <1>1, HeadTailProperties

LEMMA Elements ==
  ASSUME NEW S, NEW s \in Seq(S)
  PROVE  /\ Len(s) \in Nat
         /\ \A i \in 1 .. Len(s) : s[i] \in S
OBVIOUS

-----------------------------------------------------------------------------
(* Where events are. *)

LEMMA InitEvents == Init => EventInv /\ Unmade
<1>. SUFFICES ASSUME Init PROVE EventInv /\ Unmade
  OBVIOUS
<1>. USE DEF Init
<1>1. EventTypes
  BY DEF EventTypes
<1>2. EventsPlaced
  BY DEF EventsPlaced
<1>3. Unmade
  BY DEF Unmade, Delivery
<1>. QED  BY <1>1, <1>2, <1>3 DEF EventInv

\* The variables of the event side as one group.
EventsSame == UNCHANGED <<sending, dispatched, events, expanding, targets>>

LEMMA EventsKept ==
  ASSUME EventInv, EventsSame
  PROVE  EventInv'
<1>1. EventTypes'
  BY DEF EventInv, EventTypes, EventsSame
<1>2. EventsPlaced'
  BY DEF EventInv, EventsPlaced, EventsSame
<1>. QED  BY <1>1, <1>2 DEF EventInv

LEMMA DispatchAddEvents ==
  ASSUME EventInv, Unmade, NEW e \in Event, DispatchAdd(e)
  PROVE  EventInv' /\ Unmade'
<1>1. /\ e \notin dispatched
      /\ dispatched' = dispatched \cup {e}
      /\ sending' = sending \cup {e}
      /\ events' = events /\ expanding' = expanding /\ targets' = targets
      /\ attempt' = attempt
  BY DEF DispatchAdd, expanderVars, jobVars
<1>2. EventTypes'
  BY <1>1 DEF EventInv, EventTypes
<1>3. EventsPlaced'
  BY <1>1 DEF EventInv, EventsPlaced
<1>4. Unmade'
  BY <1>1 DEF Unmade
<1>. QED  BY <1>2, <1>3, <1>4 DEF EventInv

LEMMA DispatchSendEvents ==
  ASSUME EventInv, Unmade, NEW e \in Event, DispatchSend(e)
  PROVE  EventInv' /\ Unmade'
<1>1. /\ e \in sending
      /\ sending' = sending \ {e}
      /\ dispatched' = dispatched
      /\ expanding' = expanding /\ targets' = targets
      /\ attempt' = attempt
  BY DEF DispatchSend, jobVars
<1>2. events' = events \/ events' = Append(events, e)
  BY DEF DispatchSend
<1>3. events \in Seq(Event)
  BY DEF EventInv, EventTypes
<1>4. /\ Append(events, e) \in Seq(Event)
      /\ Len(Append(events, e)) = Len(events) + 1
      /\ Len(events) \in Nat
      /\ \A i \in 1 .. Len(events) : Append(events, e)[i] = events[i]
      /\ Append(events, e)[Len(events) + 1] = e
  BY <1>3, Sent
<1>5. EventTypes'
  <2>1. events' \in Seq(Event)
    BY <1>2, <1>3, <1>4
  <2>. QED  BY <1>1, <2>1 DEF EventInv, EventTypes
<1>6. e \in dispatched /\ expanding # e /\ \A i \in 1 .. Len(events) : events[i] # e
  BY <1>1, IdleAssumption DEF EventInv, EventsPlaced
<1>7. EventsPlaced'
  <2>1. CASE events' = events
    BY <1>1, <2>1 DEF EventInv, EventsPlaced
  <2>2. CASE events' = Append(events, e)
    <3>1. /\ Len(events') = Len(events) + 1
          /\ \A i \in 1 .. Len(events) : events'[i] = events[i]
          /\ events'[Len(events) + 1] = e
      BY <1>4, <2>2
    <3>2. \A i \in 1 .. Len(events') : i \in 1 .. Len(events) \/ i = Len(events) + 1
      BY <1>4, <3>1
    <3>. QED  BY <1>1, <1>4, <1>6, <3>1, <3>2 DEF EventInv, EventsPlaced
  <2>. QED  BY <1>2, <2>1, <2>2
<1>8. Unmade'
  <2>1. CASE events' = events
    BY <1>1, <2>1 DEF Unmade
  <2>2. CASE events' = Append(events, e)
    <3>1. \A i \in 1 .. Len(events') :
            events'[i] = e \/ \E j \in 1 .. Len(events) : events'[i] = events[j]
      BY <1>4, <2>2
    <3>. QED  BY <1>1, <3>1 DEF Unmade
  <2>. QED  BY <1>2, <2>1, <2>2
<1>. QED  BY <1>5, <1>7, <1>8 DEF EventInv

LEMMA ExpandEvents ==
  ASSUME EventInv, Unmade, NEW S \in SUBSET Endpoint, Expand(S)
  PROVE  EventInv' /\ Unmade'
<1>1. /\ expanding = Idle /\ events # <<>>
      /\ expanding' = Head(events)
      /\ events' = Tail(events)
      /\ targets' = S
      /\ sending' = sending /\ dispatched' = dispatched
      /\ attempt' = attempt
  BY DEF Expand, senderVars, jobVars
<1>2. events \in Seq(Event)
  BY DEF EventInv, EventTypes
<1>3. /\ expanding' \in Event /\ expanding' = events[1]
      /\ events' \in Seq(Event)
      /\ Len(events) \in Nat \ {0}
      /\ Len(events') = Len(events) - 1
      /\ \A i \in 1 .. Len(events) - 1 : events'[i] = events[i + 1]
  BY <1>1, <1>2, Received
<1>4. EventTypes'
  BY <1>1, <1>3 DEF EventInv, EventTypes
<1>5. \A i \in 1 .. Len(events') :
        i + 1 \in 2 .. Len(events) /\ i \in Nat /\ events'[i] = events[i + 1]
  BY <1>3
<1>6. 1 \in 1 .. Len(events)
  BY <1>3
<1>7. EventsPlaced'
  <2>1. expanding' \in dispatched' \ sending'
    BY <1>1, <1>3, <1>6 DEF EventInv, EventsPlaced
  <2>2. expanding' # Idle
    BY <1>3, IdleAssumption
  <2>3. sending' \subseteq dispatched'
    BY <1>1 DEF EventInv, EventsPlaced
  <2>4. ASSUME NEW i \in 1 .. Len(events')
        PROVE  /\ events'[i] \in dispatched' \ sending'
               /\ events'[i] # expanding'
               /\ \A j \in 1 .. Len(events') : events'[i] = events'[j] => i = j
    <3>1. i + 1 \in 2 .. Len(events) /\ i + 1 # 1 /\ i + 1 \in 1 .. Len(events)
      BY <1>3, <1>5
    <3>2. events[i + 1] \in dispatched \ sending
      BY <3>1 DEF EventInv, EventsPlaced
    <3>3. events[i + 1] # events[1]
      BY <1>6, <3>1 DEF EventInv, EventsPlaced
    <3>4. \A j \in 1 .. Len(events') : events'[i] = events'[j] => i = j
      <4>1. SUFFICES ASSUME NEW j \in 1 .. Len(events'), events'[i] = events'[j]
                     PROVE  i = j
        OBVIOUS
      <4>2. j + 1 \in 1 .. Len(events) /\ events[i + 1] = events[j + 1]
        BY <1>3, <1>5, <4>1
      <4>3. i + 1 = j + 1
        BY <3>1, <4>2 DEF EventInv, EventsPlaced
      <4>. QED  BY <1>5, <4>3
    <3>. QED  BY <1>1, <1>3, <1>5, <3>2, <3>3, <3>4
  <2>. QED  BY <2>1, <2>2, <2>3, <2>4 DEF EventsPlaced
<1>8. Unmade'
  <2>1. SUFFICES ASSUME NEW e \in Event, NEW ep \in Endpoint, attempt[<<e, ep>>] # 0
                 PROVE  /\ e \in dispatched \ sending
                        /\ \A i \in 1 .. Len(events') : events'[i] # e
                        /\ e # expanding'
    BY <1>1 DEF Unmade
  <2>2. /\ e \in dispatched \ sending
        /\ \A i \in 1 .. Len(events) : events[i] # e
    BY <2>1 DEF Unmade
  <2>3. \A i \in 1 .. Len(events') : i + 1 \in 1 .. Len(events)
    BY <1>3, <1>5
  <2>. QED  BY <1>3, <1>5, <1>6, <2>2, <2>3
<1>. QED  BY <1>4, <1>7, <1>8 DEF EventInv

LEMMA FinishExpandEvents ==
  ASSUME EventInv, Unmade, FinishExpand
  PROVE  EventInv' /\ Unmade'
<1>1. /\ expanding' = Idle /\ targets = {} /\ targets' = targets
      /\ sending' = sending /\ dispatched' = dispatched /\ events' = events
      /\ attempt' = attempt
  BY DEF FinishExpand, senderVars, jobVars
<1>2. EventTypes'
  BY <1>1 DEF EventInv, EventTypes
<1>3. \A i \in 1 .. Len(events) : events[i] # Idle
  BY IdleAssumption, Elements DEF EventInv, EventTypes
<1>4. EventsPlaced'
  BY <1>1, <1>3 DEF EventInv, EventsPlaced
<1>5. Unmade'
  BY <1>1 DEF Unmade
<1>. QED  BY <1>2, <1>4, <1>5 DEF EventInv

LEMMA MakeDeliveryEvents ==
  ASSUME EventInv, JobInv, Unmade, NEW ep \in Endpoint, MakeDelivery(ep)
  PROVE  EventInv' /\ Unmade'
<1>1. /\ ep \in targets /\ targets' = targets \ {ep}
      /\ attempt' = [attempt EXCEPT ![<<expanding, ep>>] = 1]
      /\ sending' = sending /\ dispatched' = dispatched /\ events' = events
      /\ expanding' = expanding
  BY DEF MakeDelivery, senderVars
<1>2. expanding # Idle /\ expanding \in Event
  BY <1>1 DEF EventInv, EventsPlaced, EventTypes
<1>3. EventTypes'
  BY <1>1 DEF EventInv, EventTypes
<1>4. EventsPlaced'
  BY <1>1, <1>2 DEF EventInv, EventsPlaced
<1>5. Unmade'
  <2>1. SUFFICES ASSUME NEW e \in Event, NEW p \in Endpoint, attempt'[<<e, p>>] # 0
                 PROVE  /\ e \in dispatched \ sending
                        /\ \A i \in 1 .. Len(events) : events[i] # e
                        /\ ~(e = expanding /\ p \in targets')
    BY <1>1 DEF Unmade
  <2>2. CASE e = expanding /\ p = ep
    BY <1>1, <1>2, <2>2 DEF EventInv, EventsPlaced
  <2>3. CASE ~(e = expanding /\ p = ep)
    <3>1. <<e, p>> \in Delivery /\ <<e, p>> # <<expanding, ep>>
      BY <2>3 DEF Delivery
    <3>2. attempt'[<<e, p>>] = attempt[<<e, p>>]
      BY <1>1, <3>1 DEF JobInv, JobTypes
    <3>. QED  BY <1>1, <2>1, <3>2 DEF Unmade
  <2>. QED  BY <2>2, <2>3
<1>. QED  BY <1>3, <1>4, <1>5 DEF EventInv

-----------------------------------------------------------------------------
(* The channel and the workers as sets. *)

LEMMA JobSent ==
  ASSUME jobs \in Seq(Delivery), NEW d \in Delivery, jobs' = Append(jobs, d)
  PROVE  /\ Queued' = Queued \cup {d}
         /\ QueuedOnce /\ d \notin Queued => QueuedOnce'
<1>1. /\ Len(jobs) \in Nat
      /\ Len(jobs') = Len(jobs) + 1
      /\ \A i \in 1 .. Len(jobs) : jobs'[i] = jobs[i]
      /\ jobs'[Len(jobs) + 1] = d
  BY Sent
<1>2. 1 .. Len(jobs') = 1 .. Len(jobs) \cup {Len(jobs) + 1}
  BY <1>1
<1>3. Queued' = Queued \cup {d}
  BY <1>1, <1>2 DEF Queued
<1>4. ASSUME QueuedOnce, d \notin Queued
      PROVE  QueuedOnce'
  <2>1. \A i \in 1 .. Len(jobs) : jobs[i] # d
    BY <1>4 DEF Queued
  <2>. QED  BY <1>1, <1>2, <1>4, <2>1 DEF QueuedOnce
<1>. QED  BY <1>3, <1>4

LEMMA JobReceived ==
  ASSUME jobs \in Seq(Delivery), jobs # <<>>, jobs' = Tail(jobs), QueuedOnce
  PROVE  /\ Head(jobs) \in Delivery
         /\ Head(jobs) \in Queued
         /\ Queued' = Queued \ {Head(jobs)}
         /\ QueuedOnce'
<1>1. /\ Head(jobs) \in Delivery /\ Head(jobs) = jobs[1]
      /\ Len(jobs) \in Nat \ {0}
      /\ Len(jobs') = Len(jobs) - 1
      /\ \A i \in 1 .. Len(jobs) - 1 : jobs'[i] = jobs[i + 1]
  BY Received
<1>2. 1 \in 1 .. Len(jobs)
  BY <1>1
<1>3. \A i \in 1 .. Len(jobs') : i + 1 \in 1 .. Len(jobs) /\ i + 1 # 1 /\ jobs'[i] = jobs[i + 1]
  BY <1>1
<1>4. Queued' \subseteq Queued \ {Head(jobs)}
  BY <1>1, <1>2, <1>3 DEF Queued, QueuedOnce
<1>5. Queued \ {Head(jobs)} \subseteq Queued'
  <2>1. SUFFICES ASSUME NEW i \in 1 .. Len(jobs), jobs[i] # jobs[1]
                 PROVE  jobs[i] \in Queued'
    BY <1>1 DEF Queued
  <2>2. i # 1 /\ i - 1 \in 1 .. Len(jobs') /\ i = (i - 1) + 1
    BY <1>1, <2>1
  <2>3. jobs'[i - 1] = jobs[i]
    BY <1>3, <2>2
  <2>. QED  BY <2>2, <2>3 DEF Queued
<1>6. QueuedOnce'
  <2>1. SUFFICES ASSUME NEW i \in 1 .. Len(jobs'), NEW j \in 1 .. Len(jobs'), jobs'[i] = jobs'[j]
                 PROVE  i = j
    BY DEF QueuedOnce
  <2>2. i + 1 = j + 1
    BY <1>3, <2>1 DEF QueuedOnce
  <2>3. i \in Nat /\ j \in Nat
    BY <1>1
  <2>. QED  BY <2>2, <2>3
<1>. QED  BY <1>1, <1>2, <1>4, <1>5, <1>6 DEF Queued

LEMMA PostStarted ==
  ASSUME posting \in [Worker -> Delivery \cup {Idle}],
         NEW w \in Worker, posting[w] = Idle,
         NEW d \in Delivery, posting' = [posting EXCEPT ![w] = d]
  PROVE  /\ Posted' = Posted \cup {d}
         /\ Busy' = Busy \cup {w} /\ w \notin Busy
         /\ NoConcurrentPosts /\ d \notin Posted => NoConcurrentPosts'
<1>1. d # Idle
  BY IdleAssumption DEF Delivery
<1>2. \A v \in Worker : posting'[v] = IF v = w THEN d ELSE posting[v]
  OBVIOUS
<1>3. Posted' = Posted \cup {d}
  BY <1>1, <1>2 DEF Posted
<1>4. Busy' = Busy \cup {w} /\ w \notin Busy
  BY <1>1, <1>2 DEF Busy
<1>5. NoConcurrentPosts /\ d \notin Posted => NoConcurrentPosts'
  <2>1. d \notin Posted => \A v \in Worker : posting[v] # d
    BY <1>1 DEF Posted
  <2>. QED  BY <1>1, <1>2, <2>1 DEF NoConcurrentPosts
<1>. QED  BY <1>3, <1>4, <1>5

LEMMA PostEnded ==
  ASSUME posting \in [Worker -> Delivery \cup {Idle}], NoConcurrentPosts,
         NEW w \in Worker, posting[w] # Idle, posting' = [posting EXCEPT ![w] = Idle]
  PROVE  /\ posting[w] \in Delivery /\ posting[w] \in Posted
         /\ Posted' = Posted \ {posting[w]}
         /\ Busy' = Busy \ {w} /\ w \in Busy
         /\ NoConcurrentPosts'
<1>1. \A v \in Worker : posting'[v] = IF v = w THEN Idle ELSE posting[v]
  OBVIOUS
<1>2. \A v \in Worker : posting[v] = posting[w] => v = w
  BY DEF NoConcurrentPosts
<1>3. Posted' = Posted \ {posting[w]}
  BY <1>1, <1>2 DEF Posted
<1>4. Busy' = Busy \ {w} /\ w \in Busy
  BY <1>1 DEF Busy
<1>5. NoConcurrentPosts'
  BY <1>1 DEF NoConcurrentPosts
<1>. QED  BY <1>3, <1>4, <1>5 DEF Posted

-----------------------------------------------------------------------------
(* Where deliveries are. *)

LEMMA InitJobs == Init => JobInv
<1>. SUFFICES ASSUME Init PROVE JobInv
  OBVIOUS
<1>1. JobTypes
  <2>1. attempt \in [Delivery -> 0 .. MaxAttempts]
    BY BoundsAssumption DEF Init
  <2>. QED  BY <2>1 DEF JobTypes, Init
<1>2. JobsPlaced
  <2>1. Queued = {} /\ QueuedOnce
    BY DEF Init, Queued, QueuedOnce
  <2>2. Posted = {} /\ NoConcurrentPosts
    BY DEF Init, Posted, NoConcurrentPosts
  <2>3. Opened = {} /\ backoff = {}
    BY DEF Init, Opened
  <2>. QED  BY <2>1, <2>2, <2>3 DEF JobsPlaced
<1>3. Counted
  BY BoundsAssumption DEF Counted, Init
<1>. QED  BY <1>1, <1>2, <1>3 DEF JobInv

LEMMA JobsKept ==
  ASSUME JobInv, UNCHANGED jobVars
  PROVE  JobInv'
<1>1. JobTypes'
  BY DEF JobInv, JobTypes, jobVars
<1>2. JobsPlaced'
  BY DEF JobInv, JobsPlaced, Queued, Posted, Opened, QueuedOnce, NoConcurrentPosts, jobVars
<1>3. Counted'
  BY DEF JobInv, Counted, jobVars
<1>. QED  BY <1>1, <1>2, <1>3 DEF JobInv

\* Counted follows from what a step does to the one delivery it is about.
LEMMA CountedStep ==
  ASSUME JobInv, NEW d \in Delivery,
         \A x \in Delivery : x # d =>
           posts'[x] = posts[x] /\ attempt'[x] = attempt[x] /\ outcome'[x] = outcome[x],
         posts'[d] <= MaxAttempts,
         attempt'[d] # 0,
         outcome'[d] = "given up" => posts'[d] = MaxAttempts
  PROVE  Counted'
<1>1. SUFFICES ASSUME NEW x \in Delivery
               PROVE  /\ posts'[x] <= MaxAttempts
                      /\ attempt'[x] = 0 => posts'[x] = 0 /\ outcome'[x] = "open"
                      /\ outcome'[x] = "given up" => posts'[x] = MaxAttempts
  BY DEF Counted
<1>2. CASE x = d
  BY <1>2
<1>3. CASE x # d
  BY <1>3 DEF JobInv, Counted
<1>. QED  BY <1>2, <1>3

\* Enqueue of a delivery that nothing else has.
LEMMA EnqueueJobs ==
  ASSUME JobTypes, QueuedOnce, NEW d \in Delivery, NEW held, Enqueue(d, held), d \notin Queued
  PROVE  /\ jobs' \in Seq(Delivery)
         /\ QueuedOnce'
         /\ outcome' \in [Delivery -> {"open", "delivered", "given up", "dropped"}]
         /\ \/ outcome' = outcome /\ Queued' = Queued \cup {d}
            \/ outcome' = [outcome EXCEPT ![d] = "dropped"] /\ Queued' = Queued
<1>1. jobs \in Seq(Delivery)
  BY DEF JobTypes
<1>2. CASE jobs' = Append(jobs, d) /\ outcome' = outcome
  BY <1>1, <1>2, JobSent, Sent DEF JobTypes
<1>3. CASE jobs' = jobs /\ outcome' = [outcome EXCEPT ![d] = "dropped"]
  BY <1>1, <1>3 DEF JobTypes, Queued, QueuedOnce
<1>. QED  BY <1>2, <1>3 DEF Enqueue

LEMMA MakeDeliveryJobs ==
  ASSUME EventInv, JobInv, Unmade, NEW ep \in Endpoint, MakeDelivery(ep)
  PROVE  JobInv'
<1>. DEFINE d == <<expanding, ep>>
<1>1. /\ ep \in targets
      /\ attempt' = [attempt EXCEPT ![d] = 1]
      /\ Enqueue(d, wg + 1)
      /\ posting' = posting /\ backoff' = backoff /\ posts' = posts
  BY DEF MakeDelivery
<1>2. d \in Delivery /\ attempt[d] = 0
  BY <1>1 DEF EventInv, EventsPlaced, EventTypes, Unmade, Delivery
<1>. HIDE DEF d
<1>3. posts[d] = 0 /\ outcome[d] = "open"
  BY <1>2 DEF JobInv, Counted
<1>4. d \notin Queued /\ d \notin Posted /\ d \notin backoff
  <2>1. d \notin Opened
    BY <1>2 DEF Opened
  <2>. QED  BY <2>1 DEF JobInv, JobsPlaced
<1>5. /\ jobs' \in Seq(Delivery)
      /\ QueuedOnce'
      /\ outcome' \in [Delivery -> {"open", "delivered", "given up", "dropped"}]
      /\ \/ outcome' = outcome /\ Queued' = Queued \cup {d}
         \/ outcome' = [outcome EXCEPT ![d] = "dropped"] /\ Queued' = Queued
  BY <1>1, <1>2, <1>4, EnqueueJobs DEF JobInv, JobsPlaced
<1>6. \A x \in Delivery : attempt'[x] = IF x = d THEN 1 ELSE attempt[x]
  BY <1>1, <1>2 DEF JobInv, JobTypes
<1>7. JobTypes'
  <2>1. 1 \in 0 .. MaxAttempts
    BY BoundsAssumption
  <2>2. attempt' \in [Delivery -> 0 .. MaxAttempts]
    BY <1>1, <2>1 DEF JobInv, JobTypes
  <2>. QED  BY <1>1, <1>5, <2>2 DEF JobInv, JobTypes
<1>8. JobsPlaced'
  <2>1. Posted' = Posted /\ (NoConcurrentPosts => NoConcurrentPosts')
    BY <1>1 DEF Posted, NoConcurrentPosts
  <2>2. Opened' = Queued' \cup Posted' \cup backoff'
    <3>1. CASE outcome' = outcome /\ Queued' = Queued \cup {d}
      <4>1. Opened' = Opened \cup {d}
        BY <1>2, <1>3, <1>6, <3>1 DEF Opened
      <4>. QED  BY <1>1, <2>1, <3>1, <4>1 DEF JobInv, JobsPlaced
    <3>2. CASE outcome' = [outcome EXCEPT ![d] = "dropped"] /\ Queued' = Queued
      <4>1. Opened' = Opened
        BY <1>2, <1>6, <3>2 DEF Opened, JobInv, JobTypes
      <4>. QED  BY <1>1, <2>1, <3>2, <4>1 DEF JobInv, JobsPlaced
    <3>. QED  BY <1>5, <3>1, <3>2
  <2>3. /\ \A x \in Queued' \cup backoff' : posts'[x] = attempt'[x] - 1
        /\ \A x \in Posted' : posts'[x] = attempt'[x]
    <3>1. Queued \cup backoff \cup Posted \subseteq Delivery
      BY DEF JobInv, JobsPlaced, Opened
    <3>2. posts'[d] = attempt'[d] - 1
      BY <1>1, <1>2, <1>3, <1>6
    <3>3. \A x \in Queued \cup backoff \cup Posted : x \in Delivery /\ x # d
      BY <1>4, <3>1
    <3>. QED  BY <1>1, <1>5, <1>6, <2>1, <3>2, <3>3 DEF JobInv, JobsPlaced
  <2>. QED  BY <1>1, <1>4, <1>5, <2>1, <2>2, <2>3 DEF JobInv, JobsPlaced
<1>9. Counted'
  <2>0. posts' = posts
    BY <1>1
  <2>1. posts'[d] <= MaxAttempts /\ attempt'[d] # 0
    BY <2>0, <1>2, <1>3, <1>6, BoundsAssumption
  <2>2. /\ outcome'[d] # "given up"
        /\ \A x \in Delivery : x # d => outcome'[x] = outcome[x]
    BY <1>2, <1>3, <1>5 DEF JobInv, JobTypes
  <2>3. \A x \in Delivery : x # d =>
          posts'[x] = posts[x] /\ attempt'[x] = attempt[x] /\ outcome'[x] = outcome[x]
    BY <1>6, <2>0, <2>2
  <2>. QED  BY <1>2, <2>1, <2>2, <2>3, CountedStep
<1>. QED  BY <1>7, <1>8, <1>9 DEF JobInv

LEMMA TakeJobJobs ==
  ASSUME JobInv, NEW w \in Worker, TakeJob(w)
  PROVE  JobInv'
<1>. DEFINE d == Head(jobs)
<1>1. /\ posting[w] = Idle /\ jobs # <<>>
      /\ posting' = [posting EXCEPT ![w] = d]
      /\ jobs' = Tail(jobs)
      /\ posts' = [posts EXCEPT ![d] = @ + 1]
      /\ backoff' = backoff /\ attempt' = attempt /\ outcome' = outcome
  BY DEF TakeJob
<1>2. /\ d \in Delivery /\ d \in Queued /\ Queued' = Queued \ {d} /\ QueuedOnce'
  BY <1>1, JobReceived DEF JobInv, JobTypes, JobsPlaced
<1>3. jobs' \in Seq(Delivery)
  BY <1>1, Received DEF JobInv, JobTypes
<1>. HIDE DEF d
<1>4. Posted' = Posted \cup {d} /\ NoConcurrentPosts'
  BY <1>1, <1>2, PostStarted DEF JobInv, JobTypes, JobsPlaced
<1>5. \A x \in Delivery : posts'[x] = IF x = d THEN posts[x] + 1 ELSE posts[x]
  BY <1>1, <1>2 DEF JobInv, JobTypes
<1>6. posts[d] = attempt[d] - 1 /\ attempt[d] \in 0 .. MaxAttempts /\ attempt[d] # 0
      /\ outcome[d] = "open"
  BY <1>2 DEF JobInv, JobsPlaced, JobTypes, Opened
<1>7. JobTypes'
  <2>1. posts' \in [Delivery -> Nat]
    <3>1. posts \in [Delivery -> Nat]
      BY DEF JobInv, JobTypes
    <3>. QED  BY <1>1, <1>2, <3>1
  <2>2. posting' \in [Worker -> Delivery \cup {Idle}]
    BY <1>1, <1>2 DEF JobInv, JobTypes
  <2>. QED  BY <1>1, <1>3, <2>1, <2>2 DEF JobInv, JobTypes
<1>8. JobsPlaced'
  <2>1. Opened' = Opened
    BY <1>1 DEF Opened
  <2>2. Opened' = Queued' \cup Posted' \cup backoff'
    BY <1>1, <1>2, <1>4, <2>1 DEF JobInv, JobsPlaced
  <2>3. /\ \A x \in Queued' \cup backoff' : posts'[x] = attempt'[x] - 1
        /\ \A x \in Posted' : posts'[x] = attempt'[x]
    <3>1. Queued \cup backoff \cup Posted \subseteq Delivery
      BY DEF JobInv, JobsPlaced, Opened
    <3>. QED  BY <1>1, <1>2, <1>4, <1>5, <1>6, <3>1 DEF JobInv, JobsPlaced
  <2>. QED  BY <1>1, <1>2, <1>4, <2>2, <2>3 DEF JobInv, JobsPlaced
<1>9. Counted'
  <2>1. posts'[d] = attempt[d] /\ attempt[d] <= MaxAttempts
    BY <1>2, <1>5, <1>6, BoundsAssumption
  <2>. QED  BY <1>1, <1>2, <1>5, <1>6, <2>1, CountedStep
<1>. QED  BY <1>7, <1>8, <1>9 DEF JobInv

\* A worker's delivery ends: it is open no more.
End(w, how) ==
  /\ how \in {"delivered", "given up"}
  /\ posting[w] # Idle
  /\ posting' = [posting EXCEPT ![w] = Idle]
  /\ outcome' = [outcome EXCEPT ![posting[w]] = how]
  /\ how = "given up" => attempt[posting[w]] >= MaxAttempts
  /\ UNCHANGED <<jobs, backoff, attempt, posts>>

LEMMA EndJobs ==
  ASSUME JobInv, NEW w \in Worker, NEW how, End(w, how)
  PROVE  JobInv'
<1>. DEFINE d == posting[w]
<1>1. /\ d \in Delivery /\ d \in Posted /\ Posted' = Posted \ {d} /\ NoConcurrentPosts'
  BY PostEnded DEF End, JobInv, JobTypes, JobsPlaced
<1>2. /\ jobs' = jobs /\ backoff' = backoff /\ attempt' = attempt /\ posts' = posts
      /\ outcome' = [outcome EXCEPT ![d] = how]
  BY DEF End
<1>3. /\ how \in {"delivered", "given up"}
      /\ how = "given up" => attempt[d] >= MaxAttempts
  BY DEF End
<1>4. JobTypes'
  <2>1. posting' \in [Worker -> Delivery \cup {Idle}]
    BY DEF End, JobInv, JobTypes
  <2>2. outcome' \in [Delivery -> {"open", "delivered", "given up", "dropped"}]
    BY <1>1, <1>2, <1>3 DEF JobInv, JobTypes
  <2>. QED  BY <1>2, <2>1, <2>2 DEF JobInv, JobTypes
<1>. HIDE DEF d
<1>5. \A x \in Delivery : outcome'[x] = IF x = d THEN how ELSE outcome[x]
  BY <1>1, <1>2 DEF JobInv, JobTypes
<1>6. posts[d] = attempt[d] /\ attempt[d] # 0 /\ attempt[d] \in 0 .. MaxAttempts
  BY <1>1 DEF JobInv, JobsPlaced, JobTypes, Opened
<1>7. JobsPlaced'
  <2>0. QueuedOnce
    BY DEF JobInv, JobsPlaced
  <2>1. Queued' = Queued /\ QueuedOnce'
    BY <1>2, <2>0 DEF Queued, QueuedOnce
  <2>2. Opened' = Opened \ {d}
    <3>1. how # "open"
      BY <1>3
    <3>. QED  BY <1>2, <1>5, <3>1 DEF Opened
  <2>. QED  BY <1>1, <1>2, <2>1, <2>2 DEF JobInv, JobsPlaced
<1>8. Counted'
  <2>1. posts[d] <= MaxAttempts
    BY <1>6, BoundsAssumption
  <2>2. attempt[d] >= MaxAttempts => posts[d] = MaxAttempts
    BY <1>6, BoundsAssumption
  <2>. QED  BY <1>1, <1>2, <1>3, <1>5, <1>6, <2>1, <2>2, CountedStep
<1>. QED  BY <1>4, <1>7, <1>8 DEF JobInv

LEMMA PostSucceedsJobs ==
  ASSUME JobInv, NEW w \in Worker, PostSucceeds(w)
  PROVE  JobInv'
<1>1. End(w, "delivered")
  BY DEF PostSucceeds, End
<1>. QED  BY <1>1, EndJobs

LEMMA PostFailsJobs ==
  ASSUME JobInv, NEW w \in Worker, PostFails(w)
  PROVE  JobInv'
<1>. DEFINE d == posting[w]
<1>1. CASE /\ attempt[d] >= MaxAttempts
           /\ outcome' = [outcome EXCEPT ![d] = "given up"]
           /\ UNCHANGED <<attempt, backoff>>
  <2>1. End(w, "given up")
    BY <1>1 DEF PostFails, End
  <2>. QED  BY <2>1, EndJobs
<1>2. CASE /\ attempt[d] < MaxAttempts
           /\ attempt' = [attempt EXCEPT ![d] = @ + 1]
           /\ backoff' = backoff \cup {d}
           /\ outcome' = outcome
  <2>1. /\ posting[w] # Idle
        /\ posting' = [posting EXCEPT ![w] = Idle]
        /\ jobs' = jobs /\ posts' = posts
    BY DEF PostFails
  <2>2. /\ d \in Delivery /\ d \in Posted /\ Posted' = Posted \ {d} /\ NoConcurrentPosts'
    BY <2>1, PostEnded DEF JobInv, JobTypes, JobsPlaced
  <2>3. posting' \in [Worker -> Delivery \cup {Idle}]
    BY <2>1 DEF JobInv, JobTypes
  <2>. HIDE DEF d
  <2>4. attempt[d] \in 0 .. MaxAttempts /\ attempt[d] # 0 /\ posts[d] = attempt[d]
    BY <2>2 DEF JobInv, JobsPlaced, JobTypes, Opened
  <2>5. attempt[d] + 1 \in 0 .. MaxAttempts
    BY <1>2, <2>4, BoundsAssumption
  <2>6. \A x \in Delivery : attempt'[x] = IF x = d THEN attempt[x] + 1 ELSE attempt[x]
    BY <1>2, <2>2 DEF JobInv, JobTypes
  <2>7. attempt' \in [Delivery -> 0 .. MaxAttempts]
    BY <1>2, <2>2, <2>5 DEF JobInv, JobTypes
  <2>8. JobTypes'
    BY <1>2, <2>1, <2>2, <2>3, <2>7 DEF JobInv, JobTypes
  <2>9. JobsPlaced'
    <3>1. Queued' = Queued /\ (QueuedOnce => QueuedOnce')
      BY <2>1 DEF Queued, QueuedOnce
    <3>2. \A x \in Delivery : attempt'[x] # 0 <=> attempt[x] # 0
      BY <2>4, <2>6
    <3>3. Opened' = Opened
      BY <1>2, <3>2 DEF Opened
    <3>4. Queued \cup backoff \cup Posted \subseteq Delivery
      BY DEF JobInv, JobsPlaced, Opened
    <3>5. /\ \A x \in Queued' \cup backoff' : posts'[x] = attempt'[x] - 1
          /\ \A x \in Posted' : posts'[x] = attempt'[x]
      BY <1>2, <2>1, <2>2, <2>4, <2>6, <3>1, <3>4 DEF JobInv, JobsPlaced
    <3>. QED  BY <1>2, <2>2, <3>1, <3>3, <3>5 DEF JobInv, JobsPlaced
  <2>10. Counted'
    <3>1. outcome[d] = "open"
      BY <2>2 DEF JobInv, JobsPlaced, Opened
    <3>2. posts[d] <= MaxAttempts /\ attempt'[d] # 0
      BY <2>2, <2>4, <2>6, BoundsAssumption
    <3>. QED  BY <1>2, <2>1, <2>2, <2>6, <3>1, <3>2, CountedStep
  <2>. QED  BY <2>8, <2>9, <2>10 DEF JobInv
<1>. QED  BY <1>1, <1>2 DEF PostFails

LEMMA RetryFiresJobs ==
  ASSUME JobInv, NEW d \in Delivery, RetryFires(d)
  PROVE  JobInv'
<1>1. /\ d \in backoff /\ backoff' = backoff \ {d}
      /\ Enqueue(d, wg)
      /\ posting' = posting /\ attempt' = attempt /\ posts' = posts
  BY DEF RetryFires
<1>2. d \notin Queued /\ d \notin Posted
  BY <1>1 DEF JobInv, JobsPlaced
<1>3. /\ jobs' \in Seq(Delivery)
      /\ QueuedOnce'
      /\ outcome' \in [Delivery -> {"open", "delivered", "given up", "dropped"}]
      /\ \/ outcome' = outcome /\ Queued' = Queued \cup {d}
         \/ outcome' = [outcome EXCEPT ![d] = "dropped"] /\ Queued' = Queued
  BY <1>1, <1>2, EnqueueJobs DEF JobInv, JobsPlaced
<1>4. JobTypes'
  BY <1>1, <1>3 DEF JobInv, JobTypes
<1>5. JobsPlaced'
  <2>1. Posted' = Posted /\ (NoConcurrentPosts => NoConcurrentPosts')
    BY <1>1 DEF Posted, NoConcurrentPosts
  <2>2. Opened' = Queued' \cup Posted' \cup backoff'
    <3>1. CASE outcome' = outcome /\ Queued' = Queued \cup {d}
      <4>1. Opened' = Opened
        BY <1>1, <3>1 DEF Opened
      <4>. QED  BY <1>1, <2>1, <3>1, <4>1 DEF JobInv, JobsPlaced
    <3>2. CASE outcome' = [outcome EXCEPT ![d] = "dropped"] /\ Queued' = Queued
      <4>1. Opened' = Opened \ {d}
        BY <1>1, <3>2 DEF Opened, JobInv, JobTypes
      <4>. QED  BY <1>1, <1>2, <2>1, <3>2, <4>1 DEF JobInv, JobsPlaced
    <3>. QED  BY <1>3, <3>1, <3>2
  <2>3. /\ \A x \in Queued' \cup backoff' : posts'[x] = attempt'[x] - 1
        /\ \A x \in Posted' : posts'[x] = attempt'[x]
    BY <1>1, <1>3, <2>1 DEF JobInv, JobsPlaced
  <2>. QED  BY <1>1, <1>2, <1>3, <2>1, <2>2, <2>3 DEF JobInv, JobsPlaced
<1>6. Counted'
  <2>1. attempt[d] # 0
    BY <1>1 DEF JobInv, JobsPlaced, Opened
  <2>. QED  BY <1>1, <1>3, <2>1 DEF Counted, JobInv, JobTypes
<1>. QED  BY <1>4, <1>5, <1>6 DEF JobInv

-----------------------------------------------------------------------------
(* The counter. Each step moves what it holds from one place to the next, or *)
(* releases it. *)

Held == IF expanding = Idle THEN 0 ELSE 1

LEMMA EventParts ==
  ASSUME EventTypes, Finite
  PROVE  /\ Cardinality(sending) \in Nat /\ Len(events) \in Nat /\ Held \in Nat
         /\ EventSlots = Cardinality(sending) + Len(events) + Held
         /\ EventSlots \in Nat
<1>1. Len(events) \in Nat
  BY Elements DEF EventTypes
<1>2. Cardinality(sending) \in Nat
  BY FS_CardinalityType DEF Finite
<1>. QED  BY <1>1, <1>2 DEF Held, EventSlots

LEMMA JobParts ==
  ASSUME JobTypes, Finite
  PROVE  /\ Len(jobs) \in Nat /\ Cardinality(Busy) \in Nat /\ Cardinality(backoff) \in Nat
         /\ JobSlots \in Nat
<1>1. Len(jobs) \in Nat
  BY Elements DEF JobTypes
<1>2. Cardinality(Busy) \in Nat /\ Cardinality(backoff) \in Nat
  BY FS_CardinalityType DEF Finite
<1>. QED  BY <1>1, <1>2 DEF JobSlots

LEMMA InitSlots == Init => Slots
<1>. SUFFICES ASSUME Init PROVE Slots
  OBVIOUS
<1>1. sending = {} /\ backoff = {} /\ Busy = {} /\ expanding = Idle /\ wg = 0
  BY DEF Init, Busy
<1>2. Len(events) = 0 /\ Len(jobs) = 0
  BY DEF Init
<1>3. IsFiniteSet({}) /\ Cardinality({}) = 0
  BY FS_EmptySet
<1>4. EventSlots = 0 /\ JobSlots = 0
  BY <1>1, <1>2, <1>3 DEF EventSlots, JobSlots
<1>. QED  BY <1>1, <1>3, <1>4 DEF Slots, Finite, SlotsMatch

\* A slot is released exactly when the channel does not grow.
LEMMA EnqueueSlots ==
  ASSUME JobTypes, NEW d \in Delivery, NEW held \in Int, Enqueue(d, held)
  PROVE  \/ Len(jobs') = Len(jobs) + 1 /\ wg' = held
         \/ Len(jobs') = Len(jobs) /\ wg' = held - 1
<1>1. jobs \in Seq(Delivery)
  BY DEF JobTypes
<1>2. CASE jobs' = Append(jobs, d) /\ wg' = held
  BY <1>1, <1>2, Sent
<1>3. CASE jobs' = jobs /\ wg' = held - 1
  BY <1>3
<1>. QED  BY <1>2, <1>3 DEF Enqueue

LEMMA SlotsStep ==
  ASSUME IInv, [Next]_vars
  PROVE  Slots'
<1>1. EventTypes /\ EventsPlaced /\ JobTypes /\ JobsPlaced /\ Finite
  BY DEF IInv, PlacesInv, EventInv, JobInv, Slots
<1>2. wg = EventSlots + JobSlots
  BY DEF IInv, Slots, SlotsMatch
<1>3. /\ Cardinality(sending) \in Nat /\ Len(events) \in Nat /\ Held \in Nat
      /\ EventSlots = Cardinality(sending) + Len(events) + Held
      /\ EventSlots \in Nat
  BY <1>1, EventParts
<1>4. /\ Len(jobs) \in Nat /\ Cardinality(Busy) \in Nat /\ Cardinality(backoff) \in Nat
      /\ JobSlots \in Nat
  BY <1>1, JobParts
<1>5. wg \in Int
  BY <1>2, <1>3, <1>4
\* What a step leaves alone keeps its slots.
<1>6. UNCHANGED <<sending, events, expanding>> => EventSlots' = EventSlots
  BY DEF EventSlots
<1>7. UNCHANGED <<jobs, posting, backoff>> => JobSlots' = JobSlots
  BY DEF JobSlots, Busy
<1>8. UNCHANGED posting => Busy' = Busy
  BY DEF Busy
<1>9. ASSUME NEW e \in Event, DispatchAdd(e)
      PROVE  Slots'
  <2>1. /\ e \notin dispatched /\ sending' = sending \cup {e} /\ wg' = wg + 1
        /\ events' = events /\ expanding' = expanding
        /\ jobs' = jobs /\ posting' = posting /\ backoff' = backoff
    BY <1>9 DEF DispatchAdd, expanderVars, jobVars
  <2>2. e \notin sending
    BY <1>1, <2>1 DEF EventsPlaced
  <2>3. IsFiniteSet(sending') /\ Cardinality(sending') = Cardinality(sending) + 1
    BY <1>1, <2>1, <2>2, FS_AddElement DEF Finite
  <2>4. EventSlots' = EventSlots + 1
    BY <1>3, <2>1, <2>3 DEF EventSlots, Held
  <2>5. JobSlots' = JobSlots
    BY <1>7, <2>1
  <2>6. Finite'
    BY <1>1, <1>8, <2>1, <2>3 DEF Finite
  <2>7. wg' = EventSlots' + JobSlots'
    BY <1>2, <1>3, <1>4, <2>1, <2>4, <2>5
  <2>. QED  BY <2>6, <2>7 DEF Slots, SlotsMatch
<1>10. ASSUME NEW e \in Event, DispatchSend(e)
       PROVE  Slots'
  <2>1. /\ e \in sending /\ sending' = sending \ {e}
        /\ expanding' = expanding
        /\ jobs' = jobs /\ posting' = posting /\ backoff' = backoff
    BY <1>10 DEF DispatchSend, jobVars
  <2>2. IsFiniteSet(sending') /\ Cardinality(sending') = Cardinality(sending) - 1
    BY <1>1, <2>1, FS_RemoveElement DEF Finite
  <2>3. CASE events' = Append(events, e) /\ wg' = wg
    <3>1. Len(events') = Len(events) + 1
      BY <1>1, <2>3, Sent DEF EventTypes
    <3>2. EventSlots' = EventSlots
      BY <1>3, <2>1, <2>2, <3>1 DEF EventSlots, Held
    <3>. QED  BY <1>2, <1>7, <1>1, <1>8, <2>1, <2>2, <2>3, <3>2 DEF Slots, SlotsMatch, Finite
  <2>4. CASE events' = events /\ wg' = wg - 1
    <3>1. EventSlots' = EventSlots - 1
      BY <1>3, <2>1, <2>2, <2>4 DEF EventSlots, Held
    <3>2. JobSlots' = JobSlots
      BY <1>7, <2>1
    <3>3. wg' = EventSlots' + JobSlots'
      BY <1>2, <1>3, <1>4, <2>4, <3>1, <3>2
    <3>. QED  BY <1>1, <1>8, <2>1, <2>2, <3>3 DEF Slots, SlotsMatch, Finite
  <2>. QED  BY <1>10, <2>3, <2>4 DEF DispatchSend
<1>11. ASSUME NEW S, Expand(S)
       PROVE  Slots'
  <2>1. /\ expanding = Idle /\ events # <<>>
        /\ expanding' = Head(events) /\ events' = Tail(events)
        /\ sending' = sending /\ wg' = wg
        /\ jobs' = jobs /\ posting' = posting /\ backoff' = backoff
    BY <1>11 DEF Expand, senderVars, jobVars
  <2>2. Head(events) \in Event /\ Len(events') = Len(events) - 1
    BY <1>1, <2>1, Received DEF EventTypes
  <2>3. expanding' # Idle
    BY <2>1, <2>2, IdleAssumption
  <2>4. EventSlots' = EventSlots
    BY <1>3, <2>1, <2>2, <2>3 DEF EventSlots, Held
  <2>. QED  BY <1>1, <1>2, <1>7, <1>8, <2>1, <2>4 DEF Slots, SlotsMatch, Finite
<1>12. ASSUME NEW ep \in Endpoint, MakeDelivery(ep)
       PROVE  Slots'
  <2>1. /\ ep \in targets /\ Enqueue(<<expanding, ep>>, wg + 1)
        /\ sending' = sending /\ events' = events /\ expanding' = expanding
        /\ posting' = posting /\ backoff' = backoff
    BY <1>12 DEF MakeDelivery, senderVars
  <2>2. Busy' = Busy /\ EventSlots' = EventSlots
    BY <1>6, <1>8, <2>1
  <2>3. <<expanding, ep>> \in Delivery /\ wg + 1 \in Int
    BY <1>1, <1>5, <2>1 DEF EventTypes, EventsPlaced, Delivery
  <2>4. \/ Len(jobs') = Len(jobs) + 1 /\ wg' = wg + 1
        \/ Len(jobs') = Len(jobs) /\ wg' = (wg + 1) - 1
    BY <1>1, <2>1, <2>3, EnqueueSlots
  <2>5. wg' = EventSlots' + JobSlots'
    <3>1. CASE Len(jobs') = Len(jobs) + 1 /\ wg' = wg + 1
      <4>1. JobSlots' = JobSlots + 1
        BY <1>4, <2>1, <2>2, <3>1 DEF JobSlots
      <4>. QED  BY <1>2, <1>3, <1>4, <2>2, <3>1, <4>1
    <3>2. CASE Len(jobs') = Len(jobs) /\ wg' = (wg + 1) - 1
      <4>1. JobSlots' = JobSlots
        BY <2>1, <2>2, <3>2 DEF JobSlots
      <4>2. wg' = wg
        BY <1>5, <3>2
      <4>. QED  BY <1>2, <2>2, <4>1, <4>2
    <3>. QED  BY <2>4, <3>1, <3>2
  <2>. QED  BY <1>1, <2>1, <2>2, <2>5 DEF Slots, SlotsMatch, Finite
<1>13. ASSUME FinishExpand
       PROVE  Slots'
  <2>1. /\ expanding # Idle /\ expanding' = Idle /\ wg' = wg - 1
        /\ sending' = sending /\ events' = events
        /\ jobs' = jobs /\ posting' = posting /\ backoff' = backoff
    BY <1>13 DEF FinishExpand, senderVars, jobVars
  <2>2. EventSlots' = EventSlots - 1
    BY <1>3, <2>1 DEF EventSlots, Held
  <2>3. JobSlots' = JobSlots
    BY <1>7, <2>1
  <2>4. wg' = EventSlots' + JobSlots'
    BY <1>2, <1>3, <1>4, <2>1, <2>2, <2>3
  <2>. QED  BY <1>1, <1>8, <2>1, <2>4 DEF Slots, SlotsMatch, Finite
<1>14. ASSUME NEW w \in Worker, TakeJob(w)
       PROVE  Slots'
  <2>1. /\ posting[w] = Idle /\ jobs # <<>>
        /\ posting' = [posting EXCEPT ![w] = Head(jobs)]
        /\ jobs' = Tail(jobs)
        /\ sending' = sending /\ events' = events /\ expanding' = expanding
        /\ backoff' = backoff /\ wg' = wg
    BY <1>14 DEF TakeJob, senderVars, expanderVars
  <2>2. Head(jobs) \in Delivery /\ Len(jobs') = Len(jobs) - 1
    BY <1>1, <2>1, Received DEF JobTypes
  <2>3. Busy' = Busy \cup {w} /\ w \notin Busy
    BY <1>1, <2>1, <2>2, PostStarted DEF JobTypes
  <2>4. IsFiniteSet(Busy') /\ Cardinality(Busy') = Cardinality(Busy) + 1
    BY <1>1, <2>3, FS_AddElement DEF Finite
  <2>5. JobSlots' = JobSlots
    BY <1>4, <2>1, <2>2, <2>4 DEF JobSlots
  <2>. QED  BY <1>1, <1>2, <1>6, <2>1, <2>4, <2>5 DEF Slots, SlotsMatch, Finite
<1>15. ASSUME NEW w \in Worker, PostSucceeds(w) \/ PostFails(w)
       PROVE  Slots'
  <2>1. /\ posting[w] # Idle
        /\ posting' = [posting EXCEPT ![w] = Idle]
        /\ jobs' = jobs
        /\ sending' = sending /\ events' = events /\ expanding' = expanding
    BY <1>15 DEF PostSucceeds, PostFails, senderVars, expanderVars
  <2>2. /\ Busy' = Busy \ {w} /\ w \in Busy
        /\ posting[w] \in Posted
    BY <1>1, <2>1, PostEnded DEF JobTypes, JobsPlaced
  <2>3. IsFiniteSet(Busy') /\ Cardinality(Busy') = Cardinality(Busy) - 1
    BY <1>1, <2>2, FS_RemoveElement DEF Finite
  <2>4. EventSlots' = EventSlots
    BY <1>6, <2>1
  <2>5. CASE backoff' = backoff /\ wg' = wg - 1
    <3>1. JobSlots' = JobSlots - 1
      BY <1>4, <2>1, <2>3, <2>5 DEF JobSlots
    <3>2. wg' = EventSlots' + JobSlots'
      BY <1>2, <1>3, <1>4, <2>4, <2>5, <3>1
    <3>. QED  BY <1>1, <2>1, <2>3, <2>5, <3>2 DEF Slots, SlotsMatch, Finite
  <2>6. CASE backoff' = backoff \cup {posting[w]} /\ wg' = wg
    <3>1. posting[w] \notin backoff
      BY <1>1, <2>2 DEF JobsPlaced
    <3>2. IsFiniteSet(backoff') /\ Cardinality(backoff') = Cardinality(backoff) + 1
      BY <1>1, <2>6, <3>1, FS_AddElement DEF Finite
    <3>3. JobSlots' = JobSlots
      BY <1>4, <2>1, <2>3, <3>2 DEF JobSlots
    <3>. QED  BY <1>1, <1>2, <2>1, <2>3, <2>4, <2>6, <3>2, <3>3 DEF Slots, SlotsMatch, Finite
  <2>. QED  BY <1>15, <2>5, <2>6 DEF PostSucceeds, PostFails
<1>16. ASSUME NEW d \in Delivery, RetryFires(d)
       PROVE  Slots'
  <2>1. /\ d \in backoff /\ backoff' = backoff \ {d} /\ Enqueue(d, wg)
        /\ sending' = sending /\ events' = events /\ expanding' = expanding
        /\ posting' = posting
    BY <1>16 DEF RetryFires, senderVars, expanderVars
  <2>2. Busy' = Busy /\ EventSlots' = EventSlots
    BY <1>6, <1>8, <2>1
  <2>3. IsFiniteSet(backoff') /\ Cardinality(backoff') = Cardinality(backoff) - 1
    BY <1>1, <2>1, FS_RemoveElement DEF Finite
  <2>4. \/ Len(jobs') = Len(jobs) + 1 /\ wg' = wg
        \/ Len(jobs') = Len(jobs) /\ wg' = wg - 1
    BY <1>1, <1>5, <2>1, EnqueueSlots
  <2>5. wg' = EventSlots' + JobSlots'
    <3>1. CASE Len(jobs') = Len(jobs) + 1 /\ wg' = wg
      <4>1. JobSlots' = JobSlots
        BY <1>4, <2>2, <2>3, <3>1 DEF JobSlots
      <4>. QED  BY <1>2, <2>2, <3>1, <4>1
    <3>2. CASE Len(jobs') = Len(jobs) /\ wg' = wg - 1
      <4>1. JobSlots' = JobSlots - 1
        BY <1>4, <2>2, <2>3, <3>2 DEF JobSlots
      <4>. QED  BY <1>2, <1>3, <1>4, <2>2, <3>2, <4>1
    <3>. QED  BY <2>4, <3>1, <3>2
  <2>. QED  BY <1>1, <2>1, <2>2, <2>3, <2>5 DEF Slots, SlotsMatch, Finite
<1>17. ASSUME UNCHANGED <<senderVars, expanderVars, jobVars, wg>>
       PROVE  Slots'
  <2>1. /\ sending' = sending /\ events' = events /\ expanding' = expanding
        /\ jobs' = jobs /\ posting' = posting /\ backoff' = backoff /\ wg' = wg
    BY <1>17 DEF senderVars, expanderVars, jobVars
  <2>. QED  BY <1>1, <1>2, <1>6, <1>7, <1>8, <2>1 DEF Slots, SlotsMatch, Finite
<1>. QED
  BY <1>9, <1>10, <1>11, <1>12, <1>13, <1>14, <1>15, <1>16, <1>17
  DEF Next, Expander, WorkerStep, WaitCalled, WaitReturns, vars

-----------------------------------------------------------------------------
(* The invariant is inductive. *)

LEMMA PlacesStep ==
  ASSUME PlacesInv, [Next]_vars
  PROVE  PlacesInv'
<1>. USE DEF PlacesInv
<1>1. (waiting \in BOOLEAN)'
  BY DEF Next, DispatchAdd, DispatchSend, Expander, Expand, MakeDelivery, FinishExpand,
         WorkerStep, TakeJob, PostSucceeds, PostFails, RetryFires,
         WaitCalled, WaitReturns, vars
<1>2. ASSUME EventsSame, UNCHANGED attempt
      PROVE  Unmade'
  BY <1>2 DEF Unmade, EventsSame
<1>3. ASSUME NEW e \in Event, DispatchAdd(e) \/ DispatchSend(e)
      PROVE  PlacesInv'
  <2>1. EventInv' /\ Unmade'
    BY <1>3, DispatchAddEvents, DispatchSendEvents
  <2>2. UNCHANGED jobVars
    BY <1>3 DEF DispatchAdd, DispatchSend
  <2>. QED  BY <1>1, <2>1, <2>2, JobsKept
<1>4. ASSUME NEW S \in SUBSET Endpoint, Expand(S)
      PROVE  PlacesInv'
  BY <1>1, <1>4, ExpandEvents, JobsKept DEF Expand
<1>5. ASSUME NEW ep \in Endpoint, MakeDelivery(ep)
      PROVE  PlacesInv'
  BY <1>1, <1>5, MakeDeliveryEvents, MakeDeliveryJobs
<1>6. ASSUME FinishExpand
      PROVE  PlacesInv'
  BY <1>1, <1>6, FinishExpandEvents, JobsKept DEF FinishExpand
<1>7. ASSUME NEW w \in Worker, TakeJob(w) \/ PostSucceeds(w)
      PROVE  PlacesInv'
  <2>1. JobInv'
    BY <1>7, TakeJobJobs, PostSucceedsJobs
  <2>2. EventsSame /\ UNCHANGED attempt
    BY <1>7 DEF TakeJob, PostSucceeds, EventsSame, senderVars, expanderVars
  <2>. QED  BY <1>1, <1>2, <2>1, <2>2, EventsKept
<1>8. ASSUME NEW w \in Worker, PostFails(w)
      PROVE  PlacesInv'
  <2>1. JobInv'
    BY <1>8, PostFailsJobs
  <2>2. EventsSame
    BY <1>8 DEF PostFails, EventsSame, senderVars, expanderVars
  <2>3. posting[w] \in Delivery /\ attempt[posting[w]] # 0
    BY <1>8 DEF PostFails, JobInv, JobTypes, JobsPlaced, Posted, Opened
  <2>4. \A d \in Delivery : attempt'[d] # 0 => attempt[d] # 0
    BY <1>8, <2>3 DEF PostFails, JobInv, JobTypes
  <2>5. Unmade'
    BY <2>2, <2>4 DEF Unmade, EventsSame, Delivery
  <2>. QED  BY <1>1, <2>1, <2>2, <2>5, EventsKept
<1>9. ASSUME NEW d \in Delivery, RetryFires(d)
      PROVE  PlacesInv'
  <2>1. JobInv'
    BY <1>9, RetryFiresJobs
  <2>2. EventsSame /\ UNCHANGED attempt
    BY <1>9 DEF RetryFires, EventsSame, senderVars, expanderVars
  <2>. QED  BY <1>1, <1>2, <2>1, <2>2, EventsKept
<1>10. ASSUME UNCHANGED <<senderVars, expanderVars, jobVars, wg>>
       PROVE  PlacesInv'
  <2>1. EventsSame /\ UNCHANGED attempt
    BY <1>10 DEF EventsSame, senderVars, expanderVars, jobVars
  <2>. QED  BY <1>1, <1>2, <1>10, <2>1, EventsKept, JobsKept
<1>. QED
  BY <1>3, <1>4, <1>5, <1>6, <1>7, <1>8, <1>9, <1>10
  DEF Next, Expander, WorkerStep, WaitCalled, WaitReturns, vars

LEMMA Inductive == Spec => []IInv
<1>1. Init => IInv
  <2>1. Init => waiting \in BOOLEAN
    BY DEF Init
  <2>. QED  BY <2>1, InitEvents, InitJobs, InitSlots DEF IInv, PlacesInv
<1>2. IInv /\ [Next]_vars => IInv'
  BY PlacesStep, SlotsStep DEF IInv
<1>. QED  BY <1>1, <1>2, PTL DEF Spec

(***************************************************************************)
(* The variables of the queue keep their types.                             *)
(***************************************************************************)
THEOREM QueueTypeCorrect == Spec => []TypeOK
<1>1. IInv => wg \in Int
  <2>. SUFFICES ASSUME IInv PROVE wg \in Int
    OBVIOUS
  <2>1. EventSlots \in Nat /\ JobSlots \in Nat
    BY EventParts, JobParts DEF IInv, PlacesInv, EventInv, JobInv, Slots
  <2>. QED  BY <2>1 DEF IInv, Slots, SlotsMatch
<1>2. IInv => TypeOK
  BY <1>1, Types DEF IInv, PlacesInv, EventInv, JobInv
<1>. QED  BY <1>2, Inductive, PTL

(***************************************************************************)
(* The WaitGroup counts what is on its way, whatever is dropped, retried or *)
(* given up, and in whatever order the goroutines run.                      *)
(***************************************************************************)
THEOREM CounterIsRight == Spec => []SlotsMatch
<1>1. IInv => SlotsMatch
  BY DEF IInv, Slots
<1>. QED  BY <1>1, Inductive, PTL

(***************************************************************************)
(* No delivery is posted more than MaxAttempts times, and one is given up   *)
(* only after exactly that many.                                            *)
(***************************************************************************)
THEOREM AttemptsAreBounded == Spec => []AttemptsBounded
<1>1. IInv => AttemptsBounded
  BY DEF IInv, PlacesInv, JobInv, Counted, AttemptsBounded
<1>. QED  BY <1>1, Inductive, PTL

(***************************************************************************)
(* Two workers never post one delivery at the same time.                    *)
(***************************************************************************)
THEOREM PostsAreExclusive == Spec => []NoConcurrentPosts
<1>1. IInv => NoConcurrentPosts
  BY DEF IInv, PlacesInv, JobInv, JobsPlaced
<1>. QED  BY <1>1, Inductive, PTL

(***************************************************************************)
(* When Wait returns, every event is expanded and every delivery made has   *)
(* come to its end.                                                         *)
(***************************************************************************)
THEOREM WaitMeansDone == Spec => WaitReturnsWhenDone
<1>1. IInv /\ wg = 0 => Terminated
  <2>. SUFFICES ASSUME IInv, wg = 0 PROVE Terminated
    OBVIOUS
  <2>1. EventInv /\ JobInv /\ Finite /\ EventSlots + JobSlots = 0
    BY DEF IInv, PlacesInv, Slots, SlotsMatch
  <2>2. /\ Cardinality(sending) \in Nat /\ Len(events) \in Nat /\ Held \in Nat
        /\ EventSlots = Cardinality(sending) + Len(events) + Held
        /\ EventSlots \in Nat
        /\ Len(jobs) \in Nat /\ Cardinality(Busy) \in Nat /\ Cardinality(backoff) \in Nat
        /\ JobSlots \in Nat
    BY <2>1, EventParts, JobParts DEF EventInv, JobInv
  <2>3. /\ Cardinality(sending) = 0 /\ Len(events) = 0 /\ Held = 0
        /\ Len(jobs) = 0 /\ Cardinality(Busy) = 0 /\ Cardinality(backoff) = 0
    <3>1. EventSlots = 0 /\ JobSlots = 0
      BY <2>1, <2>2
    <3>. QED  BY <2>2, <3>1 DEF JobSlots
  <2>4. sending = {} /\ Busy = {} /\ backoff = {}
    BY <2>1, <2>3, FS_EmptySet DEF Finite
  <2>5. events = <<>> /\ Queued = {}
    BY <2>1, <2>3, EmptySeq DEF EventInv, EventTypes, Queued
  <2>6. expanding = Idle
    BY <2>3 DEF Held
  <2>7. Posted = {}
    BY <2>4 DEF Busy, Posted
  <2>8. Opened = {}
    BY <2>1, <2>4, <2>5, <2>7 DEF JobInv, JobsPlaced
  <2>9. \A d \in Delivery : attempt[d] > 0 => outcome[d] # "open"
    <3>1. attempt \in [Delivery -> 0 .. MaxAttempts]
      BY <2>1 DEF JobInv, JobTypes
    <3>2. \A n \in 0 .. MaxAttempts : n > 0 => n # 0
      BY BoundsAssumption
    <3>. QED  BY <2>8, <3>1, <3>2 DEF Opened
  <2>. QED  BY <2>4, <2>5, <2>6, <2>9 DEF Terminated
<1>2. IInv /\ [Next]_vars => [WaitReturns => Terminated]_vars
  BY <1>1 DEF WaitReturns
<1>. QED  BY <1>2, Inductive, PTL DEF Spec, WaitReturnsWhenDone

(***************************************************************************)
(* A delivery that has ended is never posted again and its outcome stands.  *)
(***************************************************************************)
THEOREM EndIsFinal == Spec => EndedStaysEnded
<1>. DEFINE Kept == \A d \in Delivery :
       outcome[d] # "open" => posts'[d] = posts[d] /\ outcome'[d] = outcome[d]
<1>1. ASSUME IInv, [Next]_vars
      PROVE  Kept
  <2>1. /\ JobTypes /\ JobsPlaced /\ Counted /\ EventTypes /\ EventsPlaced /\ Unmade
        /\ Opened = Queued \cup Posted \cup backoff
    BY <1>1 DEF IInv, PlacesInv, EventInv, JobInv, JobsPlaced
  <2>2. ASSUME NEW ep \in Endpoint, MakeDelivery(ep)
        PROVE  Kept
    <3>1. attempt[<<expanding, ep>>] = 0 /\ <<expanding, ep>> \in Delivery
      BY <2>1, <2>2 DEF MakeDelivery, EventTypes, EventsPlaced, Unmade, Delivery
    <3>2. outcome[<<expanding, ep>>] = "open"
      BY <2>1, <3>1 DEF Counted
    <3>. QED  BY <2>1, <2>2, <3>1, <3>2 DEF MakeDelivery, Enqueue, JobTypes
  <2>3. ASSUME NEW w \in Worker, TakeJob(w)
        PROVE  Kept
    <3>1. Head(jobs) \in Delivery /\ Head(jobs) \in Opened
      BY <2>1, <2>3, JobReceived DEF TakeJob, JobTypes, JobsPlaced
    <3>. QED  BY <2>1, <2>3, <3>1 DEF TakeJob, JobTypes, Opened
  <2>4. ASSUME NEW w \in Worker, PostSucceeds(w) \/ PostFails(w)
        PROVE  Kept
    <3>1. posting[w] \in Delivery /\ posting[w] \in Opened
      BY <2>1, <2>4 DEF PostSucceeds, PostFails, JobTypes, Posted
    <3>. QED  BY <2>1, <2>4, <3>1 DEF PostSucceeds, PostFails, JobTypes, Opened
  <2>5. ASSUME NEW d \in Delivery, RetryFires(d)
        PROVE  Kept
    <3>1. d \in Opened
      BY <2>1, <2>5 DEF RetryFires
    <3>. QED  BY <2>1, <2>5, <3>1 DEF RetryFires, Enqueue, JobTypes, Opened
  <2>6. ASSUME UNCHANGED jobVars
        PROVE  Kept
    BY <2>6 DEF jobVars
  <2>. QED
    BY <1>1, <2>2, <2>3, <2>4, <2>5, <2>6
    DEF Next, DispatchAdd, DispatchSend, Expander, Expand, FinishExpand, WorkerStep,
        WaitCalled, WaitReturns, vars
<1>2. IInv /\ [Next]_vars => [Kept]_vars
  BY <1>1
<1>. QED  BY <1>2, Inductive, PTL DEF Spec, EndedStaysEnded

(***************************************************************************)
(* No delivery is posted twice at once or more often than MaxAttempts, for  *)
(* any number of events, endpoints and workers.                             *)
(***************************************************************************)
THEOREM DeliveriesTakeTurns == Spec => []DeliveriesInTurn
<1>1. TypeOK /\ AttemptsBounded /\ NoConcurrentPosts => DeliveriesInTurn
  BY DEF DeliveriesInTurn
<1>. QED  BY <1>1, QueueTypeCorrect, AttemptsAreBounded, PostsAreExclusive, PTL

(***************************************************************************)
(* The WaitGroup counts what is on its way, exactly, and so Wait never      *)
(* returns early: for any capacities, and any interleaving of senders, the  *)
(* expander, workers and timers.                                            *)
(***************************************************************************)
THEOREM WaitStaysExact == Spec => WaitIsExact
<1>1. SlotsMatch' /\ [WaitReturns => Terminated]_vars
        => [SlotsMatch' /\ (WaitReturns => Terminated)]_vars
  OBVIOUS
<1>. QED  BY <1>1, CounterIsRight, WaitMeansDone, PTL DEF WaitIsExact, WaitReturnsWhenDone
=============================================================================
