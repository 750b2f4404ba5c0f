---------------------------- MODULE WebhookQueue ----------------------------
(***************************************************************************)
(* The outbound webhook queue (internal/webhook/dispatcher.go): callers of  *)
(* Dispatch, the expander goroutine, the delivery workers and the retry     *)
(* timers, which share two bounded channels and a WaitGroup.                *)
(*                                                                          *)
(* Nothing blocks on a full channel: the event or the delivery is dropped   *)
(* and gives its slot of the WaitGroup back. Wait, which the shutdown of    *)
(* main.go and the tests rely on, is right only as long as the counter wg   *)
(* counts what is still on its way, through every one of those paths.       *)
(*                                                                          *)
(* A delivery is one event on its way to one endpoint: the deliveryJob that *)
(* expand allocates. Its attempt field is attempt[d]. Backoff delays are    *)
(* left open: a timer fires at any time after it is set.                    *)
(***************************************************************************)
EXTENDS Integers, Sequences, FiniteSets

CONSTANTS
  Event,        \* events, each dispatched at most once
  Endpoint,     \* webhook endpoints
  Matching,     \* the endpoints whose filter matches an event
  Healthy,      \* endpoints that answer 2xx to every post
  Worker,       \* delivery workers
  QueueSize,    \* capacity of each channel
  MaxAttempts,  \* attempts per delivery
  Idle          \* a goroutine that waits on its channel

ASSUME BoundsAssumption ==
  /\ QueueSize \in Nat \ {0}
  /\ MaxAttempts \in Nat \ {0}
ASSUME MatchingAssumption == Matching \in [Event -> SUBSET Endpoint]
ASSUME IdleAssumption == Idle \notin Event \cup (Event \X Endpoint)

Delivery == Event \X Endpoint

VARIABLES
  sending,    \* events between wg.Add and the send, in their caller's Dispatch
  events,     \* the events channel
  expanding,  \* the event the expander works on, or Idle
  targets,    \* endpoints the expander still has to make a delivery for
  jobs,       \* the jobs channel
  posting,    \* the delivery each worker posts, or Idle
  backoff,    \* deliveries held by a retry timer
  attempt,    \* deliveryJob.attempt, 0 before expand allocates the job
  wg,         \* the WaitGroup's counter
  waiting,    \* a goroutine is blocked in Wait
  \* History, read by the properties only:
  dispatched, \* events given to Dispatch
  posts,      \* attempts made on each delivery
  outcome     \* how each delivery ended: "open" while it has not

senderVars == <<sending, dispatched>>
expanderVars == <<events, expanding, targets>>
jobVars == <<jobs, posting, backoff, attempt, posts, outcome>>
vars == <<senderVars, expanderVars, jobVars, wg, waiting>>

Init ==
  /\ sending = {} /\ dispatched = {}
  /\ events = <<>> /\ expanding = Idle /\ targets = {}
  /\ jobs = <<>>
  /\ posting = [w \in Worker |-> Idle]
  /\ backoff = {}
  /\ attempt = [d \in Delivery |-> 0]
  /\ wg = 0
  /\ waiting = FALSE
  /\ posts = [d \in Delivery |-> 0]
  /\ outcome = [d \in Delivery |-> "open"]

-----------------------------------------------------------------------------
(* Dispatch: wg.Add(1), then a send that never blocks. *)

DispatchAdd(e) ==
  /\ e \notin dispatched
  /\ dispatched' = dispatched \cup {e}
  /\ sending' = sending \cup {e}
  /\ wg' = wg + 1
  /\ UNCHANGED <<expanderVars, jobVars, waiting>>

DispatchSend(e) ==
  /\ e \in sending
  /\ sending' = sending \ {e}
  /\ \/ Len(events) < QueueSize /\ events' = Append(events, e) /\ wg' = wg
     \/ Len(events) = QueueSize /\ events' = events /\ wg' = wg - 1
  /\ UNCHANGED <<dispatched, expanding, targets, jobVars, waiting>>

-----------------------------------------------------------------------------
(* The expander. *)

\* Takes an event and lists the endpoints. S is what the list, the filters and
\* the id and body of each delivery leave: a failed list leaves nothing, an
\* endpoint that is disabled or has a failing id or body is skipped, and so
\* are those after a panic.
Expand(S) ==
  /\ expanding = Idle
  /\ events # <<>>
  /\ expanding' = Head(events)
  /\ events' = Tail(events)
  /\ S \subseteq Matching[Head(events)]
  /\ targets' = S
  /\ UNCHANGED <<senderVars, jobVars, wg, waiting>>

\* enqueue: sends delivery d to the jobs channel, or drops it and gives its
\* slot back. held is the counter with d's slot in it.
Enqueue(d, held) ==
  \/ /\ Len(jobs) < QueueSize
     /\ jobs' = Append(jobs, d)
     /\ wg' = held
     /\ UNCHANGED outcome
  \/ /\ Len(jobs) = QueueSize
     /\ wg' = held - 1
     /\ outcome' = [outcome EXCEPT ![d] = "dropped"]
     /\ UNCHANGED jobs

\* Faulty: the delivery takes no slot of its own.
MakeDeliveryUncounted(ep) ==
  /\ ep \in targets
  /\ targets' = targets \ {ep}
  /\ attempt' = [attempt EXCEPT ![<<expanding, ep>>] = 1]
  /\ Enqueue(<<expanding, ep>>, wg)
  /\ UNCHANGED <<senderVars, events, expanding, posting, backoff, posts, waiting>>

\* wg.Add(1) and enqueue for one endpoint.
MakeDelivery(ep) ==
  /\ ep \in targets
  /\ targets' = targets \ {ep}
  /\ attempt' = [attempt EXCEPT ![<<expanding, ep>>] = 1]
  /\ Enqueue(<<expanding, ep>>, wg + 1)
  /\ UNCHANGED <<senderVars, events, expanding, posting, backoff, posts, waiting>>

\* Faulty: the event's own slot is never released.
FinishExpandLeaks ==
  /\ expanding # Idle
  /\ targets = {}
  /\ expanding' = Idle
  /\ UNCHANGED <<senderVars, events, targets, jobVars, wg, waiting>>

\* The event's own slot is released last.
FinishExpand ==
  /\ expanding # Idle
  /\ targets = {}
  /\ expanding' = Idle
  /\ wg' = wg - 1
  /\ UNCHANGED <<senderVars, events, targets, jobVars, waiting>>

-----------------------------------------------------------------------------
(* The workers: one HTTP attempt per job taken from the channel. *)

TakeJob(w) ==
  /\ posting[w] = Idle
  /\ jobs # <<>>
  /\ posting' = [posting EXCEPT ![w] = Head(jobs)]
  /\ jobs' = Tail(jobs)
  /\ posts' = [posts EXCEPT ![Head(jobs)] = @ + 1]
  /\ UNCHANGED <<senderVars, expanderVars, backoff, attempt, outcome, wg, waiting>>

\* Faulty: a success is retried as well.
PostSucceedsRetries(w) ==
  /\ posting[w] # Idle
  /\ posting' = [posting EXCEPT ![w] = Idle]
  /\ outcome' = [outcome EXCEPT ![posting[w]] = "delivered"]
  /\ backoff' = backoff \cup {posting[w]}
  /\ UNCHANGED <<senderVars, expanderVars, jobs, attempt, posts, wg, waiting>>

PostSucceeds(w) ==
  /\ posting[w] # Idle
  /\ posting' = [posting EXCEPT ![w] = Idle]
  /\ outcome' = [outcome EXCEPT ![posting[w]] = "delivered"]
  /\ wg' = wg - 1
  /\ UNCHANGED <<senderVars, expanderVars, jobs, backoff, attempt, posts, waiting>>

\* Faulty: a 2xx answer can count as a failure.
PostFailsOnSuccess(w) ==
  /\ posting[w] # Idle
  /\ posting' = [posting EXCEPT ![w] = Idle]
  /\ \/ /\ attempt[posting[w]] >= MaxAttempts
        /\ outcome' = [outcome EXCEPT ![posting[w]] = "given up"]
        /\ wg' = wg - 1
        /\ UNCHANGED <<attempt, backoff>>
     \/ /\ attempt[posting[w]] < MaxAttempts
        /\ attempt' = [attempt EXCEPT ![posting[w]] = @ + 1]
        /\ backoff' = backoff \cup {posting[w]}
        /\ UNCHANGED <<outcome, wg>>
  /\ UNCHANGED <<senderVars, expanderVars, jobs, posts, waiting>>

\* An error, a status other than 2xx, a timeout or a panic.
PostFails(w) ==
  /\ posting[w] # Idle
  /\ posting[w][2] \notin Healthy
  /\ posting' = [posting EXCEPT ![w] = Idle]
  /\ \/ /\ attempt[posting[w]] >= MaxAttempts
        /\ outcome' = [outcome EXCEPT ![posting[w]] = "given up"]
        /\ wg' = wg - 1
        /\ UNCHANGED <<attempt, backoff>>
     \/ /\ attempt[posting[w]] < MaxAttempts
        /\ attempt' = [attempt EXCEPT ![posting[w]] = @ + 1]
        /\ backoff' = backoff \cup {posting[w]}
        /\ UNCHANGED <<outcome, wg>>
  /\ UNCHANGED <<senderVars, expanderVars, jobs, posts, waiting>>

\* Faulty: a timer that fires stays set.
RetryFiresAgain(d) ==
  /\ d \in backoff
  /\ Enqueue(d, wg)
  /\ UNCHANGED <<senderVars, expanderVars, posting, backoff, attempt, posts, waiting>>

\* A retry timer fires: enqueue, on the timer's own goroutine.
RetryFires(d) ==
  /\ d \in backoff
  /\ backoff' = backoff \ {d}
  /\ Enqueue(d, wg)
  /\ UNCHANGED <<senderVars, expanderVars, posting, attempt, posts, waiting>>

-----------------------------------------------------------------------------
(* Wait. *)

WaitCalled ==
  /\ ~waiting
  /\ waiting' = TRUE
  /\ UNCHANGED <<senderVars, expanderVars, jobVars, wg>>

WaitReturns ==
  /\ waiting
  /\ wg = 0
  /\ waiting' = FALSE
  /\ UNCHANGED <<senderVars, expanderVars, jobVars, wg>>

Expander ==
  \/ \E S \in SUBSET Endpoint : Expand(S)
  \/ \E ep \in Endpoint : MakeDelivery(ep)
  \/ FinishExpand

WorkerStep(w) == TakeJob(w) \/ PostSucceeds(w) \/ PostFails(w)

Next ==
  \/ \E e \in Event : DispatchAdd(e) \/ DispatchSend(e)
  \/ Expander
  \/ \E w \in Worker : WorkerStep(w)
  \/ \E d \in Delivery : RetryFires(d)
  \/ WaitCalled \/ WaitReturns

Spec == Init /\ [][Next]_vars

(***************************************************************************)
(* The goroutines run: a sender is past its non-blocking select, the        *)
(* expander and the workers loop over their channels, a post ends (the      *)
(* HTTP client has a timeout), timers fire. Nobody has to call Dispatch or  *)
(* Wait.                                                                    *)
(***************************************************************************)
Fairness ==
  /\ \A e \in Event : WF_vars(DispatchSend(e))
  /\ WF_vars(Expander)
  /\ \A w \in Worker : WF_vars(WorkerStep(w))
  /\ \A d \in Delivery : WF_vars(RetryFires(d))
  /\ WF_vars(WaitReturns)

FairSpec == Spec /\ Fairness

-----------------------------------------------------------------------------
TypeOK ==
  /\ sending \in SUBSET Event
  /\ dispatched \in SUBSET Event
  /\ events \in Seq(Event)
  /\ expanding \in Event \cup {Idle}
  /\ targets \in SUBSET Endpoint
  /\ jobs \in Seq(Delivery)
  /\ posting \in [Worker -> Delivery \cup {Idle}]
  /\ backoff \in SUBSET Delivery
  /\ attempt \in [Delivery -> 0 .. MaxAttempts]
  /\ wg \in Int
  /\ waiting \in BOOLEAN
  /\ posts \in [Delivery -> Nat]
  /\ outcome \in [Delivery -> {"open", "delivered", "given up", "dropped"}]

Busy == {w \in Worker : posting[w] # Idle}

\* What holds a slot of the WaitGroup.
EventSlots == Cardinality(sending) + Len(events) + (IF expanding = Idle THEN 0 ELSE 1)
JobSlots == Len(jobs) + Cardinality(Busy) + Cardinality(backoff)

(***************************************************************************)
(* The counter is the number of events and deliveries on their way, over    *)
(* drops, retries and failures. Too low and Wait returns with work pending  *)
(* or the counter panics below zero; too high and Wait never returns.       *)
(***************************************************************************)
SlotsMatch == wg = EventSlots + JobSlots

(***************************************************************************)
(* Wait returns only when everything dispatched has come to its end: every  *)
(* delivery that was made is delivered, given up or dropped ("Wait blocks   *)
(* until every enqueued event and all of its delivery jobs (including       *)
(* scheduled retries) have terminated").                                    *)
(***************************************************************************)
Terminated ==
  /\ sending = {} /\ events = <<>> /\ expanding = Idle
  /\ \A d \in Delivery : attempt[d] > 0 => outcome[d] # "open"

WaitReturnsWhenDone == [][WaitReturns => Terminated]_vars

(***************************************************************************)
(* The WaitGroup is exact: every step leaves its counter at the number of    *)
(* events and deliveries on their way, be it a drop, a retry or an end, and  *)
(* so Wait never returns early. (A counter that is too high keeps Wait from          *)
(* returning at all, see WaitEnds.)                                          *)
(***************************************************************************)
WaitIsExact == [][SlotsMatch' /\ (WaitReturns => Terminated)]_vars

(***************************************************************************)
(* A delivery is posted at most MaxAttempts times, given up only after that *)
(* many, and never posted again once it has ended: the attempt counter      *)
(* travels with the job through the channel, a worker and a timer.          *)
(***************************************************************************)
AttemptsBounded ==
  \A d \in Delivery :
    /\ posts[d] <= MaxAttempts
    /\ outcome[d] = "given up" => posts[d] = MaxAttempts

EndedStaysEnded ==
  [][ \A d \in Delivery :
        outcome[d] # "open" => posts'[d] = posts[d] /\ outcome'[d] = outcome[d] ]_vars

\* Two workers never post the same delivery at once.
NoConcurrentPosts ==
  \A v, w \in Worker : posting[v] # Idle /\ posting[v] = posting[w] => v = w

(***************************************************************************)
(* Each delivery takes its turns one after the other: one post at a time,    *)
(* no more than MaxAttempts of them, by typed jobs.                          *)
(***************************************************************************)
DeliveriesInTurn == TypeOK /\ AttemptsBounded /\ NoConcurrentPosts

(***************************************************************************)
(* A Wait returns, as there are finitely many events, whatever the broken   *)
(* endpoints do.                                                            *)
(***************************************************************************)
WaitEnds == waiting ~> ~waiting

(***************************************************************************)
(* A delivery to a healthy endpoint that got a place in the jobs channel is *)
(* delivered, although other endpoints fail every attempt ("a slow/broken   *)
(* receiver cannot block delivery to healthy endpoints").                   *)
(***************************************************************************)
HealthyDelivered ==
  \A e \in Event, ep \in Healthy :
    (\E i \in DOMAIN jobs : jobs[i] = <<e, ep>>) ~> outcome[<<e, ep>>] = "delivered"
=============================================================================
