-------------------------------- MODULE Scan --------------------------------
(***************************************************************************)
(* The TCP scan of a subnet (internal/discovery/network.go): a feeder hands *)
(* the addresses to workers over an unbuffered channel, the workers dial    *)
(* and hand the hosts they find to the caller over another, and a closer    *)
(* closes that when all workers have returned.                              *)
(*                                                                          *)
(* A handover over an unbuffered channel is one step of both sides. The     *)
(* caller's context may end at any moment: dials fail from then on, and     *)
(* those under way may.                                                     *)
(***************************************************************************)
EXTENDS Naturals, Sequences, FiniteSets, SequencesExt

CONSTANTS
  Ips,      \* the addresses of the subnet, as numbers, in order
  Worker,   \* Concurrency of them
  NoIp

VARIABLES
  alive,    \* the addresses with an open port
  unfed,     \* what the feeder has not handed out
  jobs,     \* channel jobs: "open" or "closed"
  worker,   \* the address each worker is at, and whether it found it open
  results,  \* channel results: "open" or "closed"
  listed,   \* the hosts the caller has received
  returned, \* Scan has returned
  ended     \* the context has ended

vars == <<alive, unfed, jobs, worker, results, listed, returned, ended>>

Waiting == [at |-> "waits", ip |-> NoIp]
Gone == [at |-> "gone", ip |-> NoIp]

Init ==
  /\ alive \in SUBSET ToSet(Ips)
  /\ unfed = Ips /\ jobs = "open"
  /\ worker = [w \in Worker |-> Waiting]
  /\ results = "open" /\ listed = <<>> /\ returned = FALSE
  /\ ended = FALSE

Feed(w) ==
  /\ jobs = "open" /\ unfed # <<>> /\ worker[w] = Waiting
  /\ worker' = [worker EXCEPT ![w] = [at |-> "dials", ip |-> Head(unfed)]]
  /\ unfed' = Tail(unfed)
  /\ UNCHANGED <<alive, jobs, results, listed, returned, ended>>

\* Faulty: when the context has ended, the feeder returns and leaves jobs open.
CloseJobsWhenFed ==
  /\ jobs = "open"
  /\ unfed = <<>> /\ ~ended
  /\ jobs' = "closed"
  /\ UNCHANGED <<alive, unfed, worker, results, listed, returned, ended>>

\* The feeder has handed out everything, or sees that the context has ended.
CloseJobs ==
  /\ jobs = "open"
  /\ unfed = <<>> \/ ended
  /\ jobs' = "closed"
  /\ UNCHANGED <<alive, unfed, worker, results, listed, returned, ended>>

\* No port answers: an address that is down, or the context has ended.
Missed(w) ==
  /\ worker[w].at = "dials"
  /\ worker[w].ip \notin alive \/ ended
  /\ worker' = [worker EXCEPT ![w] = Waiting]
  /\ UNCHANGED <<alive, unfed, jobs, results, listed, returned, ended>>

Found(w) ==
  /\ worker[w].at = "dials" /\ worker[w].ip \in alive
  /\ worker' = [worker EXCEPT ![w].at = "found"]
  /\ UNCHANGED <<alive, unfed, jobs, results, listed, returned, ended>>

Receive(w) ==
  /\ worker[w].at = "found"
  /\ listed' = Append(listed, worker[w].ip)
  /\ worker' = [worker EXCEPT ![w] = Waiting]
  /\ UNCHANGED <<alive, unfed, jobs, results, returned, ended>>

\* range over the closed channel ends.
Leave(w) ==
  /\ jobs = "closed" /\ worker[w] = Waiting
  /\ worker' = [worker EXCEPT ![w] = Gone]
  /\ UNCHANGED <<alive, unfed, jobs, results, listed, returned, ended>>

\* Faulty: the results are closed with the jobs.
CloseResultsEarly ==
  /\ results = "open" /\ jobs = "closed"
  /\ results' = "closed"
  /\ UNCHANGED <<alive, unfed, jobs, worker, listed, returned, ended>>

CloseResults ==
  /\ results = "open" /\ \A w \in Worker : worker[w] = Gone
  /\ results' = "closed"
  /\ UNCHANGED <<alive, unfed, jobs, worker, listed, returned, ended>>

\* The lists with the members of s, in order.
SortedLists(s) ==
  {t \in [DOMAIN s -> ToSet(s)] :
     /\ \A i, j \in DOMAIN s : i < j => t[i] <= t[j]
     /\ \E moved \in Bijection(DOMAIN s, DOMAIN s) : \A i \in DOMAIN s : t[i] = s[moved[i]]}

\* The loop over results ends; the list is sorted.
Return ==
  /\ results = "closed" /\ ~returned
  /\ returned' = TRUE
  /\ listed' \in SortedLists(listed)
  /\ UNCHANGED <<alive, unfed, jobs, worker, results, ended>>

ContextEnds ==
  /\ ~ended /\ ~returned
  /\ ended' = TRUE
  /\ UNCHANGED <<alive, unfed, jobs, worker, results, listed, returned>>

Work ==
  \/ CloseJobs \/ CloseResults \/ Return
  \/ \E w \in Worker : Feed(w) \/ Missed(w) \/ Found(w) \/ Receive(w) \/ Leave(w)

Next == Work \/ ContextEnds

Spec == Init /\ [][Next]_vars
-----------------------------------------------------------------------------
(***************************************************************************)
(* A scan that has returned has left no worker behind and lists, in the     *)
(* order of the addresses and each once, only hosts that are there; all of  *)
(* them, if its context did not end.                                        *)
(***************************************************************************)
ListsTheAlive ==
  returned =>
    /\ \A w \in Worker : worker[w] = Gone
    /\ \A i, j \in DOMAIN listed : i < j => listed[i] < listed[j]
    /\ ToSet(listed) \subseteq alive
    /\ ~ended => ToSet(listed) = alive

(***************************************************************************)
(* A scan returns, whenever its context ends.                               *)
(***************************************************************************)
ScanReturns == <>returned
=============================================================================
