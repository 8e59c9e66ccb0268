--------------------------- MODULE EventForwarder ---------------------------
(***************************************************************************)
(* The event forwarder (src/internal/eventforwarder): informers report the *)
(* changes of the watched resources, the forwarder debounces updates, and  *)
(* the dispatcher's bounded queue and worker pool post them to the         *)
(* configured endpoints, with retries.  The consumer behind an endpoint    *)
(* fetches the resource on each notification it receives; its own          *)
(* periodic full sync is left out, because it would repair anything.       *)
(***************************************************************************)
EXTENDS Naturals, Sequences, FiniteSets

CONSTANTS Resources,
          Endpoints,    \* configured webhook endpoints
          MaxAttempts,  \* endpoint -> attempts per event (1 without a retry block)
          Workers,      \* the worker pool
          QueueSize,    \* capacity of the job channel
          MaxChanges,   \* bound on the changes made to each resource
          MaxFaults     \* bound on failed sends and crashes

ASSUME AttemptsAssumption == MaxAttempts \in [Endpoints -> Nat \ {0}]
ASSUME SizesAssumption == QueueSize \in Nat /\ MaxChanges \in Nat /\ MaxFaults \in Nat

VARIABLES
  api,        \* resource -> what the API server holds
  watch,      \* resource -> informer events not yet handled
  lastEvent,  \* resource -> age of its entry in the debounce map
  jobs,       \* the dispatch queue
  worker,     \* worker -> the event it is dispatching
  consumer,   \* endpoint -> resource -> what the consumer last fetched
  faults,     \* faults so far
  debounced,  \* history: resources whose last handled event was suppressed
  lost        \* history: <<endpoint, resource>> with a notification given up

forwarderVars == <<api, watch, lastEvent, jobs, worker, consumer, faults, debounced, lost>>

Actions == {"created", "updated", "deleted"}
Event == [res: Resources, action: Actions]
Objects == [exists: BOOLEAN, version: 0..MaxChanges]
Absent == [exists |-> FALSE, version |-> 0]

\* A worker's event, the endpoints whose goroutines have not returned, and the
\* number of attempts these have made.
Free == [event |-> {}, open |-> {}, tries |-> [ep \in Endpoints |-> 0]]
Dispatch(e) == [Free EXCEPT !.event = {e}, !.open = Endpoints]

Busy(w) == worker[w].event # {}

Assignments ==
  [event: {S \in SUBSET Event : \A x, y \in S : x = y},
   open: SUBSET Endpoints,
   tries: [Endpoints -> Nat]]

\* The queue never exceeds its capacity (Dispatch), no endpoint is tried more
\* often than it is configured for (sendWithRetry), and a worker's event is one
\* the informers report.
ForwarderTypeOK ==
  /\ api \in [Resources -> Objects]
  /\ watch \in [Resources -> Seq(Actions)]
  /\ lastEvent \in [Resources -> {"none", "recent", "old"}]
  /\ jobs \in Seq(Event) /\ Len(jobs) <= QueueSize
  /\ worker \in [Workers -> Assignments]
  /\ \A w \in Workers : \A ep \in Endpoints : worker[w].tries[ep] < MaxAttempts[ep]
  /\ consumer \in [Endpoints -> [Resources -> Objects]]
  /\ faults \in 0..MaxFaults
  /\ debounced \subseteq Resources
  /\ lost \subseteq Endpoints \X Resources

ForwarderInit ==
  /\ api = [r \in Resources |-> Absent]
  /\ watch = [r \in Resources |-> <<>>]
  /\ lastEvent = [r \in Resources |-> "none"]
  /\ jobs = <<>>
  /\ worker = [w \in Workers |-> Free]
  /\ consumer = [ep \in Endpoints |-> [r \in Resources |-> Absent]]
  /\ faults = 0 /\ debounced = {} /\ lost = {}

-----------------------------------------------------------------------------
(* The API server and the informers. *)

\* A resource is created, updated or deleted, and its informer sees it.
Change(r, action) ==
  /\ api[r].version < MaxChanges
  /\ (action = "created") = ~api[r].exists
  /\ api' = [api EXCEPT ![r] = [exists |-> action # "deleted", version |-> @.version + 1]]
  /\ watch' = [watch EXCEPT ![r] = Append(@, action)]
  /\ UNCHANGED <<lastEvent, jobs, worker, consumer, faults, debounced, lost>>

-----------------------------------------------------------------------------
(* Forwarder.handleEvent and Dispatcher.Dispatch. *)

SuppressedAny(r, action) == lastEvent[r] = "recent"

\* An update within the debounce window of the last accepted one.
Suppressed(r, action) == action = "updated" /\ lastEvent[r] = "recent"

EnqueueAlways(e) == jobs' = Append(jobs, e) /\ UNCHANGED lost

\* The event is queued, or dropped when the queue is full.
Enqueue(e) ==
  IF Len(jobs) < QueueSize
  THEN jobs' = Append(jobs, e) /\ UNCHANGED lost
  ELSE lost' = lost \cup (Endpoints \X {e.res}) /\ UNCHANGED jobs

handleEvent(r) ==
  /\ watch[r] # <<>>
  /\ LET action == Head(watch[r]) IN
       /\ watch' = [watch EXCEPT ![r] = Tail(@)]
       /\ IF Suppressed(r, action)
          THEN debounced' = debounced \cup {r} /\ UNCHANGED <<lastEvent, jobs, lost>>
          ELSE /\ lastEvent' = IF action = "updated"
                               THEN [lastEvent EXCEPT ![r] = "recent"] ELSE lastEvent
               /\ debounced' = debounced \ {r}
               /\ Enqueue([res |-> r, action |-> action])
  /\ UNCHANGED <<api, worker, consumer, faults>>

\* One second passes since the entry was made.
WindowEnds(r) ==
  /\ lastEvent[r] = "recent"
  /\ lastEvent' = [lastEvent EXCEPT ![r] = "old"]
  /\ UNCHANGED <<api, watch, jobs, worker, consumer, faults, debounced, lost>>

cleanupDebounceLoop ==
  /\ \E r \in Resources : lastEvent[r] = "old"
  /\ lastEvent' = [r \in Resources |-> IF lastEvent[r] = "old" THEN "none" ELSE lastEvent[r]]
  /\ UNCHANGED <<api, watch, jobs, worker, consumer, faults, debounced, lost>>

-----------------------------------------------------------------------------
(* The worker pool. *)

\* A free worker takes the next job and starts one goroutine per endpoint.
Take(w) ==
  /\ ~Busy(w) /\ jobs # <<>>
  /\ worker' = [worker EXCEPT ![w] = Dispatch(Head(jobs))]
  /\ jobs' = Tail(jobs)
  /\ UNCHANGED <<api, watch, lastEvent, consumer, faults, debounced, lost>>

Returned(a, ep) == [a EXCEPT !.open = @ \ {ep}, !.tries[ep] = 0]

DoneStaysBusy(w, ep) == worker' = [worker EXCEPT ![w] = Returned(@, ep)]

\* The goroutine of endpoint ep returns; the worker is free after the last one.
Done(w, ep) ==
  worker' = [worker EXCEPT ![w] = IF @.open = {ep} THEN Free ELSE Returned(@, ep)]

\* send succeeds: the consumer was notified and fetched the resource.
send(w, ep) ==
  /\ Busy(w) /\ ep \in worker[w].open
  /\ \E e \in worker[w].event :
       /\ consumer' = [consumer EXCEPT ![ep][e.res] = api[e.res]]
       /\ lost' = lost \ {<<ep, e.res>>}
  /\ Done(w, ep)
  /\ UNCHANGED <<api, watch, lastEvent, jobs, faults, debounced>>

\* send fails, before or after the consumer handled it.  sendWithRetry tries
\* again until the endpoint's attempts are used up; the client's own timeout is
\* a DeadlineExceeded, after which it gives up at once.
SendFails(w, ep) ==
  /\ faults < MaxFaults /\ faults' = faults + 1
  /\ Busy(w) /\ ep \in worker[w].open
  /\ \E e \in worker[w].event :
       /\ \/ UNCHANGED consumer
          \/ consumer' = [consumer EXCEPT ![ep][e.res] = api[e.res]]
       /\ \/ /\ worker[w].tries[ep] + 1 < MaxAttempts[ep]
             /\ worker' = [worker EXCEPT ![w].tries[ep] = @ + 1]
             /\ UNCHANGED lost
          \/ /\ Done(w, ep)
             /\ lost' = lost \cup {<<ep, e.res>>}
  /\ UNCHANGED <<api, watch, lastEvent, jobs, debounced>>

\* The process restarts: the queue, the jobs in progress and the debounce map
\* are lost, and the new informers report every resource that exists as created.
Restart ==
  /\ faults < MaxFaults /\ faults' = faults + 1
  /\ watch' = [r \in Resources |-> IF api[r].exists THEN <<"created">> ELSE <<>>]
  /\ lastEvent' = [r \in Resources |-> "none"]
  /\ jobs' = <<>>
  /\ worker' = [w \in Workers |-> Free]
  /\ debounced' = {}
  /\ lost' = lost \cup (Endpoints \X {r \in Resources : ~api[r].exists})
  /\ UNCHANGED <<api, consumer>>

ForwarderNext ==
  \/ \E r \in Resources, a \in Actions : Change(r, a)
  \/ \E r \in Resources : handleEvent(r) \/ WindowEnds(r)
  \/ cleanupDebounceLoop
  \/ \E w \in Workers : Take(w)
  \/ \E w \in Workers, ep \in Endpoints : send(w, ep) \/ SendFails(w, ep)
  \/ Restart

ForwarderSpec == ForwarderInit /\ [][ForwarderNext]_forwarderVars

\* Informers and workers run; a send ends within the client's timeout.
Fairness ==
  /\ \A r \in Resources : WF_forwarderVars(handleEvent(r)) /\ WF_forwarderVars(WindowEnds(r))
  /\ \A w \in Workers : WF_forwarderVars(Take(w))
  /\ \A w \in Workers, ep \in Endpoints : WF_forwarderVars(send(w, ep))

FairForwarderSpec == ForwarderSpec /\ Fairness

-----------------------------------------------------------------------------
(* Properties. *)

\* A notification of r that was accepted is still on its way to ep.
Handed(ep, r) ==
  \/ \E i \in DOMAIN jobs : jobs[i].res = r
  \/ \E w \in Workers : ep \in worker[w].open /\ \E e \in worker[w].event : e.res = r

InFlight(ep, r) == watch[r] # <<>> \/ Handed(ep, r)

\* When nothing is on its way any more and no notification was given up, the
\* consumer knows whether the resource exists, and knows its latest version
\* unless the last update was debounced (handleEvent, Dispatch, sendWithRetry).
QuietIsCurrent ==
  \A ep \in Endpoints, r \in Resources :
    ~InFlight(ep, r) /\ <<ep, r>> \notin lost =>
      /\ consumer[ep][r].exists = api[r].exists
      /\ consumer[ep][r] = api[r] \/ r \in debounced

\* An accepted notification is delivered or given up: none stays in the queue or
\* with a worker (worker, dispatchAll).
Drains == \A ep \in Endpoints, r \in Resources : InFlight(ep, r) ~> ~InFlight(ep, r)

-----------------------------------------------------------------------------
\* Why QuietIsCurrent holds: the strengthening that is inductive.  A consumer to
\* which nothing is on its way may be behind by events the informer has not yet
\* handled; as long as these are updates it knows whether the resource exists.
KnownUpToWatch ==
  \A ep \in Endpoints, r \in Resources :
    ~Handed(ep, r) /\ <<ep, r>> \notin lost =>
      /\ (\A i \in DOMAIN watch[r] : watch[r][i] = "updated") =>
           consumer[ep][r].exists = api[r].exists
      /\ watch[r] = <<>> => consumer[ep][r] = api[r] \/ r \in debounced

ForwarderInv == ForwarderTypeOK /\ KnownUpToWatch
=============================================================================
