# OpenChoreo: a TLA+ development

OpenChoreo is a developer platform on Kubernetes. A *control plane* holds the
platform's custom resources and reconciles them; *data planes*, *workflow
planes* and *observability planes* are other clusters, which the control plane
reaches only through agents that dial out to a *cluster gateway*. This directory
models the parts of it whose correctness depends on the order in which
concurrent things happen, checks them with TLC on small instances, and proves
the central facts with TLAPS for instances of any size.

Two halves are modelled: the path every cross-plane request or stream takes
(controller -> gateway pod -> (mesh ->) gateway pod -> agent), and the
controllers whose objects outlive single calls: releases, workflow runs, the
deletion cascade and the event forwarder.

## 1. The system

| Part | State it keeps | What changes it | Modelled in |
|---|---|---|---|
| Gateway mesh (`internal/cluster-gateway/fabric`) | each pod's own agent connections, numbered; its view of every other pod's; links to peers; an outbox | agents connect and leave, discovery, frames from peers, drain, crash | `Registry`, `Mesh`, `Forward` |
| Tunnelled requests (`cluster-gateway/server.go`) | the map of pending requests, one reader goroutine per agent websocket | requests, answers, timeouts, lost connections | `Tunnel`, `Exchange` |
| Connection manager (`connection_manager.go`, `plane_api.go`) | the connections per plane, the custom resources (CRs) each may serve, round-robin cursors, the copy in the mesh | registration, revalidation after a CA change, disconnects | `ConnectionManager` |
| Streams: exec, wire logs (`exec.go`, `wirelogs.go`; the agent's `exec.go`, `hubble.go`) | sessions on both sides, bounded channels, the stdin pipe | chunks, clients that leave, broken connections, back-pressure | `Stream` |
| Cluster agent (`internal/cluster-agent`) | its websocket, requests under way, streams | GOAWAY, errors, requests | `Tunnel`, `Stream` |
| RenderedRelease controller | what is applied on a remote plane, its inventory in the status | spec changes, failures of any call, drift, crash | `RenderedRelease`; as one step of the cascade in `Cascade` |
| Project, Component, Resource, Environment, DeploymentPipeline, DataPlane and the three binding controllers | owned objects, finalizers | deletion in any order, rendering, failures | `Cascade` (deletion and what races it) |
| WorkflowRun controller | the reference to the remote run, the outcome, the TTL | crash between start and record, stale cache, conflicts, TTL | `WorkflowRun` |
| Event forwarder | debounce table, bounded queue, workers | bursts, failing consumers, restart | `EventForwarder` |
| Drain, rebalancing, plane events over the mesh | draining flag, fair share | shutdown, a timer, notifications | draining flag in `Mesh`; the rest: no |
| Plane controllers, client cache | observed generation, cached clients | spec changes, gateway errors | the data plane's finalizer in `Cascade`; the rest: no |
| Remote agent router, JWKS cache, occ token refresh | small caches | timers, misses | no |
| Rendering pipelines, validation, webhooks, authorization, API server, observer, CLI | none, or none that is concurrent | - | no: pure functions of their inputs, or pass-through |

`PROJECT.json` lists every component with its files, and every hazard with the
line where it bites and the property that would catch it.

### How the parts interact

Every gateway pod terminates the websockets of some agents. A request for a
plane may arrive at any pod. If the pod has an agent for it
(`ConnectionManager`), it dispatches the request over that agent's websocket and
waits (`Tunnel`), or relays a stream over it (`Stream`). If it has none, it looks
for pods that do in its replicated registry (`Mesh`, `Registry`), forwards the
request one hop over a mesh link and waits (`Forward`); the owner dispatches it,
which is again a `Tunnel`. `ConnectionManager` tells the mesh what to replicate.

The controllers use that path for their calls. A binding controller resolves an
environment and its data plane and writes a RenderedRelease in the control plane;
the RenderedRelease controller applies it on the plane, and cleans it up through
the same environment (`RenderedRelease`). Deleting a tenant runs through some ten
controllers that wait for one another (`Cascade`). In these modules a remote call
is one step that may fail.

The hard behaviours are: snapshots and deltas of one owner on several sockets;
frames that outlive a link, a purge or the pod that sent them; a full outbox or
channel; a reply, a timeout and the end of a connection racing for the same
waiter; retries of requests that may have run; lists and caches that show what
was there before the last write; a crash between a remote call and the status
update that records it; and controllers that wait for objects others must delete.

## 2. Modules

### Registry (`fabric/registry.go`)
The record a pod keeps of one owner (`seq`, `draining`, `entries`, and whether it
exists at all) and what `ApplyDelta`, `ApplySnapshot`, `PurgeOwner` and
`SetDraining` make of it, as operators. Extended by `Mesh`.

### Mesh (`fabric/mesh.go`, `handleReady` and the shutdown in `server.go`)
Pods, the websockets between them, discovery and readiness.

* A socket is a triple (dialer, acceptor, slot) and has two ends. `pc` says what
  the goroutine at an end does; `inq` holds the frames on their way to it, in
  order; `attached` holds the sockets `runLink` has published as the link's
  current one, `up` those whose connection is alive.
* `localSnapshot` and the send that follows are two actions (`TakeSnapshot` and
  `PushSnapshot`, `HandleSnapshotReq` and `SendReply`), because the broadcaster
  may send a delta on the same socket in between.
* `ReconcilePeers` is the whole of `reconcilePeers`: new links, cancelled links
  and the purge of departed owners, as one step: its sections under `linksMu` and
  `convergeMu` and the registry's are not told apart. A peer keeps its address here;
  the replacement of a link to a peer whose address changed is in `Forward`.
  Discovery may report late and skip sets.
* `BecomeReady` and `BecomeUnready` are `handleReady` together with the kubelet
  and the endpoint controller, which are external.
* `Exit` ends a pod for good, whether it drained or crashed.
* The guards `d.owner = PeerAt(e)` are `handleFrame`'s checks that a frame speaks
  for the peer at the other end. The code logs and drops any other frame; in the
  model none is ever sent, so nothing is blocked by the guard.
* `hist`, `purged` and `heardDraining` are history variables: no action reads
  them.

### Exchange
What a tunnelled request promises its caller: it runs at most once; a response
comes from a run; a refusal means it has not run and will not; a failure leaves
that open. An abstract specification, with no code of its own.

### Tunnel (`server.go`, `cluster-agent/agent.go`)
One gateway pod and the agents connected to it.

* A caller goes through `Pick`, `AddPending`, `Send`, and `Return` or `Timeout`,
  the steps of `dispatchTunnelRequest` between which others may run.
* A reader (`handleConnection`) takes an entry out of the pending map
  (`Receive`) and hands the reply over afterwards (`HandOver`). When reading
  fails it releases the waiters (`FailPending`, `HandOver`) and only then
  unregisters the connection (`Unregister`), the order of the deferred calls.
* An agent starts a goroutine per request and writes the response to whatever
  `a.conn` is at that time, which may be a newer connection.
* `ImplementsExchange` is the refinement: `runs` is `runs`; the results map
  to `response`, `refused` (no agent, not sent) and `failed` (closed, timeout).

### Forward (`server.go`, `fabric/mesh.go`)
The pod that forwards. Links with their loop (`runLink`), the websocket each has
published, forwards with their two attempts (`forwardViaMesh` tries at most two
candidates), the pending map of the mesh, and each owner's dispatch as an
`Exchange` (`X`), which `Tunnel` implements. A link may be replaced by another
one to the same owner while its loop is still winding down. `serveLink` may end at
any time (`LinkLost`: a late pong, a frame that cannot be decoded), and has to when
its connection is broken or its context cancelled (`ReadFails`).

### ConnectionManager (`connection_manager.go`, `plane_api.go`)
The connections of one plane at one pod. `Verify` and `Register` are separate
because `handleWebSocket` reads the CAs before it takes the lock.
`RevalidateCR` holds no lock while it goes through its copy of the list, so it is
five actions. `GetForCR` chooses the connection with as many others `Ahead` of it,
among those that may serve the CR, as the cursor says. Reading the validity of all
listed connections under `cm.mu` is one step, as the module's header explains.
`Trusts` stands for X.509 verification. `turns` is a history variable.

### Stream (`cluster-gateway/exec.go`, `wirelogs.go`; `cluster-agent/exec.go`, `hubble.go`)
One session, an exec or a wire log, with its client and its remote process.

* Gateway: `handler` is the request's goroutine, `reader` the one that relays the
  client's messages, `fromAgent` and `done` the session's channels.
  `handleStreamChunk` and `BackpressureTimeout` are the connection's read loop.
* Agent: `AgentReads` routes messages, `StartSession`, `Produce`, `Exit` and
  `Cancelled` are the session's goroutine, and `ReadBuffer` and `Receive` the two
  halves of `stdinPipeReader.Read`, which holds no lock between them.
* `link` is the agent's current connection: its number, whether it is up, was left
  after a GOAWAY or is broken, and whether it ends at this pod. The handler keeps
  writing to the first one. When a connection ends, any first part of what is in
  flight still arrives (`Cut`).
* The gateway reads each connection in a goroutine of its own (`ReadLoop`), which may
  be blocked on a full session channel while the agent is already on the next one:
  `toGateway` is a queue per connection, and the readers of two may feed one session.
* `writing` is the chunk whose write to the client is under way. The write has no
  deadline; to a client that has left it fails or is lost, as a socket's writes do.
* `seen` is history: breaks, overflows, chunks dropped for back-pressure, and the
  connection each chunk was sent on.

### RenderedRelease (`internal/controller/renderedrelease`)
One release, its manifests and its plane. A reconcile is a sequence of actions,
one per remote call: `Start`, `Apply` of each manifest in any order, `List`,
`deleteResource` of each stale object, `updateStatus`; or, for a deleted release,
`MarkFinalizing`, `FinalizeList`, `deleteResource` and `FinalizeDone`.

* `job` is the reconcile with the copy of the release it read; `fresh` says
  whether that copy is still current, which decides whether a write is accepted.
* An object's content is the generation of the spec that last changed it, so that
  `snapshotPrecedesApply` compares generations as the code does. A list may show
  an object as it was before the apply.
* `Plane` selects between the two finalizers. Health is ready, not ready or not
  seen; Degraded, and the interval for workloads scaled to zero, fall under these.
* `Edit` changes the spec. A change of the release's `restartedAt` annotation, which
  alters what is applied without a new generation, is left out. The finalizers'
  lists are exact; only the list after an apply may lag (`List`).

### WorkflowRun (`internal/controller/workflowrun`)
One WorkflowRun, its run and additional resources on the workflow plane, and the
reconciler, with one action per API call and one per decision between them.

* The reconciler works on the informer's copy (`cache`, `synced`); a write to the
  object carries its version and is refused when it is outdated (`Write`), a
  write to the workflow plane is not.
* `now` is the clock relative to the expiration. `checkTTLExpiration` reads it
  twice, so it is two actions (`checkTTLExpiration`, `TTLRequeue`).
* `Resolve` stands for the look-up of the workflow and its plane and for
  rendering. A missing workflow fails the run; a missing plane or a failed look-up
  sets a waiting condition (`setWaitingCondition`), whose status update may be
  refused like any other.
* `UpdateRun` writes the rendered object over the run. It has no status, and an Argo
  Workflow has no status subresource, so that the run is pending again and the
  engine executes it once more.
* `seen` is history: endings, and what the properties except.

### EventForwarder (`internal/eventforwarder`)
Informer events per resource, the debounce map with three ages (the window of one
second passes in `WindowEnds`, `cleanupDebounceLoop` removes old entries), the
bounded queue and the workers, each with one goroutine per endpoint: a worker has
its event, the endpoints that have not returned (`open`) and how often each was
tried (`tries`). A failed send is retried or, after the HTTP client's own timeout,
not: that error is a `context.DeadlineExceeded`, which `sendWithRetry` takes for a
shutdown. A consumer fetches the resource when it is notified; its periodic full
sync is left out. `debounced` and `lost` are history variables.

### Cascade (`internal/controller/{project,component,resource,environment,deploymentpipeline,dataplane,*releasebinding,renderedrelease}`)
One project with its pipeline, environments, data plane, bindings and releases,
and everything their finalizers do.

* An object is absent, bare (no finalizer), live, deleting or gone. A pass of a
  finalizer that reads and deletes is one action; removing the finalizer is
  another, so that other controllers run in between.
* `finalizing` is the one question the first pass asks of the conditions. Passes
  that are blocked record another reason in the same condition, so the next pass
  is a first pass again (`environmentFinalize`, `dataPlaneFinalize`, the retain
  hold in `bindingFinalize`).
* `reconcile` and `renderAndEmit` are the binding controllers: what they resolved
  may be gone, or under deletion, when they write the RenderedRelease.
* A RenderedRelease is bare, live, deleting or absent, and `dp` is what it has on
  the plane. Its controller is abstracted to three actions, whose details are in
  `RenderedRelease`. A namespace takes its contents with it (`PlaneRemoves`).
* `policy` is a binding's `spec.retainPolicy`, which overrides the policy of its
  ResourceRelease and may be edited at any time, also on hold (`SetRetainPolicy`).
* People may delete releases, too: the API does not ask whether a binding pins one
  (`services/resourcerelease/service.go`). `byHand` is history: the releases they
  deleted, and the bindings whose hold they cleared.
* `bindingFinalize` is the finalizer of the three kinds. A ReleaseBinding deletes every
  RenderedRelease with its labels (`hasOwnedReleases`), here the one it has; the others
  delete theirs by name.
* Before a data plane's finalizer is removed the gateway is notified; its refusal
  holds the finalizer for another pass, which is `CallFails` between the decision and
  the removal.
* Finalizers of the owners are there from the start, and lists are up to date.

### MC modules
`MCMesh`, `MCTunnel`, `MCForward`, `MCConnectionManager`, `MCStream`,
`MCRenderedRelease`, `MCWorkflowRun`, `MCEventForwarder` and `MCCascade` define the
constants of the small instances; the `.cfg` files give the rest their values.

## 3. Runs

Passing runs (TLC explores the whole state space and finds no error):

| Run | Properties | What it shows |
|---|---|---|
| `mesh` | `TypeOK`, `ConvergedKnowsPeers`, `DrainSticks`, `ViewIsPastState` | a pod fails probes, drains, exits or crashes: no outbox overflows; who has heard from all has a state for every peer it never purged; DRAINING is not forgotten while the peer is linked; a view is always some past state of its owner |
| `mesh_live` | `ReadyEventually`, `DeltaCatchesUp` | no peer and no network keeps a healthy pod unready; with an outbox of one, a delta that arrives repairs the gap before it or its socket is lost |
| `tunnel` | `PendingIsAwaited`, `RepliesFit`, `ImplementsExchange`, `OrphansReturn` | the pending map leaks nothing, no reply meets a full channel, dispatching implements `Exchange`, and who is in the map when a reader fails returns without a timeout |
| `forward` | `AtMostOnce`, `NoForwardStranded`, `BrokenForwardsReturn` | links break, redial and are replaced: nothing unsafe runs twice, no waiter is left on a closed socket, and who waits on a socket that breaks comes back without a timeout |
| `conns` | `TypeOK`, `CursorsBacked`, `TurnsAreFair` | no cursor outlives the connections that back it, and nobody is chosen twice while another waits |
| `stream` | `OutputInOrder`, `NormalCloseIsComplete`, `StdinInOrder`, `ClientTakesSessionDown`, `SessionEndsRequest` | output keeps its order connection by connection and stdin its order, a normal close means the client has everything, and while the connection holds each end takes the other down, a client that stays without reading excepted |
| `release` | `NothingLeftBehind`, `HealthIsCurrent`, `Converges`, `DeletionEnds` | whatever fails in between, a release that is gone left nothing of a well-known kind, health is that of the content applied, and the plane ends up as the spec says or the deletion ends |
| `workflow_run` | `OutcomeStands`, `OutcomeIsTrue`, `RecordedIsCleanedUp`, `OutcomeIsFinal`, `Completes`, `DeletionEnds`, `Expires` | through crashes and stale reads the outcome is true, published once, and that of the last execution: none follows; the run completes, expires and cleans up what it recorded |
| `events` | `ForwarderTypeOK`, `QuietIsCurrent`, `Drains` | when nothing is on its way and nothing was given up the consumer is current, up to a debounced last update; every notification is delivered or given up |
| `cascade` | `EnvironmentOutlivesReleases`, `NothingLeftBehind`, `ReferencedStays`, `RetainHolds`, `DeletionEnds` | in whatever order things are deleted, an environment and its plane outlive the releases they serve, nothing referenced goes first unless people delete it, nothing is left behind, the cascade spares what is to be retained however its policy is set, and every deletion ends that nothing holds |

Runs that TLC refutes, each with the sentence that says otherwise (`findings` in
`PROJECT.json`):

| Run | Property | What happens |
|---|---|---|
| `tunnel_stranded` | `NobodyStranded` | a request dispatched between the release of the waiters and the unregistration waits for its timeout |
| `cascade_retain` | `RetainedStateStays` | deleting a project deletes its ProjectReleaseBinding and with it the cell namespace, and what a retained resource has there goes while its binding is being deleted and is on `RetainHold` |

The models contain other behaviours that a reader of the code's comments may not
expect. No run is kept for them.

Gateway:

* A snapshot taken before a mutation may be sent after its delta and overwrite it;
  the view stays behind until the owner changes again or a link is redialed.
  `mesh.go:585` says "Pushing our full state unconditionally on every fresh dial
  guarantees the peer converges regardless of that timing."
* A delta that finds the outbox full is dropped, and nothing repairs the gap before
  the owner's next delta: if it was the last, the view stays behind (`mesh.go:413`).
* A draining pod turns unready, so its peers purge it together with its flag; a
  repair over its own socket brings its entries back without the flag
  (`registry.go:96`). `DrainSticks` is therefore about linked peers only.
* A snapshot handled after the purge recreates an owner, and nothing purges it
  when it dies (`mesh.go:512`).
* `snapshotsFrom` is never cleared, so a peer that left and came back counts as
  heard from (`mesh.go:227`). `ConvergedKnowsPeers` therefore leaves out peers
  that were purged before.
* The loop of a replaced link releases forwards of the new one, whose socket is
  not gone (`mesh.go:603`: "the socket that would have carried it is gone").
* A response goroutine of the previous connection may read `a.conn` while
  `connect` assigns it without the lock (`agent.go:297`).
* A forward that ran and lost its answer may be reported with the local lookup's
  error, "not authorised" included (`server.go:1082`).
* A revalidation may publish a connection that was unregistered meanwhile, which
  nothing withdraws, and two revalidations may publish a connection's CRs in the
  opposite order of their updates (`connection_manager.go:699`).
* Streams: a handler that gives up before the first chunk does not tell the agent,
  whose session goes on (`exec.go:151`). After a break, an idle client waits until
  it leaves. An agent that reconnects to the same pod goes on with a hole in the
  output, and what the old connection's reader still holds may reach the client
  behind what came over the new one. After a back-pressure timeout `select` may
  still take later chunks. A client that stays without reading keeps its handler,
  whose write has no deadline (`exec.go:203`; `wirelogs.go:84` clears it).
* Stdin that overflows the channel is appended to a buffer that is read first,
  ahead of what is in the channel, and that `Read` may miss at the end of input
  (`cluster-agent/exec.go:111`: "append to internal buffer so data is not lost").
* The context of a Hubble stream is the agent's, not the connection's, so a
  disconnect does not end it (`cluster-agent/hubble.go:128`).

Controllers:

* On an observability plane the finalizer looks only for kinds in the inventory
  (`intersectObsPlaneGVKs`), so what was applied before a crash is left behind.
  Kinds that are not well-known are left behind on every plane in that case.
* A reconcile that read the WorkflowRun without the reference to its run (a crash, a
  refused status update, or a cache that lags right after the reference was written)
  updates the run and so executes it again (`workflowrun/controller.go:391`). Only
  once an outcome is published is this excluded (`OutcomeStands`).
* A WorkflowRun deleted after a crash between the creation of its run and the
  status update leaves the run on the plane: the finalizer goes by the record. A
  Workflow deleted while its run is under way fails the run and skips its cleanup,
  and a run that is removed from the plane is reported as failed.
* A TTL that runs out between the two readings of the clock in
  `checkTTLExpiration` neither deletes nor requeues. `Expires` excepts that case.
* The forwarder's debounce keeps the first update of a burst and drops the last
  (`forwarder.go:276`); a consumer is behind until the next event or its full sync.
* A client timeout is not retried although retries are configured
  (`dispatcher.go:225`).
* An environment does not count ResourceReleaseBindings. When it goes before them,
  their RenderedRelease cannot reach its plane any more, and holds its binding,
  its Resource and its Project (`Stranded` in `Cascade`).
* A component deletes its ComponentReleases together with the ReleaseBindings that pin
  them (`component/controller_finalize.go:58`), and the API deletes a ResourceRelease
  or ProjectRelease that is pinned. The policy of a retained resource whose release
  was deleted is `Delete`. `ReferencedStays` and `RetainHolds` except these.
* A blocked environment and a binding on hold flip their condition on every pass,
  and each flip is an event that brings the next.
* The project's namespaces are looked for in the control plane's cluster
  (`SharedCluster`), and a pass stops at the first one it finds.

### Bounds, and why they are enough

* `mesh`: two connections of one pod, interchangeable and hence under symmetry;
  with a single one every delta determines the whole set, and a skipped delta
  could not be told from an applied one. `mesh_live` has one connection.
* Two pods, of which one owns the agent connections. A pod's record of an owner is
  written only by frames of that owner and by its purge. What several peers share,
  the outbox and `Converged`, is seen with one peer only. `TypeOK` and
  `ViewIsPastState` are proved for any number of pods.
* `MaxSeq` 2: two mutations give a delta, a gap and a snapshot between them.
  `OutboxSize` 1, so that frames are dropped.
* `Socks`: one slot of one direction. Slots are reused, so the number of reconnects
  is not bounded. Instances with both directions (`MaxSeq` 1), and with an old
  socket lingering beside the new one, were explored during development; the
  theorem covers them.
* `CRs` is empty in the runs of `Mesh`: an entry's CRs are carried, never read.
* `Tunnel`: one agent with two connections, so it reconnects once, and one
  request. Two requests competing for one reader were explored during development
  (a million states); the theorems cover any number.
* `Forward`: one owner with two links of one socket each. The candidate list may
  name an owner more than once, as a registry with several agents of one pod does. The
  limit of two attempts is the code's. The request is not safe to repeat; safe
  ones are retried after every failure, and `AtMostOnce` says nothing of them.
* `ConnectionManager`: two connections, two overlapping revalidations, two
  changes of the CA. Connections and tasks are interchangeable, hence the
  symmetry; a CA trusts all connections or none.
* `Stream`: both kinds of stream; two stdin chunks of two bytes through a channel
  of one, read byte by byte, so that chunks are split and the channel overflows;
  two output chunks, the acknowledgement and the close through a channel of one,
  so that it fills; one break or GOAWAY, after which the agent may come back and two
  connections are read.
* `RenderedRelease`: a workload of a well-known kind and an object of another
  kind, two generations, one fault. One fault is enough for each call to fail or
  the process to crash there; a second generation makes lists and status stale.
* `WorkflowRun`: two additional resources, so that one of them can fail, and two
  faults, so that a crash can meet a stale cache.
* `EventForwarder`: one resource, as resources do not interact except by filling
  the queue, which has one slot; two workers, so that notifications overtake one
  another; an endpoint that retries and one that does not; three changes, the
  number that creates, updates and deletes; two faults.
* `Cascade`: one environment and two of the three kinds of binding at a time, in
  the two combinations that share a namespace; one fault, or one edit of a policy. A
  tenant says what people may delete (`deletes`): everything at the top, or, for the
  retained resource, the project, its release and its binding. What only the cascade
  has to delete (Component, Resource and the other bindings) is left to it.
* `MaxFaults` bounds everything that is a fault or an outside change; liveness is
  therefore about what happens when these end.

Deadlock is checked in `mesh_live` and `conns`. It is not in `mesh`, where a pod
may exit for good, nor in the others: a bounded number of requests, links,
changes or deletions comes to its end.

### Fairness

* `LiveSpec` of `Mesh`: the goroutine at each end of a socket runs (`ServeFair`);
  discovery, the kubelet's probe and the clock make progress (`ReadyFair`). The
  network owes nothing.
* `Tunnel!FairSpec`: callers and readers run, and a reader notices a connection
  that is no longer up (`handleConnection`'s read deadline, which pongs extend). No
  timeout has to fire and no agent has to answer.
* `Forward!FairSpec`: link loops and callers run; a broken socket fails
  its reader (`serveLink`'s read deadline). No reader of a socket that is up has to
  fail, no timeout has to fire, no owner answers.
* `Stream!FairSpec`: goroutines run, the start and back-pressure timers fire, the
  agent's loop closes a connection it left and dials again. A write to a client that
  has left returns; one to a client that stays need not, and `SessionEndsRequest`
  names this as its premise. The process and the network owe nothing.
* `RenderedRelease!FairSpec`: a queued release is reconciled and a call returns;
  the plane rolls workloads out and finishes deletions.
* `WorkflowRun!FairSpec`: informer, workqueue, clock and timers; the engine starts
  and ends the run; a plane that is missing is registered again.
* `EventForwarder!FairForwarderSpec`: informers and workers run, a send ends (the client has
  a timeout).
* `Cascade!FairSpec`: queued objects are reconciled, the plane finishes deletions,
  and the garbage collector runs. Nobody has to delete, unpromote, edit a policy or
  clear a hold.

The Go scheduler runs every runnable goroutine and controller-runtime's queue
hands out every queued key, which is weak fairness; none of the code's progress
depends on winning a race again and again, so no strong fairness is assumed.

## 4. Proofs

### MeshProofs

For any set of pods, connections, CRs and sockets and any values of the bounds,
from the assumptions named in `Registry` and `Mesh`:

* `TypeCorrect`: `Spec => []TypeOK`, which includes that no outbox exceeds its
  capacity;
* `ViewsArePastStates`: `Spec => []ViewIsPastState`.

`ViewIsPastState` is not inductive: what a pod will believe is decided by frames
that are still queued, held by a goroutine or on the wire. `PastInv`
adds that every one of them is true of its sender's past (`FramesAreTrue`: a
snapshot is `hist` at its number, a delta leads from `hist` at the previous
number to `hist` at its own), and that a pod's past ends in its present
(`HistoryIsPast`). A mutation extends the past and keeps what was true of it;
reading, sending, dropping and losing frames only moves or removes them; and a
delta in sequence, or a snapshot, applied to a view of the past gives another.
The actions that change frames or views have a lemma each or, where two do the
same to the queues, share one (`TakeKeeps`, `SendKeeps`); those that change
neither share `PlainStepsKeep`. `PastInvStep` puts them together.

What a pod remembers of its peers is proved on top of `PastInv`:

* `DrainsStick`: `Spec => []DrainSticks`;
* `ConvergedPodsKnow`: `Spec => []ConvergedKnowsPeers`.

What a pod remembers of a peer can be wiped by a purge, and a DRAINING frame can
arrive long after it was written, on a socket that outlived the link. `PeerInv`
says why neither does harm. `NoticesAreTrue`: every DRAINING in an outbox or on a
socket is of a pod that no longer serves. `DrainsAreFinal`: a running pod that
heard of a drain and has lost the flag purged that peer, which is then neither
linked nor an endpoint; a pod that drains is never an endpoint again, so
discovery cannot bring it back. `AnswersAreKept`: whoever answered with a snapshot
and was not purged since has an entry in the registry. The purge is the only step
that takes entries away, and it marks the peers it takes (`ReconcileKeepsPeers`).

### DeliveryProofs: the tunnel

`DeliveryProofs` extends `Tunnel` and `EventForwarder`, whose specification is named
`ForwarderSpec` so that the two do not clash.

For any agents, connections and requests, from the assumptions of `Tunnel`:

* `TunnelInvariant`: `Spec => []TunnelInv`, and from it `TypeCorrect`,
  `NoStaleEntries` (`PendingIsAwaited`) and `RepliesAlwaysFit` (`RepliesFit`);
* `TunnelImplementsExchange`: `Spec => ImplementsExchange`, that is, every step of
  the tunnel is a step of `Exchange` or leaves it as it is.

`TunnelInv` adds to these properties that whoever needs a connection has one
(`ConnsThere`), that nothing has happened to what has not started (`NotYet`), that
a reader holds replies only for entries it took, each of a request nobody else
can still answer (`HandsClean`), and that what is on the way to an agent was sent
once and has not run, while what comes back from it has (`RunsOnce`). The last one
is what the refinement needs: an agent may run a request after its caller gave up,
but not after it was refused. There is one lemma per action; `StepRefines` maps a
step to the abstract one under the invariant.

### DeliveryProofs: the event forwarder

For any resources, endpoints, workers and sizes, from the assumptions of
`EventForwarder`:

* `ForwarderInvariant`: `ForwarderSpec => []ForwarderInv`, and from it
  `ForwarderTypeCorrect` (`ForwarderTypeOK`) and `QuietConsumersAreCurrent`
  (`QuietIsCurrent`).

`QuietIsCurrent` speaks of a moment when nothing is on its way. `KnownUpToWatch`
extends it to moments when informer events are still unhandled but none was
handed on: if all of these are updates, the consumer already knows whether the
resource exists. So an update may be debounced without making more than the
version stale, while an add or a delete, never debounced, is handed on or given up.

### ConnectionManagerProofs

For any connections, CRs, client CAs, concurrent revalidations and any `Trusts`,
from the assumptions of `ConnectionManager`: the bounds are numbers, the
connections are finitely many, the key of the plane is none of its CRs, and there
is at least one CR (`verifyClientCertificatePerCR` turns away the agents of a plane
without any):

* `TypesHold`: `Spec => []TypeInv`, and from it `TypeCorrect` (`TypeOK`);
* `CursorsAreBacked`: `Spec => []CursorsBacked`;
* `TurnsAreTakenInOrder`: `Spec => []TurnsAreFair`;
* `SomebodyIsNext`: `Spec => []NextIsThere`, that is, the cursor is at exactly one of
  the connections that may serve a CR whenever there is one.

`TypeOK` bounds every cursor by the number of connections. `TypeInv` adds that a
connection is listed once (`ListedOnce`) and only while its handler serves it
(`ListedServe`), so that `Register` cannot list it again, and that a revalidation
has revoked nothing before its loop and has a connection at hand while it
publishes (`TasksInv`). `CursorsBacked` is inductive over `TypeInv`: whoever takes a
CR's last connection away sweeps its cursor in the same step, or is a revalidation
that has `removed` set until it does.

`TurnsAreFair` is not inductive: that nobody has had two turns does not say whose
turn is next. `Round(cr)` does. Those who may serve `cr`, in the order of the list,
have positions (`Ahead`); the connections chosen since that set last changed are
the `k` right behind the cursor, modulo their number, each chosen once, for some
`k` that is less than that number. `RoundAdvances` shows that `GetForCR` extends
them by the one at the cursor, or starts again when all have been chosen. A step
that changes the set starts a new round (`NewRounds`), for which any cursor
will do, and a step that does not leaves positions and cursor as they were: a
registration appends, a departure of another closes a gap behind which the order is
the same, and a cursor is deleted only if nobody serves its CR. Positions are
distinct numbers below the size of the set (`RanksDiffer`), so that each of these
numbers is the position of somebody (`RanksFill`); this is also why the model may
speak of positions where the code indexes the list `validConns`.

### ForwardProofs

For any owners, requests, candidate lists, links and websockets, from the
assumptions of `Forward`:

* `ForwardInvariant`: `Spec => []ForwardInv`, and from it `TypeCorrect`,
  `UnsafeRunsAtMostOnce` (`AtMostOnce`) and `NobodyIsStranded`
  (`NoForwardStranded`).

`AtMostOnce` counts the runs of both attempts, and is not inductive: what keeps
the second from being a repetition is what is known of the first when it is
given up. `RetriedNeverRan` says it: of a request that is not safe to repeat, the
first attempt is over, has not run and cannot any more, because it was never
written (`UnsentUntilWritten`) or the owner refused it (`NoAgentIsRefusal`).
`AttemptsInOrder` keeps the attempts apart. For the waiters, `OneSocket` says that
a link has at most one websocket that is not closed, the one it publishes while
it serves it; `OnDialled` that an attempt's websocket is one of its link's; and
`WaitersPending` that who waits without an answer is in the pending map, where a
loop that closes its websocket finds it. The steps of the links come first, then
those of an attempt: all its moves share `MovesKeeps` and all its endings
`EndsKeeps`. The look-up picks the first other owner as the least of a set of
positions, so that no induction over the candidate list is needed.

### CascadeProofs

For any environments, bindings of any kind, and tenants with whatever people may
delete of them, from `CascadeAssumption` (names are distinct, every binding has a
kind and an environment):

* `CascadeInvariant`: `Spec => []CascadeInv`, and from it `TypeCorrect`,
  `ReleasesReachTheirPlane` (`EnvironmentOutlivesReleases`),
  `CascadeLeavesNothing` (`NothingLeftBehind`) and `ReferencesResolve`
  (`ReferencedStays`);
* `RetainIsHonoured`: `Spec => RetainHolds`, the action property.

Between the pass in which a finalizer finds nothing left to wait for and the
write that removes it, other controllers run. `InOrder` therefore speaks of
objects that are *leaving*: gone, or about to have their finalizer removed. What
such an object waits for (`WaitsFor`, one line per controller) is gone for good,
unless people deleted it themselves.
`Unreferenced` says the same of environments and pipelines, `ReleasesFirst` of
bindings and their RenderedRelease, `NoPlaneNoRelease` of tenants without a data
plane. `InCells` says that what a release has on the plane is in a namespace some
release of its cell still has. For `RetainHolds`, a binding that is to be kept
(`Kept`: by its own policy, or by that of a release nobody deleted by hand) has
`effectiveRetainPolicy` Retain: by `InOrder` the cascade leaves the ResourceRelease
until the bindings are gone (`KeptIsRetained`). So no finalizer touches its
RenderedRelease or its binding (`OwnersSpare`, `BindingsSpare`, `OthersSpare`).
The lemmas `ObjectsKeep`, `LeavingKeeps`, `GoneKeeps`, `CascadesKeeps`,
`ReleaseKeeps` and `PlaneKeeps` each cover the actions that change the same part
of the state.

### RenderedReleaseProofs

For any manifests, kinds, intervals, generations and faults, from the assumptions
of `RenderedRelease`:

* `ReleaseInvariant`: `Spec => []ReleaseInv`, and from it `TypeCorrect`,
  `StatusIsCurrent` (`HealthIsCurrent`) and `PlaneIsGuarded`: whatever is on the
  plane of a release that is not gone, the release has its finalizer;
* `PlaneIsCleared`: for a data plane, `Spec => []NothingLeftBehind`. On an
  observability plane only kinds of the recorded inventory are listed, so objects
  of a reconcile that never recorded them are not covered, and the theorem says
  nothing of it;
* `NothingIsTakenBack`: `Spec => NeverTakenBack`, an action property that no run
  lists: no write made from an old copy restores an earlier spec or undoes a
  deletion.

`NothingLeftBehind` needs that nothing was applied before the finalizer was there
(`FinalizerFirst`) and that between the list of a finalization and the write that
ends it no object of a well-known kind appears (`ListedIsAll`). `HealthIsCurrent`
needs that a list never shows a content newer than the copy of the spec it is
judged against: `snapshotPrecedesApply` only excludes older ones.
`ContentsInOrder` gives it, and with it that an edit leaves every older content
behind. `CopyIsCurrent` ties an accepted write to the release it was computed
from. All reconciles that end share `ReturnKeeps`, all changes of the plane alone
`PlaneKeeps`, the steps that move a reconcile on `JobKeeps`.

### WorkflowRunProofs

For any additional resources and number of faults, with and without a TTL, from
the assumptions of `WorkflowRun`:

* `WorkflowInvariant`: `Spec => []WorkflowInv`, and from it `TypeCorrect`,
  `OutcomesAreTrue` (`OutcomeIsTrue`) and `NothingRecordedStays`
  (`RecordedIsCleanedUp`);
* `OutcomesStand`: `Spec => []OutcomeStands`;
* `OutcomesAreFinal`: `Spec => OutcomeIsFinal`, the action property.

A reconcile works on a copy from a cache that lags, so the properties are stated
of every copy: `CopiesFit` says that the object, the cache and the reconcile's
copy report only what was seen (`Honest`) and record things only under the
finalizer (`UnderFinalizer`). `JobFits` ties the place a reconcile has reached to
the phase and outcome of its copy, and `Current` says what a copy whose write
will be accepted shares with the object. `CleansUp` follows what a
finalizer has still to delete, and says that nothing is recorded of an object
that is gone while a stale cache can still lead to a creation (`MayCreate`).

`OutcomeStands` has an invariant of its own, `RunStands`, on top of `WorkflowInv`:
only a reconcile whose copy lacks the reference to the run sets the run to pending
(`Applying`); whoever publishes the run's outcome read the reference from the cache;
and the cache never goes back. So while an outcome is published, in the object or in
the cache, no reconcile is `Applying` and none will be.

### StreamProofs

For either kind of stream, any number and size of chunks, any capacities and any
number of breaks, from the assumptions of `Stream`:

* `StreamInvariant`: `Spec => []StreamInv`, and from it `TypeCorrect`,
  `OutputIsInOrder` (`OutputInOrder`), `NormalCloseIsLast`
  (`NormalCloseIsComplete`) and `StdinIsInOrder` (`StdinInOrder`).

What the client gets next is decided by what the session holds and what is on the
wires, so the invariant speaks of both together: `Line(c)` is the chunk being written,
then `fromAgent`, then connection `c`'s queue. `Chained` holds whatever happens, for
every connection: the numbers of the chunks sent on it grow along the line, and
exceed those the client has. Losing chunks keeps it (`ChainThin`), and so do taking
the first, reading another connection into the session, and adding the next.
`Carries` says that a queue holds only its connection's chunks, which is why a
reader of one does not disturb the order of another. While the connection holds and
nothing was dropped, `OnTheWay` says more: the line of the first connection is exactly
what was sent and is not yet delivered, with the close chunk, if there is one, at its
end. A close at the head of the line therefore means that nothing is missing
(`WayClose`). A chunk that the read loop drops because the session is done is no gap,
for then the client is gone.

For stdin, `ReadFrom(c)` says that `c` whole chunks have left the pipe's channel,
that their bytes were read or are buffered, and that the channel continues with
chunk `c + 1`; `SentAfter` that the wire continues where the channel ends. The read
loop writes to the buffer only when the channel is full, which is the overflow
that `StdinInOrder` excludes. `StartsOnce` says that the init message is
read once and that nothing flows before the session is active.

### Model-checked only

Liveness stays with TLC: the proof system has no rules for fairness. Every
other property of the passing runs is proved: all invariants, the action properties
`OutcomeIsFinal` and `RetainHolds` and the refinement `ImplementsExchange`.

The type invariants of `Tunnel`, `Forward`, `Cascade`, `RenderedRelease`,
`WorkflowRun` and `Stream` are proved but are not among the properties of the runs.

## 5. What is not modelled

* Inside the gateway: the HTTP front (paths, headers, status codes other than
  the two errors a failed forward ends in), plane events on the mesh, the
  rebalancer and the pace of the drain, a container restarted under the same
  pod name, the locks below the grain of one critical section, and several
  streams and requests sharing one connection.
* Controllers: creation and promotion (auto-deploy, the cutting of releases,
  re-creation of bindings while a tenant is deleted), undeploy, the plane
  controllers' notifications and their client cache, alerts, and readiness
  conditions. Rendering is a pure function of its inputs and taken as such.
* In `Cascade`, lists read from caches that lag; in `RenderedRelease`, the
  namespaces ensured on an observability plane and restarts by annotation.
* The remote agent router, the JWKS cache and the CLI's token refresh: small
  caches that are independent of the rest.
* X.509 verification, JSON, TLS and Kubernetes' own behaviour are constants or
  external actions.
* Generated code (deepcopy functions, API clients and servers), which is the
  larger part of the repository's lines, and the API server, the observer and the
  CLI, which pass requests through.
