-------------------------------- MODULE Mesh --------------------------------
(***************************************************************************)
(* The gateway mesh (internal/cluster-gateway/fabric/mesh.go): every pod   *)
(* dials every other pod it discovers, numbers the mutations of its own    *)
(* connection set, broadcasts them as deltas, and repairs gaps with        *)
(* snapshots.  A websocket is a pair of ends, the dialer's and the         *)
(* acceptor's; each end has one reader goroutine.  Deltas of a pod travel  *)
(* on the sockets it dialed, snapshots on any socket.                      *)
(***************************************************************************)
EXTENDS Registry, Sequences

CONSTANTS
  Home,        \* the pod each agent connection terminates on
  Stopping,    \* pods that may shut down or crash
  Flaky,       \* pods whose readiness probe may fail while they are up
  Old,         \* pods past meshConvergeGrace from the start
  Slow,        \* pods whose meshConvergeGrace may run out
  OutboxSize,  \* capacity of the outbox channel
  Socks        \* bound: the websockets there can be at a time, each a dialer, an
               \* acceptor and a slot that is reused once both ends are closed

ASSUME HomeAssumption == Home \in [Conns -> Pods]
ASSUME OldAssumption == Old \subseteq Pods
ASSUME OutboxAssumption == OutboxSize \in Nat
ASSUME SocksAssumption == Socks \subseteq Pods \X Pods \X Nat

Ends == Socks \X {"dialer", "acceptor"}

DrainingFrame == [type : {"draining"}, pod : Pods]
SnapshotReq == [type |-> "snapshot_req"]
Frame == Delta \cup Snapshot \cup DrainingFrame \cup {SnapshotReq}

VARIABLES
  \* one pod as an owner
  status,         \* "up", "draining" or "dead"
  localSeq,
  localEntries,
  outbox,
  hist,           \* history: hist[o][n] is what o owned after its n-th mutation
  \* one pod as an observer
  owners,         \* owners[p][o]: Registry.owners[o] of pod p
  links,          \* the peers a pod keeps a link to; also its knownPeers
  peersSeen,      \* pods whose discovery has reported
  snapshotsFrom,
  graceOver,      \* pods past meshConvergeGrace
  purged,         \* history: the owners a pod has purged
  heardDraining,  \* history: the owners whose DRAINING a pod has handled
  \* discovery and the network
  endpoints,      \* the ready endpoints of the mesh Service
  up,             \* sockets whose connection is alive
  attached,       \* sockets that are the current ws of their dialer's link
  pc,             \* what the goroutine at an end is doing
  held,           \* the snapshot it has taken and not yet sent
  inq             \* frames on the way to an end

ownerVars == <<status, localSeq, localEntries, outbox, hist>>
observerVars == <<owners, links, peersSeen, snapshotsFrom, graceOver, purged, heardDraining>>
netVars == <<endpoints, up, attached, pc, held, inq>>
vars == <<ownerVars, observerVars, netVars>>

\* The pod whose goroutine serves an end, the pod at the far end, the far end.
PodAt(e) == IF e[2] = "dialer" THEN e[1][1] ELSE e[1][2]
PeerAt(e) == IF e[2] = "dialer" THEN e[1][2] ELSE e[1][1]
Far(e) == <<e[1], IF e[2] = "dialer" THEN "acceptor" ELSE "dialer">>

\* What held contains when there is nothing to send.
NothingHeld(e) == [type |-> "snapshot_rsp", owner |-> PodAt(e), seq |-> 0, entries |-> {}]

OwnerTypes ==
  /\ status \in [Pods -> {"up", "draining", "dead"}]
  /\ localSeq \in [Pods -> 0 .. MaxSeq]
  /\ localEntries \in [Pods -> SUBSET Entry]
  /\ outbox \in [Pods -> Seq(Frame)]
  /\ \A p \in Pods : Len(outbox[p]) <= OutboxSize
  /\ hist \in [Pods -> [0 .. MaxSeq -> SUBSET Entry]]

ObserverTypes ==
  /\ owners \in [Pods -> [Pods -> OwnerState]]
  /\ links \in [Pods -> SUBSET Pods]
  /\ peersSeen \in SUBSET Pods
  /\ snapshotsFrom \in [Pods -> SUBSET Pods]
  /\ graceOver \in SUBSET Pods
  /\ purged \in [Pods -> SUBSET Pods]
  /\ heardDraining \in [Pods -> SUBSET Pods]

NetTypes ==
  /\ endpoints \in SUBSET Pods
  /\ up \in SUBSET Socks
  /\ attached \in SUBSET Socks
  /\ pc \in [Ends -> {"closed", "push", "pushing", "serve", "replying"}]
  /\ held \in [Ends -> Snapshot]
  /\ inq \in [Ends -> Seq(Frame)]

(***************************************************************************)
(* Every variable holds what its counterpart in the code can hold, and no  *)
(* outbox more frames than its channel (Mesh, peerLink, enqueueLocked).    *)
(***************************************************************************)
TypeOK == OwnerTypes /\ ObserverTypes /\ NetTypes

Init ==
  /\ status = [p \in Pods |-> "up"]
  /\ localSeq = [p \in Pods |-> 0]
  /\ localEntries = [p \in Pods |-> {}]
  /\ outbox = [p \in Pods |-> << >>]
  /\ hist = [p \in Pods |-> [n \in 0 .. MaxSeq |-> {}]]
  /\ owners = [p \in Pods |-> [o \in Pods |-> NoOwner]]
  /\ links = [p \in Pods |-> {}]
  /\ peersSeen = {}
  /\ snapshotsFrom = [p \in Pods |-> {}]
  /\ graceOver = Old
  /\ purged = [p \in Pods |-> {}]
  /\ heardDraining = [p \in Pods |-> {}]
  /\ endpoints = {}
  /\ up = {}
  /\ attached = {}
  /\ pc = [e \in Ends |-> "closed"]
  /\ held = [e \in Ends |-> NothingHeld(e)]
  /\ inq = [e \in Ends |-> << >>]

-----------------------------------------------------------------------------
Running(p) == status[p] # "dead"
Open(e) == pc[e] # "closed"

\* enqueueLocked: a full outbox drops the frame.
EnqueueOneMore(box, f) == IF Len(box) <= OutboxSize THEN Append(box, f) ELSE box

Enqueue(box, f) == IF Len(box) < OutboxSize THEN Append(box, f) ELSE box

\* wsLink.send: a frame written to a lost connection reaches nobody.
Sent(s, queue, frames) == IF s \in up THEN queue \o frames ELSE queue

LocalSnapshot(p) ==
  [type |-> "snapshot_rsp", owner |-> p, seq |-> localSeq[p], entries |-> localEntries[p]]

-----------------------------------------------------------------------------
\* This pod as an owner.

\* One numbered mutation of p's own entries, queued as a delta.
MutateLocal(p, op, entry) ==
  LET d == [type |-> "delta", op |-> op, owner |-> p, seq |-> localSeq[p] + 1, entry |-> entry]
      after == Mutate(localEntries[p], d)
  IN  /\ Running(p)
      /\ localSeq[p] < MaxSeq
      /\ localSeq' = [localSeq EXCEPT ![p] = @ + 1]
      /\ localEntries' = [localEntries EXCEPT ![p] = after]
      /\ outbox' = [outbox EXCEPT ![p] = Enqueue(@, d)]
      /\ hist' = [hist EXCEPT ![p][localSeq[p] + 1] = after]
      /\ UNCHANGED <<status, observerVars, netVars>>

LocalUpsert(p, c, crs) ==
  /\ Home[c] = p
  /\ MutateLocal(p, "add", [conn |-> c, crs |-> crs])

LocalRemove(p, c) ==
  /\ \E x \in localEntries[p] : x.conn = c
  /\ MutateLocal(p, "remove", [conn |-> c, crs |-> {}])

\* The start of a graceful shutdown: readiness drops, DRAINING is queued.
Drain(p) ==
  /\ p \in Stopping
  /\ status[p] = "up"
  /\ status' = [status EXCEPT ![p] = "draining"]
  /\ outbox' = [outbox EXCEPT ![p] = Enqueue(@, [type |-> "draining", pod |-> p])]
  /\ UNCHANGED <<localSeq, localEntries, hist, observerVars, netVars>>

\* The process ends, by completing its shutdown or by crashing: its memory is
\* gone and every socket it held is closed.
Exit(p) ==
  /\ p \in Stopping
  /\ Running(p)
  /\ status' = [status EXCEPT ![p] = "dead"]
  /\ outbox' = [outbox EXCEPT ![p] = << >>]
  /\ owners' = [owners EXCEPT ![p] = [o \in Pods |-> NoOwner]]
  /\ links' = [links EXCEPT ![p] = {}]
  /\ snapshotsFrom' = [snapshotsFrom EXCEPT ![p] = {}]
  /\ peersSeen' = peersSeen \ {p}
  /\ up' = {s \in up : p \notin {s[1], s[2]}}
  /\ attached' = {s \in attached : s[1] # p}
  /\ pc' = [e \in Ends |-> IF PodAt(e) = p THEN "closed" ELSE pc[e]]
  /\ held' = [e \in Ends |-> IF PodAt(e) = p THEN NothingHeld(e) ELSE held[e]]
  /\ inq' = [e \in Ends |-> IF PodAt(e) = p THEN << >> ELSE inq[e]]
  /\ UNCHANGED <<localSeq, localEntries, hist, graceOver, purged, heardDraining, endpoints>>

\* runBroadcaster: the oldest frame goes to every link that is up.
Broadcast(p) ==
  /\ Running(p)
  /\ outbox[p] # << >>
  /\ outbox' = [outbox EXCEPT ![p] = Tail(@)]
  /\ inq' = [e \in Ends |->
               IF e[2] = "acceptor" /\ e[1] \in attached /\ PeerAt(e) = p
                 THEN Sent(e[1], inq[e], <<Head(outbox[p])>>)
                 ELSE inq[e]]
  /\ UNCHANGED <<status, localSeq, localEntries, hist, observerVars, endpoints, up, attached,
                 pc, held>>

-----------------------------------------------------------------------------
\* Discovery.

\* A peer set that differs from the last one reported reaches p: links to
\* departed peers are dropped (their goroutine will close the socket) and their
\* entries purged; new peers get links.
ReconcilePeers(p) ==
  LET want == endpoints \ {p}
      gone == links[p] \ want
  IN  /\ Running(p)
      /\ p \notin peersSeen \/ want # links[p]
      /\ peersSeen' = peersSeen \cup {p}
      /\ links' = [links EXCEPT ![p] = want]
      /\ attached' = {s \in attached : ~(s[1] = p /\ s[2] \in gone)}
      /\ owners' = [owners EXCEPT ![p] =
                      [o \in Pods |-> IF o \in gone THEN PurgeOwner(@[o]) ELSE @[o]]]
      /\ purged' = [purged EXCEPT ![p] = @ \cup gone]
      /\ UNCHANGED <<ownerVars, snapshotsFrom, graceOver, heardDraining, endpoints, up,
                     pc, held, inq>>

\* Converged: every known peer has sent a snapshot, or the grace is over.
HeardFromDiscovery(p) == p \in peersSeen

HeardFromAll(p) == p \in peersSeen /\ links[p] \subseteq snapshotsFrom[p]
ConvergedNoGrace(p) == HeardFromAll(p)

Converged(p) == HeardFromAll(p) \/ p \in graceOver

GraceExpires(p) ==
  /\ p \in Slow
  /\ Running(p)
  /\ p \notin graceOver
  /\ graceOver' = graceOver \cup {p}
  /\ UNCHANGED <<ownerVars, owners, links, peersSeen, snapshotsFrom, purged,
                 heardDraining, netVars>>

\* handleReady answers the kubelet's probe; the endpoint controller follows.
BecomeReady(p) ==
  /\ p \notin endpoints
  /\ status[p] = "up"
  /\ Converged(p)
  /\ endpoints' = endpoints \cup {p}
  /\ UNCHANGED <<ownerVars, observerVars, up, attached,
                 pc, held, inq>>

BecomeUnready(p) ==
  /\ p \in endpoints
  /\ status[p] # "up" \/ ~Converged(p) \/ p \in Flaky
  /\ endpoints' = endpoints \ {p}
  /\ UNCHANGED <<ownerVars, observerVars, up, attached,
                 pc, held, inq>>

-----------------------------------------------------------------------------
\* Links.

\* runLink dials q, introduces itself with HELLO and publishes the socket.
Dial(p, q) ==
  LET free == {s \in Socks : s[1] = p /\ s[2] = q /\ ~Open(<<s, "dialer">>) /\ ~Open(<<s, "acceptor">>)}
  IN  /\ Running(p) /\ Running(q)
      /\ q \in links[p]
      /\ ~\E t \in attached : t[1] = p /\ t[2] = q
      /\ \E s \in free :
           /\ \A t \in free : s[3] <= t[3]
           /\ up' = up \cup {s}
           /\ attached' = attached \cup {s}
           /\ pc' = [pc EXCEPT ![<<s, "dialer">>] = "push", ![<<s, "acceptor">>] = "serve"]
      /\ UNCHANGED <<ownerVars, observerVars, endpoints, held, inq>>

\* runLink takes the snapshot it pushes on a fresh socket ...
TakeSnapshot(e) ==
  /\ pc[e] = "push"
  /\ held' = [held EXCEPT ![e] = LocalSnapshot(PodAt(e))]
  /\ pc' = [pc EXCEPT ![e] = "pushing"]
  /\ UNCHANGED <<ownerVars, observerVars, endpoints, up, attached, inq>>

\* ... sends it, asks for the peer's, and starts reading.
PushSnapshot(e) ==
  /\ pc[e] = "pushing"
  /\ inq' = [inq EXCEPT ![Far(e)] = Sent(e[1], @, <<held[e], SnapshotReq>>)]
  /\ pc' = [pc EXCEPT ![e] = "serve"]
  /\ held' = [held EXCEPT ![e] = NothingHeld(e)]
  /\ UNCHANGED <<ownerVars, observerVars, endpoints, up, attached>>

\* handleFrame, one action per frame type.  A frame already delivered is
\* handled even when the connection has been lost meanwhile.
Receives(e, type) ==
  /\ pc[e] = "serve"
  /\ inq[e] # << >>
  /\ Head(inq[e]).type = type

HandleDeltaNoRepair(e) ==
  LET p == PodAt(e)
      d == Head(inq[e])
      fits == InSequence(owners[p][d.owner], d)
  IN  /\ Receives(e, "delta")
      /\ d.owner = PeerAt(e)
      /\ owners' = [owners EXCEPT ![p][d.owner] = IF fits THEN ApplyDelta(@, d) ELSE @]
      /\ inq' = [inq EXCEPT ![e] = Tail(@)]
      /\ UNCHANGED <<ownerVars, links, peersSeen, snapshotsFrom, graceOver, purged,
                     heardDraining, endpoints, up, attached, pc, held>>

\* A delta out of sequence is dropped and answered by a snapshot request on
\* the same socket.
HandleDelta(e) ==
  LET p == PodAt(e)
      d == Head(inq[e])
      fits == InSequence(owners[p][d.owner], d)
      ask == IF fits THEN << >> ELSE <<SnapshotReq>>
  IN  /\ Receives(e, "delta")
      /\ d.owner = PeerAt(e)
      /\ owners' = [owners EXCEPT ![p][d.owner] = IF fits THEN ApplyDelta(@, d) ELSE @]
      /\ inq' = [inq EXCEPT ![e] = Tail(@), ![Far(e)] = Sent(e[1], @, ask)]
      /\ UNCHANGED <<ownerVars, links, peersSeen, snapshotsFrom, graceOver, purged,
                     heardDraining, endpoints, up, attached, pc, held>>

HandleSnapshotReq(e) ==
  /\ Receives(e, "snapshot_req")
  /\ inq' = [inq EXCEPT ![e] = Tail(@)]
  /\ held' = [held EXCEPT ![e] = LocalSnapshot(PodAt(e))]
  /\ pc' = [pc EXCEPT ![e] = "replying"]
  /\ UNCHANGED <<ownerVars, observerVars, endpoints, up, attached>>

SendReply(e) ==
  /\ pc[e] = "replying"
  /\ inq' = [inq EXCEPT ![Far(e)] = Sent(e[1], @, <<held[e]>>)]
  /\ pc' = [pc EXCEPT ![e] = "serve"]
  /\ held' = [held EXCEPT ![e] = NothingHeld(e)]
  /\ UNCHANGED <<ownerVars, observerVars, endpoints, up, attached>>

HandleSnapshotRsp(e) ==
  LET p == PodAt(e)
      s == Head(inq[e])
  IN  /\ Receives(e, "snapshot_rsp")
      /\ s.owner = PeerAt(e)
      /\ inq' = [inq EXCEPT ![e] = Tail(@)]
      /\ owners' = [owners EXCEPT ![p][s.owner] = ApplySnapshot(@, s)]
      /\ snapshotsFrom' = [snapshotsFrom EXCEPT ![p] = @ \cup {s.owner}]
      /\ UNCHANGED <<ownerVars, links, peersSeen, graceOver, purged, heardDraining,
                     endpoints, up, attached, pc, held>>

HandleDraining(e) ==
  LET p == PodAt(e)
      o == Head(inq[e]).pod
  IN  /\ Receives(e, "draining")
      /\ o = PeerAt(e)
      /\ inq' = [inq EXCEPT ![e] = Tail(@)]
      /\ owners' = [owners EXCEPT ![p][o] = SetDraining(@)]
      /\ heardDraining' = [heardDraining EXCEPT ![p] = @ \cup {o}]
      /\ UNCHANGED <<ownerVars, links, peersSeen, snapshotsFrom, graceOver, purged,
                     endpoints, up, attached, pc, held>>

\* The connection is lost, or closed by the goroutine of a dropped link.
Lose(s) ==
  /\ s \in up
  /\ up' = up \ {s}
  /\ UNCHANGED <<ownerVars, observerVars, endpoints, attached, pc, held, inq>>

\* The reader at an end meets the error; what it had not read is dropped, and
\* the dialer's link has no socket until the next dial.
ReaderEnds(e) ==
  /\ pc[e] = "serve"
  /\ e[1] \notin up
  /\ pc' = [pc EXCEPT ![e] = "closed"]
  /\ inq' = [inq EXCEPT ![e] = << >>]
  /\ attached' = IF e[2] = "dialer" THEN attached \ {e[1]} ELSE attached
  /\ UNCHANGED <<ownerVars, observerVars, endpoints, up, held>>

-----------------------------------------------------------------------------
PodStep(p) ==
  \/ \E c \in Conns, crs \in SUBSET CRs : LocalUpsert(p, c, crs)
  \/ \E c \in Conns : LocalRemove(p, c)
  \/ Drain(p)
  \/ Exit(p)
  \/ Broadcast(p)
  \/ ReconcilePeers(p)
  \/ GraceExpires(p)
  \/ BecomeReady(p)
  \/ BecomeUnready(p)
  \/ \E q \in Pods : Dial(p, q)

Serve(e) ==
  \/ TakeSnapshot(e)
  \/ PushSnapshot(e)
  \/ HandleDelta(e)
  \/ HandleSnapshotReq(e)
  \/ SendReply(e)
  \/ HandleSnapshotRsp(e)
  \/ HandleDraining(e)
  \/ ReaderEnds(e)

Next ==
  \/ \E p \in Pods : PodStep(p)
  \/ \E e \in Ends : Serve(e)
  \/ \E s \in Socks : Lose(s)

Spec == Init /\ [][Next]_vars

\* The goroutine at each end of a socket runs.
ServeFair == \A e \in Ends : WF_vars(Serve(e))

\* Discovery and the kubelet report changes and the clock advances.  The
\* network owes nothing: it may lose every connection, every time.
ReadyFair ==
  \A p \in Pods :
    WF_vars(ReconcilePeers(p)) /\ WF_vars(GraceExpires(p)) /\ WF_vars(BecomeReady(p))

LiveSpec == Spec /\ ServeFair /\ ReadyFair

-----------------------------------------------------------------------------
(***************************************************************************)
(* What a pod believes an owner holds is what that owner held after the    *)
(* mutation it is numbered with: deltas and snapshots arriving over        *)
(* several sockets, lost, delayed or overtaken, never combine into a set   *)
(* of connections the owner did not have (ApplyDelta, ApplySnapshot,       *)
(* LocalUpsert, LocalRemove).                                              *)
(***************************************************************************)
ViewIsPastState ==
  \A p, o \in Pods :
    /\ owners[p][o].seq <= localSeq[o]
    /\ owners[p][o].entries = hist[o][owners[p][o].seq]

(***************************************************************************)
(* A pod that has handled DRAINING from a peer it still links to keeps     *)
(* excluding it from lookups, whatever snapshots and deltas of that peer   *)
(* arrive afterwards (SetDraining, ApplySnapshot, ApplyDelta,              *)
(* reconcilePeers).                                                        *)
(***************************************************************************)
DrainSticks ==
  \A p \in Pods : \A o \in links[p] \cap heardDraining[p] : owners[p][o].draining

(***************************************************************************)
(* A pod that reports converged before the grace is over has a registry    *)
(* state for every peer it knows, unless it has purged that peer before    *)
(* (Converged, reconcilePeers, handleFrame).                               *)
(***************************************************************************)
ConvergedKnowsPeers ==
  \A p \in Pods : HeardFromAll(p) => \A o \in links[p] \ purged[p] : owners[p][o].exists

(***************************************************************************)
(* A delta that reaches a reader brings that pod's view of the owner up to *)
(* the delta's number, at once or through the snapshot the gap makes it    *)
(* request on the same socket, unless the socket is lost (handleFrame,     *)
(* ApplyDelta).                                                            *)
(***************************************************************************)
DeltaCatchesUp ==
  \A s \in Socks, n \in 1 .. MaxSeq :
    (Receives(<<s, "acceptor">>, "delta") /\ Head(inq[<<s, "acceptor">>]).seq = n)
      ~> (owners[s[2]][s[1]].seq >= n \/ s \notin up)

(***************************************************************************)
(* No peer can keep a healthy pod out of the Service: a pod that is up     *)
(* becomes a ready endpoint even if every link keeps failing (Converged,   *)
(* meshConvergeGrace).                                                     *)
(***************************************************************************)
ReadyEventually ==
  \A p \in Pods : []<>(status[p] = "up" => p \in endpoints)

-----------------------------------------------------------------------------
\* Why ViewIsPastState holds: the strengthening that is inductive.

\* A pod's numbered past ends in its present.
HistoryIsPast ==
  \A o \in Pods : hist[o][0] = {} /\ hist[o][localSeq[o]] = localEntries[o]

\* The snapshots and deltas that are true of o's past.
GoodSnapshots(o) ==
  {s \in Snapshot : s.owner = o /\ s.seq <= localSeq[o] /\ s.entries = hist[o][s.seq]}
GoodDeltas(o) ==
  {d \in Delta : /\ d.owner = o /\ d.seq <= localSeq[o]
                 /\ hist[o][d.seq] = Mutate(hist[o][d.seq - 1], d)}
GoodFrames(o) == GoodSnapshots(o) \cup GoodDeltas(o) \cup DrainingFrame \cup {SnapshotReq}

\* Whatever is queued, held or on the way is true of its sender's past.
FramesAreTrue ==
  /\ \A o \in Pods : outbox[o] \in Seq(GoodFrames(o))
  /\ \A e \in Ends : held[e] \in GoodSnapshots(PodAt(e)) /\ inq[e] \in Seq(GoodFrames(PeerAt(e)))

(***************************************************************************)
(* Every frame a pod has queued, taken or sent describes its own numbered  *)
(* past, and so does every view built from such frames (LocalUpsert,       *)
(* localSnapshot, runBroadcaster, handleFrame).                            *)
(***************************************************************************)
PastInv == TypeOK /\ HistoryIsPast /\ FramesAreTrue /\ ViewIsPastState


-----------------------------------------------------------------------------
\* Why DrainSticks and ConvergedKnowsPeers hold.

\* The frames of which no DRAINING is of a pod that still serves.
TrueFrames == {f \in Frame : f.type = "draining" => status[f.pod] # "up"}

NoticesAreTrue ==
  /\ \A p \in Pods : outbox[p] \in Seq(TrueFrames)
  /\ \A e \in Ends : inq[e] \in Seq(TrueFrames)

\* A running pod forgets that a peer drains only by purging it, and that peer is
\* no longer, and never again will be, an endpoint.
DrainsAreFinal ==
  \A p \in Pods :
    /\ ~Running(p) => links[p] = {}
    /\ \A o \in heardDraining[p] :
         /\ status[o] # "up"
         /\ Running(p) /\ ~owners[p][o].draining => o \notin links[p] \cup (endpoints \ {p})

AnswersAreKept ==
  \A p \in Pods : \A o \in snapshotsFrom[p] \ purged[p] : owners[p][o].exists

(***************************************************************************)
(* DRAINING is announced only by a pod that has stopped being ready for    *)
(* good, and what was heard of a peer is forgotten only by purging it      *)
(* (Drain, SetDraining, reconcilePeers, handleFrame).                      *)
(***************************************************************************)
PeerInv == NoticesAreTrue /\ DrainsAreFinal /\ AnswersAreKept
=============================================================================
