----------------------------- MODULE MeshProofs -----------------------------
(***************************************************************************)
(* Proofs about Mesh, for any pods, connections, sockets and bounds.       *)
(***************************************************************************)
EXTENDS Mesh, TLAPS

-----------------------------------------------------------------------------
\* Facts about ends, sequences and the registry's operators.

(* Each end has a pod and a far end, which is where its peer's frames come
   from (wsLink: two goroutines per websocket). *)
LEMMA EndFacts ==
  ASSUME NEW e \in Ends
  PROVE  /\ e[1] \in Socks
         /\ PodAt(e) \in Pods /\ PeerAt(e) \in Pods
         /\ Far(e) \in Ends /\ Far(e) # e
         /\ PodAt(Far(e)) = PeerAt(e) /\ PeerAt(Far(e)) = PodAt(e)
BY SocksAssumption DEF Ends, PodAt, PeerAt, Far

(* Queues stay queues of the same kind of frame when a frame is read,
   appended or dropped (runBroadcaster, enqueueLocked, wsLink.send). *)
LEMMA QueueFacts ==
  ASSUME NEW S, NEW q \in Seq(S)
  PROVE  /\ << >> \in Seq(S)
         /\ q # << >> => Head(q) \in S /\ Tail(q) \in Seq(S)
         /\ \A f \in S : Append(q, f) \in Seq(S) /\ q \o <<f>> \in Seq(S)
         /\ \A f, g \in S : q \o <<f, g>> \in Seq(S)
         /\ q \o << >> \in Seq(S)
         /\ \A T : S \subseteq T => q \in Seq(T)
OBVIOUS

(* A mutation of an entry map gives an entry map (ApplyDelta, LocalUpsert,
   LocalRemove). *)
LEMMA MutateType ==
  ASSUME NEW entries \in SUBSET Entry, NEW d, d.entry \in Entry
  PROVE  Mutate(entries, d) \in SUBSET Entry
BY DEF Mutate, Put, Del

(* Tails, heads and drops under the outbox bound (enqueueLocked). *)
LEMMA EnqueueFacts ==
  ASSUME NEW S, NEW q \in Seq(S), NEW f \in S, Len(q) <= OutboxSize
  PROVE  Enqueue(q, f) \in Seq(S) /\ Len(Enqueue(q, f)) <= OutboxSize
BY OutboxAssumption DEF Enqueue

(* Variables a step leaves alone keep their types. *)
LEMMA UnchangedTypes ==
  ASSUME TypeOK
  PROVE  /\ UNCHANGED ownerVars => OwnerTypes'
         /\ UNCHANGED observerVars => ObserverTypes'
         /\ UNCHANGED netVars => NetTypes'
<1>1. UNCHANGED ownerVars => OwnerTypes'
  BY DEF TypeOK, OwnerTypes, ownerVars
<1>2. UNCHANGED observerVars => ObserverTypes'
  BY DEF TypeOK, ObserverTypes, observerVars
<1>3. UNCHANGED netVars => NetTypes'
  BY DEF TypeOK, NetTypes, netVars
<1>4. QED
  BY <1>1, <1>2, <1>3

(* Only a mutation of o changes which frames are true of o's past. *)
LEMMA NoMutation ==
  ASSUME UNCHANGED <<localSeq, hist>>, NEW o
  PROVE  GoodSnapshots(o)' = GoodSnapshots(o) /\ GoodFrames(o)' = GoodFrames(o)
BY DEF GoodSnapshots, GoodDeltas, GoodFrames

(* The frames that are true of o's past are frames. *)
LEMMA GoodIsFrame ==
  ASSUME NEW o
  PROVE  GoodFrames(o) \subseteq Frame /\ GoodSnapshots(o) \subseteq GoodFrames(o)
BY DEF GoodSnapshots, GoodDeltas, GoodFrames, Frame

(* A frame's type field tells what it is (meshFrame). *)
LEMMA FrameTypes ==
  ASSUME NEW o, NEW f \in GoodFrames(o)
  PROVE  /\ f.type = "delta" => f \in GoodDeltas(o)
         /\ f.type = "snapshot_rsp" => f \in GoodSnapshots(o)
<1>1. \A d \in GoodDeltas(o) : d.type = "delta"
  BY DEF GoodDeltas, Delta
<1>2. \A s \in GoodSnapshots(o) : s.type = "snapshot_rsp"
  BY DEF GoodSnapshots, Snapshot
<1>3. \A d \in DrainingFrame : d.type = "draining"
  BY DEF DrainingFrame
<1>4. SnapshotReq.type = "snapshot_req"
  BY DEF SnapshotReq
<1>5. QED
  BY <1>1, <1>2, <1>3, <1>4 DEF GoodFrames

(* What localSnapshot returns is true of its pod's past. *)
LEMMA LocalSnapshotIsGood ==
  ASSUME TypeOK, HistoryIsPast, NEW p \in Pods
  PROVE  LocalSnapshot(p) \in GoodSnapshots(p)
BY DEF TypeOK, OwnerTypes, HistoryIsPast, LocalSnapshot, GoodSnapshots, Snapshot

(* Nothing held is the empty snapshot, true of every past. *)
LEMMA NothingHeldIsGood ==
  ASSUME TypeOK, HistoryIsPast, NEW e \in Ends
  PROVE  NothingHeld(e) \in GoodSnapshots(PodAt(e))
<1>1. PodAt(e) \in Pods
  BY EndFacts
<1>2. NothingHeld(e) \in Snapshot
  BY <1>1, MaxSeqAssumption DEF NothingHeld, Snapshot
<1>3. /\ NothingHeld(e).owner = PodAt(e)
      /\ NothingHeld(e).seq = 0 /\ NothingHeld(e).entries = {}
  BY DEF NothingHeld
<1>4. 0 <= localSeq[PodAt(e)] /\ hist[PodAt(e)][0] = {}
  BY <1>1, MaxSeqAssumption DEF TypeOK, OwnerTypes, HistoryIsPast
<1>5. QED
  BY <1>2, <1>3, <1>4 DEF GoodSnapshots

(* Initially no pod has a past and nothing is on the way (NewMesh). *)
LEMMA PastInvInit == Init => PastInv
<1> SUFFICES ASSUME Init PROVE PastInv
  OBVIOUS
<1>1. \A e \in Ends : NothingHeld(e) \in Snapshot
  BY EndFacts, MaxSeqAssumption DEF NothingHeld, Snapshot
<1>2. TypeOK
  <2>1. OwnerTypes
    BY MaxSeqAssumption, OutboxAssumption DEF Init, OwnerTypes
  <2>2. ObserverTypes
    BY MaxSeqAssumption, OldAssumption DEF Init, ObserverTypes, NoOwner, OwnerState
  <2>3. NetTypes
    BY <1>1 DEF Init, NetTypes
  <2>4. QED
    BY <2>1, <2>2, <2>3 DEF TypeOK
<1>3. HistoryIsPast
  BY MaxSeqAssumption DEF Init, HistoryIsPast
<1>4. FramesAreTrue
  <2>1. \A e \in Ends : held[e] \in GoodSnapshots(PodAt(e))
    BY <1>2, <1>3, NothingHeldIsGood DEF Init
  <2>2. QED
    BY <2>1 DEF Init, FramesAreTrue
<1>5. ViewIsPastState
  BY MaxSeqAssumption DEF Init, ViewIsPastState, NoOwner
<1>6. QED
  BY <1>2, <1>3, <1>4, <1>5 DEF PastInv

-----------------------------------------------------------------------------
\* One lemma per action: it preserves the invariant.

(* A numbered mutation extends the past by one (LocalUpsert, LocalRemove). *)
LEMMA MutateLocalKeeps ==
  ASSUME PastInv, NEW p \in Pods, NEW op \in {"add", "remove"}, NEW entry \in Entry,
         MutateLocal(p, op, entry)
  PROVE  PastInv'
<1> USE DEF PastInv
<1> DEFINE n == localSeq[p] + 1
           d == [type |-> "delta", op |-> op, owner |-> p, seq |-> n, entry |-> entry]
           after == Mutate(localEntries[p], d)
<1>1. /\ n \in 1 .. MaxSeq /\ localSeq[p] \in 0 .. MaxSeq
      /\ localSeq' = [localSeq EXCEPT ![p] = n]
      /\ localEntries' = [localEntries EXCEPT ![p] = after]
      /\ outbox' = [outbox EXCEPT ![p] = Enqueue(@, d)]
      /\ hist' = [hist EXCEPT ![p][n] = after]
      /\ UNCHANGED <<status, observerVars, netVars>>
  BY MaxSeqAssumption DEF MutateLocal, TypeOK, OwnerTypes
<1>2. d \in Delta /\ d.entry \in Entry
  BY <1>1 DEF Delta
<1>3. after \in SUBSET Entry
  BY <1>2, MutateType, Zenon DEF TypeOK, OwnerTypes
<1>4. /\ \A o \in Pods, m \in 0 .. MaxSeq : m <= localSeq[o] => hist'[o][m] = hist[o][m]
      /\ \A o \in Pods : localSeq[o] <= localSeq'[o]
      /\ localSeq'[p] = n /\ hist'[p][n] = after
      /\ hist'[p][n - 1] = localEntries[p]
  BY <1>1, MaxSeqAssumption DEF TypeOK, OwnerTypes, HistoryIsPast
<1> HIDE DEF n, d, after
<1>5. \A o \in Pods : GoodSnapshots(o) \subseteq GoodSnapshots(o)'
  <2> SUFFICES ASSUME NEW o \in Pods, NEW x \in GoodSnapshots(o)
               PROVE  x \in GoodSnapshots(o)'
    OBVIOUS
  <2>1. x \in Snapshot /\ x.owner = o /\ x.seq <= localSeq[o] /\ x.entries = hist[o][x.seq]
    BY DEF GoodSnapshots
  <2>2. x.seq \in 0 .. MaxSeq
    BY <2>1 DEF Snapshot
  <2>3. localSeq[o] \in Nat /\ localSeq'[o] \in Nat
    BY <1>1, MaxSeqAssumption DEF TypeOK, OwnerTypes
  <2>4. x.seq <= localSeq'[o] /\ x.entries = hist'[o][x.seq]
    BY <1>4, <2>1, <2>2, <2>3, MaxSeqAssumption
  <2>5. QED
    BY <2>1, <2>4 DEF GoodSnapshots
<1>6. \A o \in Pods : GoodDeltas(o) \subseteq GoodDeltas(o)'
  <2> SUFFICES ASSUME NEW o \in Pods, NEW x \in GoodDeltas(o)
               PROVE  x \in GoodDeltas(o)'
    OBVIOUS
  <2>1. /\ x \in Delta /\ x.owner = o /\ x.seq <= localSeq[o]
        /\ hist[o][x.seq] = Mutate(hist[o][x.seq - 1], x)
    BY DEF GoodDeltas
  <2>6. x.seq \in 1 .. MaxSeq
    BY <2>1 DEF Delta
  <2>2. localSeq[o] \in Nat /\ localSeq'[o] \in Nat
    BY <1>1, MaxSeqAssumption DEF TypeOK, OwnerTypes
  <2>3. hist'[o][x.seq] = hist[o][x.seq] /\ hist'[o][x.seq - 1] = hist[o][x.seq - 1]
    BY <1>4, <2>1, <2>2, <2>6, MaxSeqAssumption
  <2>4. x.seq <= localSeq'[o]
    BY <1>4, <2>1, <2>2, <2>6, MaxSeqAssumption
  <2>5. QED
    BY <2>1, <2>3, <2>4 DEF GoodDeltas
<1>7. \A o \in Pods : GoodFrames(o) \subseteq GoodFrames(o)'
  BY <1>5, <1>6 DEF GoodFrames
<1>8. d \in GoodFrames(p)'
  <2>1. d.owner = p /\ d.seq = n /\ n <= localSeq'[p] /\ n - 1 = localSeq[p]
    BY <1>1, <1>4, MaxSeqAssumption DEF d, n
  <2>2. hist'[p][d.seq] = Mutate(hist'[p][d.seq - 1], d)
    BY <2>1, <1>4 DEF after
  <2>3. QED
    BY <1>2, <2>1, <2>2 DEF GoodFrames, GoodDeltas
<1>9. TypeOK'
  <2>1. d \in Frame
    BY <1>2 DEF Frame
  <2>2. Enqueue(outbox[p], d) \in Seq(Frame) /\ Len(Enqueue(outbox[p], d)) <= OutboxSize
    BY <2>1, EnqueueFacts DEF TypeOK, OwnerTypes
  <2>3. outbox' \in [Pods -> Seq(Frame)] /\ \A o \in Pods : Len(outbox'[o]) <= OutboxSize
    BY <1>1, <2>2 DEF TypeOK, OwnerTypes
  <2>4. /\ localSeq' \in [Pods -> 0 .. MaxSeq] /\ localEntries' \in [Pods -> SUBSET Entry]
        /\ hist' \in [Pods -> [0 .. MaxSeq -> SUBSET Entry]]
    BY <1>1, <1>3, MaxSeqAssumption DEF TypeOK, OwnerTypes
  <2>5. OwnerTypes'
    BY <1>1, <2>3, <2>4 DEF TypeOK, OwnerTypes
  <2>6. QED
    BY <1>1, <2>5, UnchangedTypes DEF TypeOK
<1>10. HistoryIsPast'
  BY <1>1, <1>4, MaxSeqAssumption DEF HistoryIsPast, TypeOK, OwnerTypes
<1>11. FramesAreTrue'
  <2>1. \A o \in Pods : outbox'[o] \in Seq(GoodFrames(o)')
    <3> TAKE o \in Pods
    <3>1. outbox[o] \in Seq(GoodFrames(o)')
      BY <1>7, QueueFacts DEF FramesAreTrue
    <3>2. CASE o = p
      <4>1. Enqueue(outbox[p], d) \in Seq(GoodFrames(p)')
        BY <3>1, <3>2, <1>8, EnqueueFacts DEF TypeOK, OwnerTypes
      <4>2. QED
        BY <4>1, <3>2, <1>1 DEF TypeOK, OwnerTypes
    <3>3. QED
      BY <3>1, <3>2, <1>1 DEF TypeOK, OwnerTypes
  <2>2. \A e \in Ends : inq'[e] \in Seq(GoodFrames(PeerAt(e))') /\ held'[e] \in GoodSnapshots(PodAt(e))'
    <3> TAKE e \in Ends
    <3>1. PodAt(e) \in Pods /\ PeerAt(e) \in Pods
      BY EndFacts
    <3>2. inq[e] \in Seq(GoodFrames(PeerAt(e))')
      BY <3>1, <1>7, QueueFacts DEF FramesAreTrue
    <3>3. held[e] \in GoodSnapshots(PodAt(e))'
      BY <3>1, <1>5 DEF FramesAreTrue
    <3>4. QED
      BY <3>2, <3>3, <1>1 DEF netVars
  <2>3. QED
    BY <2>1, <2>2 DEF FramesAreTrue, PodAt, PeerAt
<1>12. ViewIsPastState'
  <2> SUFFICES ASSUME NEW q \in Pods, NEW o \in Pods
               PROVE  /\ owners[q][o].seq <= localSeq'[o]
                      /\ owners[q][o].entries = hist'[o][owners[q][o].seq]
    BY <1>1 DEF ViewIsPastState, observerVars
  <2>1. owners[q][o] \in OwnerState
    BY DEF TypeOK, ObserverTypes
  <2>2. owners[q][o].seq \in 0 .. MaxSeq
    BY <2>1 DEF OwnerState
  <2>3. localSeq[o] \in Nat /\ localSeq'[o] \in Nat
    BY <1>9, MaxSeqAssumption DEF TypeOK, OwnerTypes
  <2>4. QED
    BY <2>2, <2>3, <1>4, MaxSeqAssumption DEF ViewIsPastState
<1>13. QED
  BY <1>9, <1>10, <1>11, <1>12

\* A registry state of owner o that is true of o's past.
GoodViews(o) ==
  {st \in OwnerState : st.seq <= localSeq[o] /\ st.entries = hist[o][st.seq]}

(* A step that mutates no pod's connections keeps the invariant if it puts
   only true frames in queues and only true views in registries. *)
LEMMA OtherStepKeeps ==
  ASSUME PastInv, UNCHANGED <<localSeq, localEntries, hist>>, TypeOK',
         \A o \in Pods : outbox'[o] \in Seq(GoodFrames(o)),
         \A e \in Ends : inq'[e] \in Seq(GoodFrames(PeerAt(e))),
         \A e \in Ends : held'[e] \in GoodSnapshots(PodAt(e)),
         \A p, o \in Pods : owners'[p][o] \in GoodViews(o)
  PROVE  PastInv'
<1>1. HistoryIsPast'
  BY DEF PastInv, HistoryIsPast
<1>2. FramesAreTrue'
  BY NoMutation DEF FramesAreTrue, PodAt, PeerAt
<1>3. ViewIsPastState'
  BY DEF ViewIsPastState, GoodViews
<1>4. QED
  BY <1>1, <1>2, <1>3 DEF PastInv

(* What the invariant says of one queue, held snapshot or view. *)
LEMMA PastInvFacts ==
  ASSUME PastInv
  PROVE  /\ \A o \in Pods : outbox[o] \in Seq(GoodFrames(o))
         /\ \A e \in Ends : inq[e] \in Seq(GoodFrames(PeerAt(e)))
         /\ \A e \in Ends : held[e] \in GoodSnapshots(PodAt(e))
         /\ \A p, o \in Pods : owners[p][o] \in GoodViews(o)
         /\ \A o \in Pods : NoOwner \in GoodViews(o)
<1>1. \A p, o \in Pods : owners[p][o] \in GoodViews(o)
  BY DEF PastInv, TypeOK, ObserverTypes, ViewIsPastState, GoodViews
<1>2. ASSUME NEW o \in Pods PROVE NoOwner \in GoodViews(o)
  <2>1. NoOwner \in OwnerState /\ NoOwner.seq = 0 /\ NoOwner.entries = {}
    BY MaxSeqAssumption DEF NoOwner, OwnerState
  <2>2. 0 <= localSeq[o] /\ hist[o][0] = {}
    BY MaxSeqAssumption DEF PastInv, TypeOK, OwnerTypes, HistoryIsPast
  <2>3. QED
    BY <2>1, <2>2 DEF GoodViews
<1>3. QED
  BY <1>1, <1>2 DEF PastInv, FramesAreTrue

(* What the type invariant says of the queues and registries. *)
LEMMA TypeFacts ==
  ASSUME PastInv
  PROVE  /\ TypeOK
         /\ outbox \in [Pods -> Seq(Frame)]
         /\ owners \in [Pods -> [Pods -> OwnerState]]
         /\ held \in [Ends -> Snapshot]
         /\ inq \in [Ends -> Seq(Frame)]
BY DEF PastInv, TypeOK, OwnerTypes, ObserverTypes, NetTypes

(* A frame written to a socket keeps the far queue true (wsLink.send). *)
LEMMA SentFacts ==
  ASSUME NEW S, NEW q \in Seq(S), NEW s, NEW fs \in Seq(S)
  PROVE  Sent(s, q, fs) \in Seq(S)
BY DEF Sent

(* Steps that touch neither queues nor registries (Converged, handleReady,
   dial, the kubelet, the network). *)
LEMMA PlainStepsKeep ==
  ASSUME PastInv,
         \/ \E p \in Pods : GraceExpires(p) \/ BecomeReady(p) \/ BecomeUnready(p)
         \/ \E p, q \in Pods : Dial(p, q)
         \/ \E s \in Socks : Lose(s)
  PROVE  PastInv'
<1>1. UNCHANGED <<localSeq, localEntries, outbox, hist, owners, held, inq, status, links, snapshotsFrom, purged, heardDraining>>
  BY DEF GraceExpires, BecomeReady, BecomeUnready, Dial, Lose, ownerVars, observerVars, netVars
<1>2. TypeOK'
  <2>1. OwnerTypes'
    BY <1>1, TypeFacts, UnchangedTypes DEF ownerVars
  <2>2. ObserverTypes'
    BY <1>1, TypeFacts DEF TypeOK, ObserverTypes, GraceExpires, BecomeReady, BecomeUnready, Dial,
       Lose, observerVars
  <2>3. NetTypes'
    <3>1. CASE \E p \in Pods : GraceExpires(p) \/ BecomeReady(p) \/ BecomeUnready(p)
      BY <3>1, TypeFacts DEF TypeOK, NetTypes, GraceExpires, BecomeReady, BecomeUnready, netVars
    <3>2. CASE \E p, q \in Pods : Dial(p, q)
      BY <3>2, TypeFacts, Zenon DEF TypeOK, NetTypes, Dial, Ends
    <3>3. CASE \E s \in Socks : Lose(s)
      BY <3>3, TypeFacts DEF TypeOK, NetTypes, Lose
    <3>4. QED
      BY <3>1, <3>2, <3>3
  <2>4. QED
    BY <2>1, <2>2, <2>3 DEF TypeOK
<1>3. QED
  BY <1>1, <1>2, PastInvFacts, OtherStepKeeps

(* Shutdown queues one frame (Drain). *)
LEMMA DrainKeeps ==
  ASSUME PastInv, NEW p \in Pods, Drain(p)
  PROVE  PastInv'
<1> DEFINE f == [type |-> "draining", pod |-> p]
<1>1. f \in GoodFrames(p) /\ f \in Frame
  BY DEF GoodFrames, Frame, DrainingFrame
<1>2. /\ Enqueue(outbox[p], f) \in Seq(GoodFrames(p))
      /\ Enqueue(outbox[p], f) \in Seq(Frame)
      /\ Len(Enqueue(outbox[p], f)) <= OutboxSize
  BY <1>1, PastInvFacts, EnqueueFacts, TypeFacts DEF TypeOK, OwnerTypes
<1>3. /\ outbox' = [outbox EXCEPT ![p] = Enqueue(@, f)]
      /\ status' = [status EXCEPT ![p] = "draining"]
      /\ UNCHANGED <<localSeq, localEntries, hist, observerVars, netVars>>
  BY DEF Drain
<1>4. TypeOK'
  <2>1. OwnerTypes'
    BY <1>2, <1>3, TypeFacts DEF TypeOK, OwnerTypes
  <2>2. ObserverTypes'
    BY <1>3, TypeFacts, UnchangedTypes
  <2>3. NetTypes'
    BY <1>3, TypeFacts, UnchangedTypes
  <2>4. QED
    BY <2>1, <2>2, <2>3 DEF TypeOK
<1>5. \A o \in Pods : outbox'[o] \in Seq(GoodFrames(o))
  BY <1>2, <1>3, PastInvFacts, TypeFacts
<1>6. QED
  BY <1>3, <1>4, <1>5, PastInvFacts, OtherStepKeeps, Zenon DEF observerVars, netVars

(* A dead pod's memory and queues are empty. *)
LEMMA ExitKeeps ==
  ASSUME PastInv, NEW p \in Pods, Exit(p)
  PROVE  PastInv'
<1>1. NoOwner \in OwnerState
  BY MaxSeqAssumption DEF NoOwner, OwnerState
<1>2. \A e \in Ends : NothingHeld(e) \in GoodSnapshots(PodAt(e)) /\ NothingHeld(e) \in Snapshot
  BY NothingHeldIsGood DEF PastInv, GoodSnapshots
<1>3. TypeOK'
  <2>1. OwnerTypes'
    <3>1. /\ outbox' = [outbox EXCEPT ![p] = << >>]
          /\ status' = [status EXCEPT ![p] = "dead"]
          /\ UNCHANGED <<localSeq, localEntries, hist>>
      BY DEF Exit
    <3>0. OwnerTypes
      BY TypeFacts DEF TypeOK
    <3>2. << >> \in Seq(Frame) /\ Len(<< >>) <= OutboxSize
      BY OutboxAssumption
    <3>3. outbox' \in [Pods -> Seq(Frame)]
      BY <3>0, <3>1, <3>2, Zenon DEF OwnerTypes
    <3>4. \A q \in Pods : Len(outbox'[q]) <= OutboxSize
      BY <3>0, <3>1, <3>2 DEF OwnerTypes
    <3>5. status' \in [Pods -> {"up", "draining", "dead"}]
      BY <3>0, <3>1 DEF OwnerTypes
    <3>6. QED
      BY <3>0, <3>1, <3>3, <3>4, <3>5 DEF OwnerTypes
  <2>2. ObserverTypes'
    BY <1>1, TypeFacts DEF TypeOK, ObserverTypes, Exit
  <2>3. NetTypes'
    BY <1>2, TypeFacts DEF TypeOK, NetTypes, Exit
  <2>4. QED
    BY <2>1, <2>2, <2>3 DEF TypeOK
<1>4. \A o \in Pods : outbox'[o] \in Seq(GoodFrames(o))
  BY PastInvFacts, TypeFacts DEF Exit
<1>5. \A e \in Ends : inq'[e] \in Seq(GoodFrames(PeerAt(e)))
  BY PastInvFacts DEF Exit
<1>6. \A e \in Ends : held'[e] \in GoodSnapshots(PodAt(e))
  BY <1>2, PastInvFacts DEF Exit
<1>7. \A q, o \in Pods : owners'[q][o] \in GoodViews(o)
  BY PastInvFacts, TypeFacts DEF Exit
<1>8. QED
  BY <1>3, <1>4, <1>5, <1>6, <1>7, OtherStepKeeps DEF Exit

(* The broadcaster moves one true frame from the outbox to the pod's sockets
   (runBroadcaster). *)
LEMMA BroadcastKeeps ==
  ASSUME PastInv, NEW p \in Pods, Broadcast(p)
  PROVE  PastInv'
<1>1. /\ outbox[p] # << >>
      /\ outbox' = [outbox EXCEPT ![p] = Tail(@)]
      /\ UNCHANGED <<status, localSeq, localEntries, hist, observerVars, endpoints, up, attached,
                     pc, held>>
  BY DEF Broadcast
<1>2. /\ Head(outbox[p]) \in GoodFrames(p) /\ Tail(outbox[p]) \in Seq(GoodFrames(p))
      /\ Tail(outbox[p]) \in Seq(Frame) /\ Head(outbox[p]) \in Frame
  BY <1>1, PastInvFacts, QueueFacts, TypeFacts
<1>3. Len(Tail(outbox[p])) <= OutboxSize
  BY <1>1, OutboxAssumption, TypeFacts DEF TypeOK, OwnerTypes
<1>4. ASSUME NEW e \in Ends
      PROVE  inq'[e] \in Seq(GoodFrames(PeerAt(e))) /\ inq'[e] \in Seq(Frame)
  <2>1. inq[e] \in Seq(GoodFrames(PeerAt(e))) /\ inq[e] \in Seq(Frame)
    BY PastInvFacts, TypeFacts
  <2>2. CASE e[2] = "acceptor" /\ e[1] \in attached /\ PeerAt(e) = p
    <3>1. inq'[e] = Sent(e[1], inq[e], <<Head(outbox[p])>>)
      BY <2>2 DEF Broadcast
    <3>2. /\ <<Head(outbox[p])>> \in Seq(GoodFrames(PeerAt(e)))
          /\ <<Head(outbox[p])>> \in Seq(Frame)
      BY <1>2, <2>2
    <3>3. QED
      BY <2>1, <3>1, <3>2, SentFacts, Zenon
  <2>3. CASE ~(e[2] = "acceptor" /\ e[1] \in attached /\ PeerAt(e) = p)
    BY <2>1, <2>3 DEF Broadcast
  <2>4. QED
    BY <2>2, <2>3
<1>5. inq' \in [Ends -> Seq(Frame)]
  BY <1>4 DEF Broadcast
<1>6. TypeOK'
  <2>1. OwnerTypes'
    BY <1>1, <1>2, <1>3, TypeFacts DEF TypeOK, OwnerTypes
  <2>2. ObserverTypes'
    BY <1>1, TypeFacts, UnchangedTypes
  <2>3. NetTypes'
    BY <1>1, <1>5, TypeFacts DEF TypeOK, NetTypes
  <2>4. QED
    BY <2>1, <2>2, <2>3 DEF TypeOK
<1>7. \A o \in Pods : outbox'[o] \in Seq(GoodFrames(o))
  BY <1>1, <1>2, PastInvFacts, TypeFacts
<1>8. QED
  BY <1>1, <1>4, <1>6, <1>7, PastInvFacts, OtherStepKeeps DEF observerVars

(* Purging an owner leaves the empty view, which every owner once had
   (reconcilePeers, PurgeOwner). *)
LEMMA ReconcilePeersKeeps ==
  ASSUME PastInv, NEW p \in Pods, ReconcilePeers(p)
  PROVE  PastInv'
<1> DEFINE gone == links[p] \ (endpoints \ {p})
<1>1. owners' = [owners EXCEPT ![p] = [o \in Pods |-> IF o \in gone THEN NoOwner ELSE @[o]]]
  BY DEF ReconcilePeers, PurgeOwner
<1>2. NoOwner \in OwnerState
  BY MaxSeqAssumption DEF NoOwner, OwnerState
<1>3. owners' \in [Pods -> [Pods -> OwnerState]]
  BY <1>1, <1>2, TypeFacts
<1>4. TypeOK'
  <2>1. OwnerTypes'
    BY TypeFacts, UnchangedTypes DEF ReconcilePeers
  <2>2. ObserverTypes'
    <3>1. /\ links' \in [Pods -> SUBSET Pods]
          /\ peersSeen' \in SUBSET Pods
          /\ purged' \in [Pods -> SUBSET Pods]
      BY TypeFacts DEF TypeOK, ObserverTypes, NetTypes, ReconcilePeers
    <3>2. UNCHANGED <<snapshotsFrom, graceOver, heardDraining>>
      BY DEF ReconcilePeers
    <3>3. QED
      BY <1>3, <3>1, <3>2, TypeFacts DEF TypeOK, ObserverTypes
  <2>3. NetTypes'
    BY TypeFacts DEF TypeOK, NetTypes, ReconcilePeers
  <2>4. QED
    BY <2>1, <2>2, <2>3 DEF TypeOK
<1>5. \A q, o \in Pods : owners'[q][o] \in GoodViews(o)
  BY <1>1, PastInvFacts, TypeFacts
<1>6. QED
  BY <1>4, <1>5, PastInvFacts, OtherStepKeeps DEF ReconcilePeers, ownerVars

(* A snapshot is true when it is taken and stays so until it is sent
   (runLink, handleFrame). *)
LEMMA TakeKeeps ==
  ASSUME PastInv, NEW e \in Ends, TakeSnapshot(e) \/ HandleSnapshotReq(e)
  PROVE  PastInv'
<1>1. /\ held' = [held EXCEPT ![e] = LocalSnapshot(PodAt(e))]
      /\ UNCHANGED <<ownerVars, observerVars, endpoints, up, attached>>
  BY DEF TakeSnapshot, HandleSnapshotReq
<1>2. LocalSnapshot(PodAt(e)) \in GoodSnapshots(PodAt(e)) /\ LocalSnapshot(PodAt(e)) \in Snapshot
  BY EndFacts, LocalSnapshotIsGood DEF PastInv, GoodSnapshots
<1>3. \A x \in Ends : held'[x] \in GoodSnapshots(PodAt(x))
  BY <1>1, <1>2, PastInvFacts, TypeFacts
<1>4. inq' = inq \/ (inq[e] # << >> /\ inq' = [inq EXCEPT ![e] = Tail(@)])
  BY DEF TakeSnapshot, HandleSnapshotReq, Receives
<1>5. ASSUME NEW x \in Ends
      PROVE  inq'[x] \in Seq(GoodFrames(PeerAt(x))) /\ inq'[x] \in Seq(Frame)
  <2>1. inq[x] \in Seq(GoodFrames(PeerAt(x))) /\ inq[x] \in Seq(Frame)
    BY PastInvFacts, TypeFacts
  <2>2. inq'[x] = inq[x] \/ (inq[x] # << >> /\ inq'[x] = Tail(inq[x]))
    BY <1>4, TypeFacts
  <2>3. QED
    BY <2>1, <2>2, QueueFacts, Zenon
<1>6. inq' \in [Ends -> Seq(Frame)]
  BY <1>4, <1>5, TypeFacts
<1>7. pc' \in [Ends -> {"closed", "push", "pushing", "serve", "replying"}]
  BY TypeFacts, Zenon DEF TypeOK, NetTypes, TakeSnapshot, HandleSnapshotReq
<1>8. held' \in [Ends -> Snapshot]
  BY <1>1, <1>2, TypeFacts
<1>9. TypeOK'
  <2>1. OwnerTypes'
    BY <1>1, TypeFacts, UnchangedTypes
  <2>2. ObserverTypes'
    BY <1>1, TypeFacts, UnchangedTypes
  <2>3. NetTypes'
    BY <1>1, <1>6, <1>7, <1>8, TypeFacts DEF TypeOK, NetTypes
  <2>4. QED
    BY <2>1, <2>2, <2>3 DEF TypeOK
<1>10. QED
  BY <1>1, <1>3, <1>5, <1>9, PastInvFacts, OtherStepKeeps, Zenon DEF ownerVars, observerVars

(* Sending what was taken (runLink, handleFrame). *)
LEMMA SendKeeps ==
  ASSUME PastInv, NEW e \in Ends, PushSnapshot(e) \/ SendReply(e)
  PROVE  PastInv'
<1>1. /\ held' = [held EXCEPT ![e] = NothingHeld(e)]
      /\ pc' = [pc EXCEPT ![e] = "serve"]
      /\ UNCHANGED <<ownerVars, observerVars, endpoints, up, attached>>
  BY Zenon DEF PushSnapshot, SendReply
<1>2. PICK fs \in {<<held[e], SnapshotReq>>, <<held[e]>>} :
        inq' = [inq EXCEPT ![Far(e)] = Sent(e[1], @, fs)]
  BY DEF PushSnapshot, SendReply
<1>3. Far(e) \in Ends /\ PeerAt(Far(e)) = PodAt(e)
  BY EndFacts
<1>4. held[e] \in GoodFrames(PodAt(e)) /\ SnapshotReq \in GoodFrames(PodAt(e))
  BY PastInvFacts, GoodIsFrame DEF GoodFrames
<1>5. fs \in Seq(GoodFrames(PodAt(e))) /\ fs \in Seq(Frame)
  <2>1. held[e] \in Frame /\ SnapshotReq \in Frame
    BY <1>4, GoodIsFrame
  <2>2. ASSUME NEW S, held[e] \in S, SnapshotReq \in S
        PROVE  fs \in Seq(S)
    <3>1. <<held[e], SnapshotReq>> \in Seq(S) /\ <<held[e]>> \in Seq(S)
      BY <2>2
    <3>2. QED
      BY <3>1, <1>2, Zenon
  <2>3. QED
    BY <2>1, <2>2, <1>4
<1>6. /\ Sent(e[1], inq[Far(e)], fs) \in Seq(GoodFrames(PodAt(e)))
      /\ Sent(e[1], inq[Far(e)], fs) \in Seq(Frame)
  BY <1>3, <1>5, PastInvFacts, SentFacts, TypeFacts
<1>7. \A x \in Ends : inq'[x] \in Seq(GoodFrames(PeerAt(x)))
  BY <1>2, <1>3, <1>6, PastInvFacts, TypeFacts
<1>8. inq' \in [Ends -> Seq(Frame)]
  BY <1>2, <1>6, TypeFacts, Zenon
<1>9. NothingHeld(e) \in GoodSnapshots(PodAt(e)) /\ NothingHeld(e) \in Snapshot
  BY NothingHeldIsGood DEF PastInv, GoodSnapshots
<1>10. \A x \in Ends : held'[x] \in GoodSnapshots(PodAt(x))
  BY <1>1, <1>9, PastInvFacts, TypeFacts
<1>11. TypeOK'
  <2>1. OwnerTypes'
    BY <1>1, TypeFacts, UnchangedTypes
  <2>2. ObserverTypes'
    BY <1>1, TypeFacts, UnchangedTypes
  <2>3. NetTypes'
    BY <1>1, <1>8, <1>9, TypeFacts DEF TypeOK, NetTypes
  <2>4. QED
    BY <2>1, <2>2, <2>3 DEF TypeOK
<1>12. QED
  BY <1>1, <1>7, <1>10, <1>11, PastInvFacts, OtherStepKeeps DEF ownerVars, observerVars

(* What handling one frame does to the queues of a socket: the frame is read
   and at most a snapshot request goes back (handleFrame). *)
LEMMA HandleQueues ==
  ASSUME PastInv, NEW e \in Ends, inq[e] # << >>, NEW ask \in {<< >>, <<SnapshotReq>>},
         inq' = [inq EXCEPT ![e] = Tail(@), ![Far(e)] = Sent(e[1], @, ask)]
  PROVE  /\ \A x \in Ends : inq'[x] \in Seq(GoodFrames(PeerAt(x)))
         /\ inq' \in [Ends -> Seq(Frame)]
<1>1. Far(e) \in Ends /\ Far(e) # e
  BY EndFacts
<1>2. \A x : SnapshotReq \in GoodFrames(x) /\ SnapshotReq \in Frame
  BY DEF GoodFrames, Frame
<1>3. \A S : SnapshotReq \in S => << >> \in Seq(S) /\ <<SnapshotReq>> \in Seq(S)
  OBVIOUS
<1>4. \A x : ask \in Seq(GoodFrames(x)) /\ ask \in Seq(Frame)
  BY <1>2, <1>3, Zenon
<1>5. ASSUME NEW x \in Ends
      PROVE  inq'[x] \in Seq(GoodFrames(PeerAt(x))) /\ inq'[x] \in Seq(Frame)
  <2>1. inq[x] \in Seq(GoodFrames(PeerAt(x))) /\ inq[x] \in Seq(Frame)
    BY PastInvFacts, TypeFacts
  <2>2. CASE x = e
    <3>1. inq'[x] = Tail(inq[x]) /\ inq[x] # << >>
      BY <1>1, <2>2, TypeFacts
    <3>2. Tail(inq[x]) \in Seq(GoodFrames(PeerAt(x))) /\ Tail(inq[x]) \in Seq(Frame)
      BY <2>1, <3>1
    <3>3. QED
      BY <3>1, <3>2, Zenon
  <2>3. CASE x = Far(e)
    <3>1. inq'[x] = Sent(e[1], inq[x], ask)
      BY <1>1, <2>3, TypeFacts
    <3>2. QED
      BY <1>4, <2>1, <3>1, SentFacts
  <2>4. CASE x # e /\ x # Far(e)
    BY <1>1, <2>1, <2>4, TypeFacts
  <2>5. QED
    BY <2>2, <2>3, <2>4
<1>6. QED
  BY <1>5, TypeFacts, Zenon

(* Replacing one observer's view of one owner by another true one keeps every
   view true (ApplyDelta, ApplySnapshot, SetDraining). *)
LEMMA OneView ==
  ASSUME PastInv, NEW p \in Pods, NEW o \in Pods, NEW st \in GoodViews(o),
         owners' = [owners EXCEPT ![p][o] = st]
  PROVE  /\ \A q, x \in Pods : owners'[q][x] \in GoodViews(x)
         /\ owners' \in [Pods -> [Pods -> OwnerState]]
<1>1. owners \in [Pods -> [Pods -> OwnerState]] /\ st \in OwnerState
  BY TypeFacts DEF GoodViews
<1>2. ASSUME NEW q \in Pods, NEW x \in Pods
      PROVE  owners'[q][x] \in GoodViews(x)
  <2>1. owners'[q][x] = IF q = p /\ x = o THEN st ELSE owners[q][x]
    BY <1>1
  <2>2. owners[q][x] \in GoodViews(x)
    BY PastInvFacts
  <2>3. QED
    BY <2>1, <2>2
<1>3. owners' \in [Pods -> [Pods -> OwnerState]]
  BY <1>1
<1>4. QED
  BY <1>2, <1>3

(* A delta in sequence takes a true view of the past to the next one; any
   other is dropped (handleFrame, ApplyDelta). *)
LEMMA HandleDeltaKeeps ==
  ASSUME PastInv, NEW e \in Ends, HandleDelta(e)
  PROVE  PastInv'
<1> DEFINE p == PodAt(e)
           d == Head(inq[e])
           st == owners[p][d.owner]
           fits == InSequence(st, d)
           ask == IF fits THEN << >> ELSE <<SnapshotReq>>
<1>1. /\ inq[e] # << >> /\ d.type = "delta" /\ d.owner = PeerAt(e)
      /\ owners' = [owners EXCEPT ![p][d.owner] = IF fits THEN ApplyDelta(@, d) ELSE @]
      /\ inq' = [inq EXCEPT ![e] = Tail(@), ![Far(e)] = Sent(e[1], @, ask)]
      /\ UNCHANGED <<ownerVars, links, peersSeen, snapshotsFrom, graceOver, purged,
                     heardDraining, endpoints, up, attached, pc, held>>
  BY DEF HandleDelta, Receives
<1>2. p \in Pods /\ PeerAt(e) \in Pods
  BY EndFacts
<1>3. d \in GoodFrames(PeerAt(e))
  BY <1>1, PastInvFacts, QueueFacts
<1>4. d \in GoodDeltas(d.owner) /\ d \in Delta
  BY <1>1, <1>3, FrameTypes DEF GoodDeltas
<1>5. st \in GoodViews(d.owner)
  BY <1>1, <1>2, PastInvFacts
<1> HIDE DEF p, d, st
<1>6. ASSUME fits
      PROVE  ApplyDelta(st, d) \in GoodViews(d.owner)
  <2>1. /\ st \in OwnerState /\ st.draining \in BOOLEAN
        /\ st.seq \in 0 .. MaxSeq /\ st.entries = hist[d.owner][st.seq]
        /\ st.entries \in SUBSET Entry
    BY <1>5 DEF GoodViews, OwnerState
  <2>2. d.seq \in 1 .. MaxSeq /\ d.entry \in Entry
    BY <1>4 DEF Delta
  <2>3. d.seq <= localSeq[d.owner] /\ hist[d.owner][d.seq] = Mutate(hist[d.owner][d.seq - 1], d)
    BY <1>4 DEF GoodDeltas
  <2>4. d.seq - 1 = st.seq
    BY <1>6, <2>1, <2>2, MaxSeqAssumption DEF InSequence
  <2>5. Mutate(st.entries, d) \in SUBSET Entry
    BY <2>1, <2>2, MutateType
  <2>6. Mutate(st.entries, d) = hist[d.owner][d.seq]
    BY <2>1, <2>3, <2>4
  <2>7. ApplyDelta(st, d) \in OwnerState
    <3>1. d.seq \in 0 .. MaxSeq
      BY <2>2, MaxSeqAssumption
    <3>2. QED
      BY <2>1, <2>5, <3>1 DEF ApplyDelta, OwnerState
  <2>8. ApplyDelta(st, d).seq = d.seq /\ ApplyDelta(st, d).entries = Mutate(st.entries, d)
    BY DEF ApplyDelta
  <2>9. QED
    BY <2>3, <2>6, <2>7, <2>8 DEF GoodViews
<1>7. owners' = [owners EXCEPT ![p][d.owner] = IF fits THEN ApplyDelta(st, d) ELSE st]
  BY <1>1 DEF st
<1>8. (IF fits THEN ApplyDelta(st, d) ELSE st) \in GoodViews(d.owner)
  BY <1>5, <1>6
<1>9. d.owner \in Pods
  BY <1>1, <1>2
<1>10. /\ \A q, o \in Pods : owners'[q][o] \in GoodViews(o)
       /\ owners' \in [Pods -> [Pods -> OwnerState]]
  BY <1>2, <1>7, <1>8, <1>9, OneView, Zenon
<1>11. ask \in {<< >>, <<SnapshotReq>>}
  OBVIOUS
<1>12. /\ \A x \in Ends : inq'[x] \in Seq(GoodFrames(PeerAt(x)))
       /\ inq' \in [Ends -> Seq(Frame)]
  BY <1>1, <1>11, HandleQueues, Zenon
<1>13. TypeOK'
  <2>1. OwnerTypes'
    BY <1>1, TypeFacts, UnchangedTypes
  <2>2. ObserverTypes'
    BY <1>1, <1>10, TypeFacts DEF TypeOK, ObserverTypes
  <2>3. NetTypes'
    BY <1>1, <1>12, TypeFacts, Zenon DEF TypeOK, NetTypes
  <2>4. QED
    BY <2>1, <2>2, <2>3 DEF TypeOK
<1>14. QED
  BY <1>1, <1>10, <1>12, <1>13, PastInvFacts, OtherStepKeeps, Zenon DEF ownerVars

(* What reading one frame does to the queues (serveLink). *)
LEMMA ReadQueues ==
  ASSUME PastInv, NEW e \in Ends, inq[e] # << >>, inq' = [inq EXCEPT ![e] = Tail(@)]
  PROVE  /\ \A x \in Ends : inq'[x] \in Seq(GoodFrames(PeerAt(x)))
         /\ inq' \in [Ends -> Seq(Frame)]
<1>1. ASSUME NEW x \in Ends
      PROVE  inq'[x] \in Seq(GoodFrames(PeerAt(x))) /\ inq'[x] \in Seq(Frame)
  <2>1. inq[x] \in Seq(GoodFrames(PeerAt(x))) /\ inq[x] \in Seq(Frame)
    BY PastInvFacts, TypeFacts
  <2>2. inq'[x] = inq[x] \/ (inq[x] # << >> /\ inq'[x] = Tail(inq[x]))
    BY TypeFacts
  <2>3. QED
    BY <2>1, <2>2, QueueFacts
<1>2. QED
  BY <1>1, TypeFacts

(* A snapshot replaces the view by one that is true of its owner's past, be
   it older than the view it replaces (handleFrame, ApplySnapshot). *)
LEMMA HandleSnapshotRspKeeps ==
  ASSUME PastInv, NEW e \in Ends, HandleSnapshotRsp(e)
  PROVE  PastInv'
<1> DEFINE p == PodAt(e)
           s == Head(inq[e])
           st == owners[p][s.owner]
<1>1. /\ inq[e] # << >> /\ s.type = "snapshot_rsp" /\ s.owner = PeerAt(e)
      /\ owners' = [owners EXCEPT ![p][s.owner] = ApplySnapshot(@, s)]
      /\ inq' = [inq EXCEPT ![e] = Tail(@)]
      /\ snapshotsFrom' = [snapshotsFrom EXCEPT ![p] = @ \cup {s.owner}]
      /\ UNCHANGED <<ownerVars, links, peersSeen, graceOver, purged, heardDraining,
                     endpoints, up, attached, pc, held>>
  BY DEF HandleSnapshotRsp, Receives
<1>2. p \in Pods /\ PeerAt(e) \in Pods
  BY EndFacts
<1>3. s \in GoodFrames(PeerAt(e))
  BY <1>1, PastInvFacts, QueueFacts
<1>4. s \in GoodSnapshots(s.owner) /\ s \in Snapshot
  BY <1>1, <1>3, FrameTypes DEF GoodSnapshots
<1>5. st \in OwnerState
  BY <1>1, <1>2, TypeFacts
<1> HIDE DEF p, s, st
<1>6. ApplySnapshot(st, s) \in GoodViews(s.owner)
  <2>1. st.draining \in BOOLEAN /\ s.seq \in 0 .. MaxSeq /\ s.entries \in SUBSET Entry
    BY <1>4, <1>5 DEF OwnerState, Snapshot
  <2>2. s.seq <= localSeq[s.owner] /\ s.entries = hist[s.owner][s.seq]
    BY <1>4 DEF GoodSnapshots
  <2>3. ApplySnapshot(st, s) \in OwnerState
    BY <2>1 DEF ApplySnapshot, OwnerState
  <2>4. ApplySnapshot(st, s).seq = s.seq /\ ApplySnapshot(st, s).entries = s.entries
    BY DEF ApplySnapshot
  <2>5. QED
    BY <2>2, <2>3, <2>4 DEF GoodViews
<1>7. owners' = [owners EXCEPT ![p][s.owner] = ApplySnapshot(st, s)]
  BY <1>1 DEF st
<1>8. s.owner \in Pods
  BY <1>1, <1>2
<1>9. /\ \A q, o \in Pods : owners'[q][o] \in GoodViews(o)
      /\ owners' \in [Pods -> [Pods -> OwnerState]]
  BY <1>2, <1>6, <1>7, <1>8, OneView, Zenon
<1>10. /\ \A x \in Ends : inq'[x] \in Seq(GoodFrames(PeerAt(x)))
       /\ inq' \in [Ends -> Seq(Frame)]
  BY <1>1, ReadQueues, Zenon
<1>11. snapshotsFrom' \in [Pods -> SUBSET Pods]
  BY <1>1, <1>2, TypeFacts DEF TypeOK, ObserverTypes
<1>12. TypeOK'
  <2>1. OwnerTypes'
    BY <1>1, TypeFacts, UnchangedTypes
  <2>2. ObserverTypes'
    BY <1>1, <1>9, <1>11, TypeFacts, Zenon DEF TypeOK, ObserverTypes
  <2>3. NetTypes'
    BY <1>1, <1>10, TypeFacts DEF TypeOK, NetTypes
  <2>4. QED
    BY <2>1, <2>2, <2>3 DEF TypeOK
<1>13. QED
  BY <1>1, <1>9, <1>10, <1>12, PastInvFacts, OtherStepKeeps DEF ownerVars

(* DRAINING changes no entries (handleFrame, SetDraining). *)
LEMMA HandleDrainingKeeps ==
  ASSUME PastInv, NEW e \in Ends, HandleDraining(e)
  PROVE  PastInv'
<1> DEFINE p == PodAt(e)
           o == Head(inq[e]).pod
           st == owners[p][o]
<1>1. /\ inq[e] # << >> /\ o = PeerAt(e)
      /\ owners' = [owners EXCEPT ![p][o] = SetDraining(@)]
      /\ inq' = [inq EXCEPT ![e] = Tail(@)]
      /\ heardDraining' = [heardDraining EXCEPT ![p] = @ \cup {o}]
      /\ UNCHANGED <<ownerVars, links, peersSeen, snapshotsFrom, graceOver, purged,
                     endpoints, up, attached, pc, held>>
  BY DEF HandleDraining, Receives
<1>2. p \in Pods /\ o \in Pods
  BY <1>1, EndFacts
<1>3. st \in GoodViews(o)
  BY <1>2, PastInvFacts
<1> HIDE DEF p, o, st
<1>4. SetDraining(st) \in GoodViews(o)
  BY <1>3, Zenon DEF SetDraining, GoodViews, OwnerState
<1>5. owners' = [owners EXCEPT ![p][o] = SetDraining(st)]
  BY <1>1 DEF st
<1>7. /\ \A q, x \in Pods : owners'[q][x] \in GoodViews(x)
      /\ owners' \in [Pods -> [Pods -> OwnerState]]
  BY <1>2, <1>4, <1>5, OneView, Zenon
<1>8. /\ \A x \in Ends : inq'[x] \in Seq(GoodFrames(PeerAt(x)))
      /\ inq' \in [Ends -> Seq(Frame)]
  BY <1>1, ReadQueues, Zenon
<1>9. heardDraining' \in [Pods -> SUBSET Pods]
  BY <1>1, <1>2, TypeFacts DEF TypeOK, ObserverTypes
<1>10. TypeOK'
  <2>1. OwnerTypes'
    BY <1>1, TypeFacts, UnchangedTypes
  <2>2. ObserverTypes'
    BY <1>1, <1>7, <1>9, TypeFacts DEF TypeOK, ObserverTypes
  <2>3. NetTypes'
    BY <1>1, <1>8, TypeFacts DEF TypeOK, NetTypes
  <2>4. QED
    BY <2>1, <2>2, <2>3 DEF TypeOK
<1>11. QED
  BY <1>1, <1>7, <1>8, <1>10, PastInvFacts, OtherStepKeeps DEF ownerVars

(* A reader that ends drops what it had not read (serveLink). *)
LEMMA ReaderEndsKeeps ==
  ASSUME PastInv, NEW e \in Ends, ReaderEnds(e)
  PROVE  PastInv'
<1>1. TypeOK'
  <2>1. OwnerTypes'
    BY TypeFacts, UnchangedTypes DEF ReaderEnds
  <2>2. ObserverTypes'
    BY TypeFacts, UnchangedTypes DEF ReaderEnds
  <2>3. pc' \in [Ends -> {"closed", "push", "pushing", "serve", "replying"}]
    BY DEF PastInv, TypeOK, NetTypes, ReaderEnds
  <2>4. inq' \in [Ends -> Seq(Frame)]
    <3>1. << >> \in Seq(Frame)
      OBVIOUS
    <3>2. QED
      BY <3>1, TypeFacts DEF ReaderEnds
  <2>5. endpoints' = endpoints /\ up' = up /\ held' = held /\ attached' \subseteq attached
    BY DEF ReaderEnds
  <2>6. NetTypes'
    BY <2>3, <2>4, <2>5, TypeFacts DEF TypeOK, NetTypes
  <2>7. QED
    BY <2>1, <2>2, <2>6 DEF TypeOK
<1>2. ASSUME NEW x \in Ends PROVE inq'[x] \in Seq(GoodFrames(PeerAt(x)))
  <2>1. inq'[x] = inq[x] \/ inq'[x] = << >>
    BY TypeFacts DEF ReaderEnds
  <2>2. inq[x] \in Seq(GoodFrames(PeerAt(x)))
    BY PastInvFacts
  <2>3. << >> \in Seq(GoodFrames(PeerAt(x)))
    OBVIOUS
  <2>4. QED
    BY <2>1, <2>2, <2>3
<1>3. QED
  BY <1>1, <1>2, PastInvFacts, OtherStepKeeps DEF ReaderEnds, ownerVars, observerVars

-----------------------------------------------------------------------------
(* Every step of every pod, reader and the network keeps the invariant. *)
LEMMA PastInvStep == PastInv /\ [Next]_vars => PastInv'
<1> SUFFICES ASSUME PastInv, [Next]_vars PROVE PastInv'
  OBVIOUS
<1>1. CASE \E p \in Pods : PodStep(p)
  <2> PICK p \in Pods : PodStep(p)
    BY <1>1
  <2>1. ASSUME NEW c \in Conns, NEW crs \in SUBSET CRs, LocalUpsert(p, c, crs)
        PROVE  PastInv'
    <3>1. [conn |-> c, crs |-> crs] \in Entry
      BY DEF Entry
    <3>2. MutateLocal(p, "add", [conn |-> c, crs |-> crs])
      BY <2>1 DEF LocalUpsert
    <3>3. QED
      BY <3>1, <3>2, MutateLocalKeeps
  <2>2. ASSUME NEW c \in Conns, LocalRemove(p, c)
        PROVE  PastInv'
    <3>1. [conn |-> c, crs |-> {}] \in Entry
      BY DEF Entry
    <3>2. MutateLocal(p, "remove", [conn |-> c, crs |-> {}])
      BY <2>2, Zenon DEF LocalRemove
    <3>3. QED
      BY <3>1, <3>2, MutateLocalKeeps
  <2>3. QED
    BY <2>1, <2>2, DrainKeeps, ExitKeeps, BroadcastKeeps, ReconcilePeersKeeps, PlainStepsKeep
    DEF PodStep
<1>2. CASE \E e \in Ends : Serve(e)
  BY <1>2, TakeKeeps, SendKeeps, HandleDeltaKeeps, HandleSnapshotRspKeeps, HandleDrainingKeeps,
     ReaderEndsKeeps DEF Serve
<1>3. CASE \E s \in Socks : Lose(s)
  BY <1>3, PlainStepsKeep
<1>4. CASE UNCHANGED vars
  <2>1. UNCHANGED <<status, localSeq, localEntries, outbox, hist, owners, links, peersSeen,
                    snapshotsFrom, graceOver, purged, heardDraining, endpoints, up, attached, pc,
                    held, inq>>
    BY <1>4 DEF vars, ownerVars, observerVars, netVars
  <2>2. TypeOK'
    BY <1>4, TypeFacts, UnchangedTypes DEF vars, TypeOK
  <2>3. QED
    BY <2>1, <2>2, PastInvFacts, OtherStepKeeps
<1>5. QED
  BY <1>1, <1>2, <1>3, <1>4 DEF Next

(***************************************************************************)
(* The mesh's state stays well typed and no outbox exceeds its capacity    *)
(* (enqueueLocked), for any number of pods, connections and sockets.       *)
(***************************************************************************)
THEOREM TypeCorrect == Spec => []TypeOK
<1>1. PastInv => TypeOK
  BY DEF PastInv
<1>2. QED
  BY <1>1, PastInvInit, PastInvStep, PTL DEF Spec

(***************************************************************************)
(* However deltas and snapshots of an owner are lost, delayed, duplicated  *)
(* or overtaken on its sockets, a pod's view of that owner is at all times *)
(* exactly what the owner held after the mutation the view is numbered     *)
(* with (ApplyDelta, ApplySnapshot, LocalUpsert, LocalRemove).             *)
(***************************************************************************)
THEOREM ViewsArePastStates == Spec => []ViewIsPastState
<1>1. PastInv => ViewIsPastState
  BY DEF PastInv
<1>2. QED
  BY <1>1, PastInvInit, PastInvStep, PTL DEF Spec

-----------------------------------------------------------------------------
\* DrainSticks and ConvergedKnowsPeers.

\* What any step does to a pod's readiness to serve, and to the endpoints.
Retires ==
  /\ \A o \in Pods : status[o] # "up" => status'[o] # "up"
  /\ \A p \in Pods : Running(p)' => Running(p)
  /\ \A o \in endpoints' : o \in endpoints \/ status[o] = "up"

\* What a step does to one queue: at most one frame is read, or all are
\* dropped, or frames are added at its end.
QueueStep(old, new, added) ==
  \/ new = old
  \/ new = << >>
  \/ old # << >> /\ new = Tail(old)
  \/ \E fs \in Seq(added) : new = old \o fs

(* A pod that drains or is gone never serves again, and only a pod that
   serves becomes an endpoint (Drain, handleReady). *)
LEMMA NextRetires ==
  ASSUME PastInv, Next
  PROVE  Retires
<1>1. /\ status \in [Pods -> {"up", "draining", "dead"}]
  BY DEF PastInv, TypeOK, OwnerTypes
<1>2. CASE \E p \in Pods : Drain(p) \/ Exit(p)
  BY <1>1, <1>2 DEF Drain, Exit, Retires, Running, netVars
<1>3. CASE \E p \in Pods : BecomeReady(p)
  BY <1>1, <1>3 DEF BecomeReady, Retires, Running, ownerVars
<1>4. CASE UNCHANGED status /\ endpoints' \subseteq endpoints
  BY <1>4 DEF Retires, Running
<1>5. ASSUME NEW p \in Pods, PodStep(p), ~Drain(p), ~Exit(p), ~BecomeReady(p)
      PROVE  UNCHANGED status /\ endpoints' \subseteq endpoints
  BY <1>5, Zenon DEF PodStep, LocalUpsert, LocalRemove, MutateLocal, Broadcast, ReconcilePeers, GraceExpires,
              BecomeUnready, Dial, ownerVars, netVars
<1>6. ASSUME NEW e \in Ends, Serve(e)
      PROVE  UNCHANGED status /\ endpoints' \subseteq endpoints
  BY <1>6, Zenon DEF Serve, TakeSnapshot, PushSnapshot, HandleDelta, HandleSnapshotReq, SendReply,
              HandleSnapshotRsp, HandleDraining, ReaderEnds, ownerVars
<1>7. ASSUME NEW s \in Socks, Lose(s)
      PROVE  UNCHANGED status /\ endpoints' \subseteq endpoints
  BY <1>7 DEF Lose, ownerVars
<1>8. QED
  BY <1>2, <1>3, <1>4, <1>5, <1>6, <1>7 DEF Next

(* The queues hold only true notices of draining when true notices are all
   that is added to them (enqueueLocked, wsLink.send). *)
LEMMA NoticesStay ==
  ASSUME NoticesAreTrue, Retires,
         \A p \in Pods : QueueStep(outbox[p], outbox'[p], TrueFrames'),
         \A e \in Ends : QueueStep(inq[e], inq'[e], TrueFrames')
  PROVE  NoticesAreTrue'
<1>1. TrueFrames \subseteq TrueFrames'
  <2>1. \A f \in Frame : f.type = "draining" => f.pod \in Pods
    BY DEF Frame, DrainingFrame, Delta, Snapshot, SnapshotReq
  <2>2. QED
    BY <2>1 DEF TrueFrames, Retires
<1>2. ASSUME NEW S, NEW T, S \subseteq T, NEW old \in Seq(S), NEW new, QueueStep(old, new, T)
      PROVE  new \in Seq(T)
  <2>1. old \in Seq(T)
    BY <1>2
  <2>2. << >> \in Seq(T) /\ (old # << >> => Tail(old) \in Seq(T))
    BY <2>1
  <2>3. ASSUME NEW fs \in Seq(T) PROVE old \o fs \in Seq(T)
    BY <2>1
  <2>4. QED
    BY <1>2, <2>1, <2>2, <2>3, Zenon DEF QueueStep
<1>3. ASSUME NEW p \in Pods PROVE outbox'[p] \in Seq(TrueFrames')
  BY <1>1, <1>2 DEF NoticesAreTrue
<1>4. ASSUME NEW e \in Ends PROVE inq'[e] \in Seq(TrueFrames')
  BY <1>1, <1>2 DEF NoticesAreTrue
<1>5. QED
  BY <1>3, <1>4 DEF NoticesAreTrue

(* What is remembered of peers stays right while the registries and the links
   are left alone. *)
LEMMA MemoryStays ==
  ASSUME PastInv, PeerInv, Retires,
         \A p \in Pods : Running(p) => Running(p)',
         UNCHANGED <<owners, links, snapshotsFrom, purged, heardDraining>>
  PROVE  DrainsAreFinal' /\ AnswersAreKept'
<1>1. AnswersAreKept'
  BY DEF PeerInv, AnswersAreKept
<1>2. heardDraining \in [Pods -> SUBSET Pods] /\ links \in [Pods -> SUBSET Pods]
  BY DEF PastInv, TypeOK, ObserverTypes
<1>3. ASSUME NEW p \in Pods
      PROVE  ~Running(p)' => links'[p] = {}
  BY DEF PeerInv, DrainsAreFinal
<1>4. ASSUME NEW p \in Pods, NEW o \in heardDraining[p]
      PROVE  /\ status'[o] # "up"
             /\ Running(p)' /\ ~owners'[p][o].draining => o \notin links'[p] \cup (endpoints' \ {p})
  <2>1. o \in Pods /\ status[o] # "up" /\ status'[o] # "up"
    BY <1>2 DEF PeerInv, DrainsAreFinal, Retires
  <2>2. QED
    BY <2>1 DEF PeerInv, DrainsAreFinal, Retires
<1>5. QED
  BY <1>1, <1>3, <1>4 DEF DrainsAreFinal

(* Only DRAINING is a notice (meshFrame). *)
LEMMA OthersAreTrue ==
  /\ \A f \in Delta \cup Snapshot \cup {SnapshotReq} : f \in TrueFrames /\ f \in TrueFrames'
  /\ TrueFrames \subseteq Frame
<1>1. \A f \in Delta \cup Snapshot \cup {SnapshotReq} : f.type # "draining" /\ f \in Frame
  BY DEF Delta, Snapshot, SnapshotReq, Frame
<1>2. QED
  BY <1>1 DEF TrueFrames

(* What the invariants say of the queues. *)
LEMMA QueueTypes ==
  ASSUME PastInv, PeerInv
  PROVE  /\ outbox \in [Pods -> Seq(Frame)] /\ inq \in [Ends -> Seq(Frame)]
         /\ \A p \in Pods : outbox[p] \in Seq(TrueFrames)
         /\ \A e \in Ends : inq[e] \in Seq(TrueFrames)
BY TypeFacts DEF PeerInv, NoticesAreTrue

(* Steps that touch no queue, registry or link set (handleReady, dial, the
   kubelet, the network). *)
LEMMA PlainKeepsPeers ==
  ASSUME PastInv, PeerInv, Retires,
         UNCHANGED <<status, outbox, inq, owners, links, snapshotsFrom, purged, heardDraining>>
  PROVE  PeerInv'
<1>1. NoticesAreTrue'
  <2>1. /\ \A p \in Pods : QueueStep(outbox[p], outbox'[p], TrueFrames')
        /\ \A e \in Ends : QueueStep(inq[e], inq'[e], TrueFrames')
    BY DEF QueueStep
  <2>2. QED
    BY <2>1, NoticesStay DEF PeerInv
<1>2. DrainsAreFinal' /\ AnswersAreKept'
  BY MemoryStays DEF Running
<1>3. QED
  BY <1>1, <1>2 DEF PeerInv

(* A frame a pod queues is true of it: a delta, or DRAINING once it has
   stopped serving (LocalUpsert, LocalRemove, Drain). *)
LEMMA EnqueueKeepsPeers ==
  ASSUME PastInv, PeerInv, Retires, NEW p \in Pods, NEW f \in TrueFrames',
         outbox' = [outbox EXCEPT ![p] = Enqueue(@, f)],
         \A q \in Pods : Running(q) => Running(q)',
         UNCHANGED <<inq, owners, links, snapshotsFrom, purged, heardDraining>>
  PROVE  PeerInv'
<1>1. ASSUME NEW q \in Pods PROVE QueueStep(outbox[q], outbox'[q], TrueFrames')
  <2>1. outbox[q] \in Seq(Frame) /\ f \in Frame
    BY QueueTypes DEF TrueFrames
  <2>2. outbox'[q] = outbox[q] \/ outbox'[q] = Append(outbox[q], f)
    BY QueueTypes DEF Enqueue
  <2>3. Append(outbox[q], f) = outbox[q] \o <<f>> /\ <<f>> \in Seq(TrueFrames')
    BY <2>1
  <2>4. QED
    BY <2>2, <2>3, Zenon DEF QueueStep
<1>2. \A e \in Ends : QueueStep(inq[e], inq'[e], TrueFrames')
  BY DEF QueueStep
<1>3. QED
  BY <1>1, <1>2, NoticesStay, MemoryStays DEF PeerInv

(* Queues change by what a reader or a sender does, and nothing else does
   (serveLink, wsLink.send, runBroadcaster). *)
LEMMA TrafficKeepsPeers ==
  ASSUME PastInv, PeerInv, Retires,
         \A p \in Pods : QueueStep(outbox[p], outbox'[p], {}),
         \A e \in Ends : QueueStep(inq[e], inq'[e], TrueFrames),
         UNCHANGED <<status, owners, links, snapshotsFrom, purged, heardDraining>>
  PROVE  PeerInv'
<1>1. TrueFrames' = TrueFrames
  BY DEF TrueFrames
<1>2. ASSUME NEW old, NEW new, QueueStep(old, new, {}) PROVE QueueStep(old, new, TrueFrames)
  <2>1. \A fs \in Seq({}) : fs \in Seq(TrueFrames)
    OBVIOUS
  <2>2. QED
    BY <1>2, <2>1 DEF QueueStep
<1>3. \A p \in Pods : QueueStep(outbox[p], outbox'[p], TrueFrames)
  BY <1>2
<1>4. NoticesAreTrue'
  BY <1>1, <1>3, NoticesStay DEF PeerInv
<1>5. QED
  BY <1>4, MemoryStays DEF PeerInv, Running

(* What is read from, or sent over, one socket (serveLink, wsLink.send). *)
LEMMA SocketSteps ==
  ASSUME PastInv, PeerInv, NEW e \in Ends, NEW fs \in Seq(TrueFrames),
         \/ inq' = [inq EXCEPT ![e] = << >>]
         \/ inq[e] # << >> /\ inq' = [inq EXCEPT ![e] = Tail(@)]
         \/ inq' = [inq EXCEPT ![Far(e)] = Sent(e[1], @, fs)]
         \/ inq[e] # << >> /\ inq' = [inq EXCEPT ![e] = Tail(@), ![Far(e)] = Sent(e[1], @, fs)]
  PROVE  \A x \in Ends : QueueStep(inq[x], inq'[x], TrueFrames)
<1> SUFFICES ASSUME NEW x \in Ends PROVE QueueStep(inq[x], inq'[x], TrueFrames)
  OBVIOUS
<1>1. Far(e) \in Ends /\ Far(e) # e
  BY EndFacts
<1>2. \/ inq'[x] = inq[x]
      \/ inq'[x] = << >>
      \/ inq[x] # << >> /\ inq'[x] = Tail(inq[x])
      \/ inq'[x] = inq[x] \o fs
  BY <1>1, QueueTypes, Zenon DEF Sent
<1>3. QED
  BY <1>2 DEF QueueStep

(* A pod that exits forgets everything, its links included (Mesh.Stop). *)
LEMMA ExitKeepsPeers ==
  ASSUME PastInv, PeerInv, Retires, NEW p \in Pods, Exit(p)
  PROVE  PeerInv'
<1>1. /\ status' = [status EXCEPT ![p] = "dead"] /\ links' = [links EXCEPT ![p] = {}]
      /\ owners' = [owners EXCEPT ![p] = [o \in Pods |-> NoOwner]]
      /\ snapshotsFrom' = [snapshotsFrom EXCEPT ![p] = {}]
      /\ UNCHANGED <<purged, heardDraining, endpoints>>
  BY DEF Exit
<1>2. /\ \A q \in Pods : outbox'[q] = outbox[q] \/ outbox'[q] = << >>
      /\ \A e \in Ends : inq'[e] = inq[e] \/ inq'[e] = << >>
  BY QueueTypes DEF Exit
<1>3. NoticesAreTrue'
  BY <1>2, NoticesStay DEF PeerInv, QueueStep
<1>4. /\ status \in [Pods -> {"up", "draining", "dead"}] /\ links \in [Pods -> SUBSET Pods]
      /\ owners \in [Pods -> [Pods -> OwnerState]] /\ snapshotsFrom \in [Pods -> SUBSET Pods]
      /\ heardDraining \in [Pods -> SUBSET Pods]
  BY DEF PastInv, TypeOK, OwnerTypes, ObserverTypes
<1>5. ASSUME NEW q \in Pods
      PROVE  /\ ~Running(q)' => links'[q] = {}
             /\ \A o \in heardDraining[q] :
                  /\ status'[o] # "up"
                  /\ Running(q)' /\ ~owners'[q][o].draining => o \notin links'[q] \cup (endpoints \ {q})
             /\ \A o \in snapshotsFrom'[q] \ purged[q] : owners'[q][o].exists
  <2>1. /\ status'[q] = (IF q = p THEN "dead" ELSE status[q])
        /\ links'[q] = (IF q = p THEN {} ELSE links[q])
        /\ snapshotsFrom'[q] = (IF q = p THEN {} ELSE snapshotsFrom[q])
        /\ q # p => owners'[q] = owners[q]
    BY <1>1, <1>4
  <2>2. /\ ~Running(q) => links[q] = {}
        /\ \A o \in heardDraining[q] :
             /\ status[o] # "up"
             /\ Running(q) /\ ~owners[q][o].draining => o \notin links[q] \cup (endpoints \ {q})
        /\ \A o \in snapshotsFrom[q] \ purged[q] : owners[q][o].exists
    BY Zenon DEF PeerInv, DrainsAreFinal, AnswersAreKept
  <2>3. \A o \in heardDraining[q] : status'[o] # "up"
    BY <1>4, <2>2, Zenon DEF Retires
  <2>4. Running(q)' => q # p /\ Running(q)
    BY <2>1, Zenon DEF Running
  <2>5. q # p => (Running(q)' <=> Running(q))
    BY <2>1, Zenon DEF Running
  <2>6. CASE q = p
    BY <2>1, <2>3, <2>4, <2>6, Zenon
  <2>7. CASE q # p
    BY <2>1, <2>2, <2>3, <2>5, <2>7, Zenon
  <2>8. QED
    BY <2>6, <2>7, Zenon
<1>6. QED
  BY <1>1, <1>3, <1>5 DEF PeerInv, DrainsAreFinal, AnswersAreKept

(* A peer that is purged is not an endpoint; if it was draining it never will
   be one again (reconcilePeers, PurgeOwner). *)
LEMMA ReconcileKeepsPeers ==
  ASSUME PastInv, PeerInv, Retires, NEW p \in Pods, ReconcilePeers(p)
  PROVE  PeerInv'
<1> DEFINE want == endpoints \ {p}
           gone == links[p] \ want
<1>1. /\ Running(p) /\ links' = [links EXCEPT ![p] = want]
      /\ owners' = [owners EXCEPT ![p] =
                      [o \in Pods |-> IF o \in gone THEN NoOwner ELSE owners[p][o]]]
      /\ purged' = [purged EXCEPT ![p] = @ \cup gone]
      /\ UNCHANGED <<status, outbox, inq, snapshotsFrom, heardDraining, endpoints>>
  BY DEF ReconcilePeers, PurgeOwner, ownerVars
<1>2. NoticesAreTrue'
  BY <1>1, NoticesStay DEF PeerInv, QueueStep
<1>3. /\ links \in [Pods -> SUBSET Pods] /\ owners \in [Pods -> [Pods -> OwnerState]]
      /\ snapshotsFrom \in [Pods -> SUBSET Pods] /\ purged \in [Pods -> SUBSET Pods]
      /\ heardDraining \in [Pods -> SUBSET Pods]
  BY DEF PastInv, TypeOK, ObserverTypes
<1>4. ASSUME NEW q \in Pods, q # p
      PROVE  links'[q] = links[q] /\ owners'[q] = owners[q] /\ purged'[q] = purged[q]
  BY <1>1, <1>3, <1>4
<1>5. /\ links'[p] = want /\ purged'[p] = purged[p] \cup gone
      /\ \A o \in Pods : owners'[p][o] = IF o \in gone THEN NoOwner ELSE owners[p][o]
  BY <1>1, <1>3
<1>6. ASSUME NEW o \in heardDraining[p], ~owners'[p][o].draining
      PROVE  o \notin want
  BY <1>1, <1>3, <1>5, <1>6 DEF PeerInv, DrainsAreFinal
<1>7. ASSUME NEW q \in Pods
      PROVE  /\ ~Running(q)' => links'[q] = {}
             /\ \A o \in heardDraining[q] :
                  /\ status[o] # "up"
                  /\ Running(q)' /\ ~owners'[q][o].draining => o \notin links'[q] \cup (endpoints \ {q})
  <2>1. CASE q = p
    BY <1>1, <1>5, <1>6, <2>1 DEF Running, PeerInv, DrainsAreFinal
  <2>2. CASE q # p
    BY <1>1, <1>4, <2>2 DEF Running, PeerInv, DrainsAreFinal
  <2>3. QED
    BY <2>1, <2>2
<1>8. ASSUME NEW q \in Pods, NEW o \in snapshotsFrom[q] \ purged'[q]
      PROVE  owners'[q][o].exists
  BY <1>3, <1>4, <1>5, <1>8 DEF PeerInv, AnswersAreKept
<1>9. QED
  BY <1>1, <1>2, <1>7, <1>8, Zenon DEF PeerInv, DrainsAreFinal, AnswersAreKept

(* Deltas and snapshots leave the draining mark and create the owner's state;
   DRAINING sets the mark (ApplyDelta, ApplySnapshot, SetDraining). *)
LEMMA HandlingKeepsPeers ==
  ASSUME PastInv, PeerInv, Retires, NEW p \in Pods, NEW o \in Pods, NEW st \in OwnerState,
         NoticesAreTrue',
         owners' = [owners EXCEPT ![p][o] = st],
         owners[p][o].draining => st.draining, owners[p][o].exists => st.exists,
         \/ UNCHANGED heardDraining
         \/ /\ st.draining /\ status[o] # "up"
            /\ heardDraining' = [heardDraining EXCEPT ![p] = @ \cup {o}],
         \/ UNCHANGED snapshotsFrom
         \/ st.exists /\ snapshotsFrom' = [snapshotsFrom EXCEPT ![p] = @ \cup {o}],
         UNCHANGED <<status, links, purged, endpoints>>
  PROVE  PeerInv'
<1>1. /\ owners \in [Pods -> [Pods -> OwnerState]] /\ snapshotsFrom \in [Pods -> SUBSET Pods]
      /\ heardDraining \in [Pods -> SUBSET Pods]
  BY DEF PastInv, TypeOK, ObserverTypes
<1>2. \A q, x \in Pods : owners'[q][x] = IF q = p /\ x = o THEN st ELSE owners[q][x]
  BY <1>1
<1>3. /\ \A q \in Pods : \A x \in heardDraining'[q] : x \in heardDraining[q] \/ (q = p /\ x = o /\ st.draining /\ status[o] # "up")
      /\ \A q \in Pods : \A x \in snapshotsFrom'[q] : x \in snapshotsFrom[q] \/ (q = p /\ x = o /\ st.exists)
  BY <1>1
<1>4. ASSUME NEW q \in Pods, NEW x \in heardDraining'[q]
      PROVE  /\ status[x] # "up"
             /\ Running(q)' /\ ~owners'[q][x].draining => x \notin links[q] \cup (endpoints \ {q})
  <2>1. CASE q = p /\ x = o /\ st.draining /\ status[o] # "up"
    BY <1>2, <2>1
  <2>2. CASE x \in heardDraining[q]
    <3>1. /\ status[x] # "up" /\ x \in Pods
          /\ Running(q) /\ ~owners[q][x].draining => x \notin links[q] \cup (endpoints \ {q})
      BY <1>1, <2>2, Zenon DEF PeerInv, DrainsAreFinal
    <3>2. ~owners'[q][x].draining => ~owners[q][x].draining
      BY <1>2, <3>1
    <3>3. QED
      BY <3>1, <3>2, Zenon DEF Running
  <2>3. QED
    BY <1>3, <2>1, <2>2, Zenon
<1>5. ASSUME NEW q \in Pods, NEW x \in snapshotsFrom'[q] \ purged[q]
      PROVE  owners'[q][x].exists
  <2>1. CASE q = p /\ x = o /\ st.exists
    BY <1>2, <2>1
  <2>2. CASE x \in snapshotsFrom[q]
    <3>1. owners[q][x].exists /\ x \in Pods
      BY <1>1, <1>5, <2>2, Zenon DEF PeerInv, AnswersAreKept
    <3>2. QED
      BY <1>2, <3>1
  <2>3. QED
    BY <1>3, <2>1, <2>2, Zenon
<1>6. \A q \in Pods : ~Running(q)' => links[q] = {}
  BY DEF PeerInv, DrainsAreFinal, Running
<1>7. QED
  BY <1>4, <1>5, <1>6 DEF PeerInv, DrainsAreFinal, AnswersAreKept

(* What a reader does with a frame keeps what is remembered of its sender
   (handleFrame). *)
LEMMA HandlersKeepPeers ==
  ASSUME PastInv, PeerInv, Retires, NEW e \in Ends,
         HandleDelta(e) \/ HandleSnapshotRsp(e) \/ HandleDraining(e)
  PROVE  PeerInv'
<1> DEFINE p == PodAt(e)
           f == Head(inq[e])
           o == PeerAt(e)
<1>1. p \in Pods /\ o \in Pods /\ owners[p][o] \in OwnerState
  BY EndFacts, TypeFacts
<1>2. inq[e] # << >> /\ f \in TrueFrames
  <2>1. inq[e] # << >>
    BY Zenon DEF HandleDelta, HandleSnapshotRsp, HandleDraining, Receives
  <2>2. QED
    BY <2>1, QueueTypes
<1>3. UNCHANGED <<status, outbox, links, purged, endpoints>>
  BY Zenon DEF HandleDelta, HandleSnapshotRsp, HandleDraining, ownerVars
<1>4. << >> \in Seq(TrueFrames) /\ <<SnapshotReq>> \in Seq(TrueFrames)
  BY OthersAreTrue
<1>5. TrueFrames' = TrueFrames
  BY <1>3 DEF TrueFrames
<1>6. ASSUME \A x \in Ends : QueueStep(inq[x], inq'[x], TrueFrames)
      PROVE  NoticesAreTrue'
  BY <1>3, <1>5, <1>6, NoticesStay DEF PeerInv, QueueStep
<1>7. f \in Frame
  BY <1>2, OthersAreTrue
<1>8. CASE HandleDelta(e)
  <2>1. PICK ask \in {<< >>, <<SnapshotReq>>} :
          inq' = [inq EXCEPT ![e] = Tail(@), ![Far(e)] = Sent(e[1], @, ask)]
    BY <1>8, Zenon DEF HandleDelta
  <2>2. NoticesAreTrue'
    BY <1>2, <1>4, <1>6, <2>1, SocketSteps, Zenon
  <2>3. f.type = "delta" /\ f.owner = o /\ f \in Delta
    <3>1. f.type = "delta" /\ f.owner = o
      BY <1>8, Zenon DEF HandleDelta, Receives
    <3>2. \A s \in Snapshot : s.type # "delta"
      BY DEF Snapshot
    <3>3. \A s \in DrainingFrame : s.type # "delta"
      BY DEF DrainingFrame
    <3>4. SnapshotReq.type # "delta"
      BY DEF SnapshotReq
    <3>5. QED
      BY <1>7, <3>1, <3>2, <3>3, <3>4, Zenon DEF Frame
  <2>4. owners' = [owners EXCEPT ![p][o] = IF InSequence(owners[p][o], f) THEN ApplyDelta(@, f) ELSE @]
    BY <1>8, <2>3, Zenon DEF HandleDelta
  <2>5. PICK st : st = IF InSequence(owners[p][o], f) THEN ApplyDelta(owners[p][o], f) ELSE owners[p][o]
    OBVIOUS
  <2>6. f.entry \in Entry /\ f.seq \in 0 .. MaxSeq
    BY <2>3, MaxSeqAssumption DEF Delta
  <2>7. ApplyDelta(owners[p][o], f) \in OwnerState
    BY <1>1, <2>6, MutateType DEF ApplyDelta, OwnerState
  <2>8. /\ st \in OwnerState
        /\ owners[p][o].draining => st.draining
        /\ owners[p][o].exists => st.exists
    BY <1>1, <2>5, <2>7, Zenon DEF ApplyDelta
  <2>9. owners' = [owners EXCEPT ![p][o] = st]
    BY <1>1, <2>4, <2>5, TypeFacts, Zenon
  <2>10. UNCHANGED <<heardDraining, snapshotsFrom>>
    BY <1>8 DEF HandleDelta
  <2>11. QED
    BY <1>1, <1>3, <2>2, <2>8, <2>9, <2>10, HandlingKeepsPeers, Zenon
<1>9. CASE HandleSnapshotRsp(e)
  <2>1. NoticesAreTrue'
    BY <1>2, <1>4, <1>6, <1>9, SocketSteps, Zenon DEF HandleSnapshotRsp
  <2>2. f.type = "snapshot_rsp" /\ f.owner = o /\ f \in Snapshot
    <3>1. f.type = "snapshot_rsp" /\ f.owner = o
      BY <1>9, Zenon DEF HandleSnapshotRsp, Receives
    <3>2. \A s \in Delta : s.type # "snapshot_rsp"
      BY DEF Delta
    <3>3. \A s \in DrainingFrame : s.type # "snapshot_rsp"
      BY DEF DrainingFrame
    <3>4. SnapshotReq.type # "snapshot_rsp"
      BY DEF SnapshotReq
    <3>5. QED
      BY <1>7, <3>1, <3>2, <3>3, <3>4, Zenon DEF Frame
  <2>3. PICK st : st = ApplySnapshot(owners[p][o], f)
    OBVIOUS
  <2>4. /\ st \in OwnerState
        /\ owners[p][o].draining => st.draining
        /\ st.exists
    BY <1>1, <2>2, <2>3 DEF ApplySnapshot, OwnerState, Snapshot
  <2>5. /\ owners' = [owners EXCEPT ![p][o] = ApplySnapshot(@, f)]
        /\ snapshotsFrom' = [snapshotsFrom EXCEPT ![p] = @ \cup {o}]
        /\ UNCHANGED heardDraining
    BY <1>9, <2>2, Zenon DEF HandleSnapshotRsp
  <2>6. owners' = [owners EXCEPT ![p][o] = st]
    BY <1>1, <2>3, <2>5, TypeFacts, Zenon
  <2>7. QED
    BY <1>1, <1>3, <2>1, <2>4, <2>5, <2>6, HandlingKeepsPeers, Zenon
<1>10. CASE HandleDraining(e)
  <2>1. NoticesAreTrue'
    BY <1>2, <1>4, <1>6, <1>10, SocketSteps, Zenon DEF HandleDraining
  <2>2. f.type = "draining" /\ f.pod = o /\ status[o] # "up"
    BY <1>2, <1>10 DEF HandleDraining, Receives, TrueFrames
  <2>3. PICK st : st = SetDraining(owners[p][o])
    OBVIOUS
  <2>4. /\ st \in OwnerState /\ st.draining
        /\ owners[p][o].draining => st.draining
        /\ owners[p][o].exists => st.exists
    BY <1>1, <2>3, Zenon DEF SetDraining, OwnerState
  <2>5. /\ owners' = [owners EXCEPT ![p][o] = SetDraining(@)]
        /\ heardDraining' = [heardDraining EXCEPT ![p] = @ \cup {o}]
        /\ UNCHANGED snapshotsFrom
    BY <1>10, <2>2, Zenon DEF HandleDraining
  <2>6. owners' = [owners EXCEPT ![p][o] = st]
    BY <1>1, <2>3, <2>5, TypeFacts, Zenon
  <2>7. /\ \/ UNCHANGED heardDraining
           \/ /\ st.draining /\ status[o] # "up"
              /\ heardDraining' = [heardDraining EXCEPT ![p] = @ \cup {o}]
        /\ \/ UNCHANGED snapshotsFrom
           \/ st.exists /\ snapshotsFrom' = [snapshotsFrom EXCEPT ![p] = @ \cup {o}]
    BY <2>2, <2>4, <2>5, Zenon
  <2>8. UNCHANGED <<status, links, purged, endpoints>>
    BY <1>3
  <2>9. QED
    BY <1>1, <2>1, <2>4, <2>6, <2>7, <2>8, HandlingKeepsPeers, Zenon
<1>11. QED
  BY <1>8, <1>9, <1>10

(* Senders and readers that leave the registry alone (runLink, serveLink). *)
LEMMA SocketsKeepPeers ==
  ASSUME PastInv, PeerInv, Retires, NEW e \in Ends,
         \/ TakeSnapshot(e) \/ PushSnapshot(e) \/ HandleSnapshotReq(e) \/ SendReply(e)
         \/ ReaderEnds(e)
  PROVE  PeerInv'
<1>1. UNCHANGED <<status, outbox, owners, links, snapshotsFrom, purged, heardDraining>>
  BY Zenon DEF TakeSnapshot, PushSnapshot, HandleSnapshotReq, SendReply, ReaderEnds, ownerVars,
         observerVars
<1>2. CASE TakeSnapshot(e)
  <2>1. UNCHANGED inq
    BY <1>2 DEF TakeSnapshot
  <2>2. QED
    BY <1>1, <2>1, PlainKeepsPeers
<1>3. held[e] \in TrueFrames /\ SnapshotReq \in TrueFrames
  BY OthersAreTrue, TypeFacts
<1>4. /\ << >> \in Seq(TrueFrames) /\ <<held[e]>> \in Seq(TrueFrames)
      /\ <<held[e], SnapshotReq>> \in Seq(TrueFrames)
  BY <1>3
<1>5. ASSUME ~TakeSnapshot(e) PROVE \A x \in Ends : QueueStep(inq[x], inq'[x], TrueFrames)
  <2>1. CASE PushSnapshot(e)
    BY <1>4, <2>1, SocketSteps, Zenon DEF PushSnapshot
  <2>2. CASE SendReply(e)
    BY <1>4, <2>2, SocketSteps, Zenon DEF SendReply
  <2>3. CASE HandleSnapshotReq(e)
    BY <1>4, <2>3, SocketSteps, Zenon DEF HandleSnapshotReq, Receives
  <2>4. CASE ReaderEnds(e)
    BY <1>4, <2>4, SocketSteps, Zenon DEF ReaderEnds
  <2>5. QED
    BY <1>5, <2>1, <2>2, <2>3, <2>4
<1>6. \A p \in Pods : QueueStep(outbox[p], outbox'[p], {})
  BY <1>1 DEF QueueStep
<1>7. QED
  BY <1>1, <1>2, <1>5, <1>6, TrafficKeepsPeers, Zenon

(* The broadcaster sends one frame it has queued (runBroadcaster). *)
LEMMA BroadcastKeepsPeers ==
  ASSUME PastInv, PeerInv, Retires, NEW p \in Pods, Broadcast(p)
  PROVE  PeerInv'
<1>1. UNCHANGED <<status, owners, links, snapshotsFrom, purged, heardDraining>>
  BY DEF Broadcast, observerVars
<1>2. outbox[p] # << >> /\ outbox' = [outbox EXCEPT ![p] = Tail(@)]
  BY DEF Broadcast
<1>3. \A q \in Pods : QueueStep(outbox[q], outbox'[q], {})
  BY <1>2, QueueTypes DEF QueueStep
<1>4. PICK fs : fs = <<Head(outbox[p])>>
  BY Zenon
<1>5. fs \in Seq(TrueFrames)
  BY <1>2, <1>4, QueueTypes
<1>6. ASSUME NEW e \in Ends PROVE QueueStep(inq[e], inq'[e], TrueFrames)
  <2>1. inq'[e] = inq[e] \/ inq'[e] = inq[e] \o fs
    BY <1>4, QueueTypes DEF Broadcast, Sent
  <2>2. QED
    BY <1>5, <2>1 DEF QueueStep
<1>7. QED
  BY <1>1, <1>3, <1>6, TrafficKeepsPeers

(* Every step keeps what is remembered of peers. *)
LEMMA PeerInvStep == PastInv /\ PeerInv /\ [Next]_vars => PeerInv'
<1> SUFFICES ASSUME PastInv, PeerInv, [Next]_vars PROVE PeerInv'
  OBVIOUS
<1>1. CASE UNCHANGED vars
  <2>1. UNCHANGED <<status, outbox, inq, owners, links, snapshotsFrom, purged, heardDraining, endpoints>>
    BY <1>1 DEF vars, ownerVars, observerVars, netVars
  <2>2. Retires
    BY <2>1 DEF Retires, Running
  <2>3. QED
    BY <2>1, <2>2, PlainKeepsPeers
<1>2. ASSUME Next PROVE Retires
  BY <1>2, NextRetires
<1>3. ASSUME NEW p \in Pods, PodStep(p), Retires PROVE PeerInv'
  <2>1. ASSUME NEW op \in {"add", "remove"}, NEW entry \in Entry, MutateLocal(p, op, entry)
        PROVE  PeerInv'
    <3> DEFINE d == [type |-> "delta", op |-> op, owner |-> p, seq |-> localSeq[p] + 1, entry |-> entry]
    <3>1. localSeq[p] + 1 \in 1 .. MaxSeq
      <4>1. localSeq[p] \in 0 .. MaxSeq
        BY Zenon DEF PastInv, TypeOK, OwnerTypes
      <4>2. localSeq[p] < MaxSeq
        BY <2>1, Zenon DEF MutateLocal
      <4>3. QED
        BY <4>1, <4>2, MaxSeqAssumption
    <3>2. d \in Delta
      BY <3>1 DEF Delta
    <3>3. PICK f : f = d
      BY Zenon
    <3>4. f \in TrueFrames'
      BY <3>2, <3>3, OthersAreTrue
    <3>5. /\ outbox' = [outbox EXCEPT ![p] = Enqueue(@, f)]
          /\ UNCHANGED <<status, inq, owners, links, snapshotsFrom, purged, heardDraining>>
      BY <2>1, <3>3 DEF MutateLocal, observerVars, netVars
    <3>6. QED
      BY <1>3, <3>4, <3>5, EnqueueKeepsPeers, Zenon DEF Running
  <2>2. ASSUME NEW c \in Conns, NEW crs \in SUBSET CRs, LocalUpsert(p, c, crs)
        PROVE  PeerInv'
    BY <2>1, <2>2 DEF LocalUpsert, Entry
  <2>3. ASSUME NEW c \in Conns, LocalRemove(p, c)
        PROVE  PeerInv'
    <3>1. [conn |-> c, crs |-> {}] \in Entry
      BY DEF Entry
    <3>2. QED
      BY <2>1, <2>3, <3>1, Zenon DEF LocalRemove
  <2>4. CASE Drain(p)
    <3>1. PICK f : f = [type |-> "draining", pod |-> p]
      BY Zenon
    <3>2. status[p] = "up" /\ status' = [status EXCEPT ![p] = "draining"]
      BY <2>4 DEF Drain
    <3>3. status'[p] # "up" /\ \A q \in Pods : Running(q) => Running(q)'
      BY <3>2 DEF PastInv, TypeOK, OwnerTypes, Running
    <3>4. f \in TrueFrames'
      BY <3>1, <3>3 DEF TrueFrames, Frame, DrainingFrame
    <3>5. /\ outbox' = [outbox EXCEPT ![p] = Enqueue(@, f)]
          /\ UNCHANGED <<inq, owners, links, snapshotsFrom, purged, heardDraining>>
      BY <2>4, <3>1 DEF Drain, observerVars, netVars
    <3>6. QED
      BY <1>3, <3>3, <3>4, <3>5, EnqueueKeepsPeers, Zenon
  <2>5. CASE GraceExpires(p) \/ BecomeReady(p) \/ BecomeUnready(p) \/ \E q \in Pods : Dial(p, q)
    <3>1. UNCHANGED <<status, outbox, inq, owners, links, snapshotsFrom, purged, heardDraining>>
      BY <2>5 DEF GraceExpires, BecomeReady, BecomeUnready, Dial, ownerVars, observerVars, netVars
    <3>2. QED
      BY <1>3, <3>1, PlainKeepsPeers
  <2>6. QED
    BY <1>3, <2>2, <2>3, <2>4, <2>5, ExitKeepsPeers, BroadcastKeepsPeers, ReconcileKeepsPeers, Zenon
    DEF PodStep
<1>4. ASSUME NEW e \in Ends, Serve(e), Retires PROVE PeerInv'
  BY <1>4, HandlersKeepPeers, SocketsKeepPeers DEF Serve
<1>5. ASSUME NEW s \in Socks, Lose(s), Retires PROVE PeerInv'
  <2>1. UNCHANGED <<status, outbox, inq, owners, links, snapshotsFrom, purged, heardDraining>>
    BY <1>5 DEF Lose, ownerVars, observerVars
  <2>2. QED
    BY <1>5, <2>1, PlainKeepsPeers
<1>6. QED
  BY <1>1, <1>2, <1>3, <1>4, <1>5 DEF Next

(* Initially nobody was heard of (NewMesh). *)
LEMMA PeerInvInit == Init => PeerInv
<1> SUFFICES ASSUME Init PROVE PeerInv
  OBVIOUS
<1>1. NoticesAreTrue
  BY DEF Init, NoticesAreTrue
<1>2. DrainsAreFinal
  BY DEF Init, DrainsAreFinal, Running
<1>3. AnswersAreKept
  BY DEF Init, AnswersAreKept
<1>4. QED
  BY <1>1, <1>2, <1>3 DEF PeerInv

(***************************************************************************)
(* For any pods and sockets, and whatever snapshots and deltas of a        *)
(* draining peer arrive late, a pod that has heard it drain keeps it out   *)
(* of lookups for as long as it links to it (SetDraining, ApplySnapshot,   *)
(* ApplyDelta, reconcilePeers).                                            *)
(***************************************************************************)
THEOREM DrainsStick == Spec => []DrainSticks
<1>1. PastInv /\ PeerInv => DrainSticks
  BY DEF PastInv, TypeOK, ObserverTypes, PeerInv, DrainsAreFinal, DrainSticks
<1>2. QED
  BY <1>1, PastInvInit, PastInvStep, PeerInvInit, PeerInvStep, PTL DEF Spec

(***************************************************************************)
(* For any pods and sockets, a pod that reports converged before the grace *)
(* is over has a registry state for every peer it knows and never purged   *)
(* (Converged, reconcilePeers, handleFrame).                               *)
(***************************************************************************)
THEOREM ConvergedPodsKnow == Spec => []ConvergedKnowsPeers
<1>1. PeerInv => ConvergedKnowsPeers
  BY DEF PeerInv, AnswersAreKept, ConvergedKnowsPeers, HeardFromAll
<1>2. QED
  BY <1>1, PastInvInit, PastInvStep, PeerInvInit, PeerInvStep, PTL DEF Spec
=============================================================================
