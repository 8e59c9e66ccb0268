-------------------------- MODULE RenderedRelease ---------------------------
(***************************************************************************)
(* The RenderedRelease controller (internal/controller/renderedrelease):   *)
(* one release, the manifests it names, and the plane they are applied to. *)
(* A reconcile applies every manifest, lists what it manages, prunes what  *)
(* the spec no longer names and only then records the inventory; a         *)
(* deleted release is finalized from that inventory.  Between any two      *)
(* calls the spec may be edited, the release deleted, the plane may        *)
(* change, a call may fail and the controller may crash.                   *)
(*                                                                         *)
(* The content of a manifest is the generation of the spec that last       *)
(* changed it, so contents are ordered as the object's own generations.    *)
(* A manifest is identified with its resource ID.                          *)
(***************************************************************************)
EXTENDS Naturals, FiniteSets

CONSTANTS
  Objs,                 \* the manifests a spec may name
  KindOf,               \* KindOf[o]: the group, version and kind of o
  Plane,                \* the release's target plane
  WellKnown,            \* wellKnown...GVKs of that plane
  Tracked,              \* kinds whose objects carry a generation
  Interval,             \* spec.interval, 0 for no requeue
  ProgressingInterval,  \* spec.progressingInterval, 0 for no requeue
  MaxGen,               \* bound: generations of the spec
  MaxFaults             \* bound: failed calls, crashes, foreign deletions

ASSUME PlaneAssumption == Plane \in {"dataplane", "observabilityplane"}
ASSUME BoundsAssumption == MaxGen \in Nat \ {0} /\ MaxFaults \in Nat
ASSUME IntervalAssumption == Interval \in Nat /\ ProgressingInterval \in Nat

Gens == 1 .. MaxGen
None == [ver |-> 0, ready |-> FALSE, term |-> FALSE]
Objects == [ver : Gens, ready : BOOLEAN, term : BOOLEAN]
NoEntry == [health |-> "none", ver |-> 0]
Entries == [health : {"Unknown", "Progressing", "Healthy"}, ver : 0 .. MaxGen]

VARIABLES
  rel,     \* the release as the API server has it
  live,    \* live[o]: o on the plane
  job,     \* the reconcile under way
  fresh,   \* the release has not changed since the reconcile read it
  queued,  \* a reconcile is due
  faults   \* bound counter

vars == <<rel, live, job, fresh, queued, faults>>

NewRelease(want) ==
  [phase |-> "live", fin |-> FALSE, gen |-> 1, want |-> want,
   res |-> [o \in Objs |-> NoEntry], applied |-> FALSE, appliedGen |-> 0,
   finalizing |-> "no"]
NoJob == [pc |-> "idle", rel |-> NewRelease([o \in Objs |-> 0]), todo |-> {},
          prior |-> [o \in Objs |-> None], snap |-> [o \in Objs |-> None]]
Idle == job.pc = "idle"
Wanted(r) == {o \in Objs : r.want[o] # 0}
Inventory(r) == {o \in Objs : r.res[o] # NoEntry}
Kinds(S) == {KindOf[o] : o \in S}
Managed == {o \in Objs : live[o] # None}

Releases ==
  [phase : {"live", "deleting", "gone"}, fin : BOOLEAN, gen : Gens,
   want : [Objs -> 0 .. MaxGen], res : [Objs -> Entries \cup {NoEntry}],
   applied : BOOLEAN, appliedGen : 0 .. MaxGen, finalizing : {"no", "InProgress", "Failed"}]

Jobs ==
  [pc : {"idle", "finalizer", "apply", "prune", "mark", "flist", "fdelete"},
   rel : Releases, todo : SUBSET Objs, prior : [Objs -> Objects \cup {None}],
   snap : [Objs -> Objects \cup {None}]]

(***************************************************************************)
(* Every variable holds what its counterpart can hold (RenderedRelease,    *)
(* RenderedManifestStatus, the locals of Reconcile).                       *)
(***************************************************************************)
TypeOK ==
  /\ rel \in Releases
  /\ live \in [Objs -> Objects \cup {None}]
  /\ job \in Jobs
  /\ fresh \in BOOLEAN
  /\ queued \in BOOLEAN
  /\ faults \in 0 .. MaxFaults

Init ==
  /\ \E want \in [Objs -> {0, 1}] : rel = NewRelease(want)
  /\ live = [o \in Objs |-> None]
  /\ job = NoJob
  /\ fresh = FALSE
  /\ queued = TRUE
  /\ faults = 0

-----------------------------------------------------------------------------
\* The release binding controller rewrites the spec.
Edit ==
  /\ rel.phase = "live"
  /\ rel.gen < MaxGen
  /\ \E want \in [Objs -> 0 .. MaxGen] :
       /\ want # rel.want
       /\ \A o \in Objs : want[o] \in {0, rel.want[o], rel.gen + 1}
       /\ rel' = [rel EXCEPT !.gen = @ + 1, !.want = want]
  /\ fresh' = FALSE
  /\ queued' = TRUE
  /\ UNCHANGED <<live, job, faults>>

\* Kubernetes keeps a deleted object as long as it has a finalizer.
Delete ==
  /\ rel.phase = "live"
  /\ rel' = [rel EXCEPT !.phase = IF rel.fin THEN "deleting" ELSE "gone"]
  /\ fresh' = FALSE
  /\ queued' = TRUE
  /\ UNCHANGED <<live, job, faults>>

-----------------------------------------------------------------------------
\* Reconcile up to its first call that changes anything.
Start ==
  /\ Idle /\ queued
  /\ queued' = FALSE
  /\ fresh' = (rel.phase # "gone")
  /\ job' = IF rel.phase = "gone" THEN NoJob ELSE [NoJob EXCEPT
       !.pc = CASE rel.phase = "deleting" /\ rel.finalizing # "InProgress" -> "mark"
                [] rel.phase = "deleting" /\ rel.finalizing = "InProgress" -> "flist"
                [] rel.phase = "live" /\ ~rel.fin -> "finalizer"
                [] rel.phase = "live" /\ rel.fin -> "apply",
       !.rel = rel,
       !.todo = IF rel.phase = "live" /\ rel.fin THEN Wanted(rel) ELSE {}]
  /\ UNCHANGED <<rel, live, faults>>

\* Reconcile returns; requeue says whether it asked to run again.
Return(requeue) ==
  /\ job' = NoJob
  /\ fresh' = FALSE
  /\ queued' = (queued \/ requeue)

\* A write of the release, refused if it has changed since it was read.  An
\* accepted one is an event of the watch, a refused one an error: both requeue.
Write(r) ==
  /\ rel' = IF fresh THEN r ELSE rel
  /\ Return(TRUE)

\* A call fails: its handler may record that in the release before it returns the
\* error, and that write may fail too.
Fails(r) ==
  /\ faults < MaxFaults
  /\ faults' = faults + 1
  /\ \/ Write(r)
     \/ rel' = rel /\ Return(TRUE)

EnsureFinalizer ==
  /\ job.pc = "finalizer"
  /\ Write([rel EXCEPT !.fin = TRUE])
  /\ UNCHANGED <<live, faults>>

\* applyResources: server-side apply of one manifest.  A terminating object keeps
\* terminating.
Apply(o) ==
  LET ver == job.rel.want[o]
  IN  /\ job.pc = "apply" /\ o \in job.todo
      /\ live' = [live EXCEPT ![o] =
           IF @.ver = ver THEN @
           ELSE [ver |-> ver, ready |-> KindOf[o] \notin Tracked, term |-> @.term]]
      /\ job' = [job EXCEPT !.todo = @ \ {o}, !.prior[o] = live[o]]
      /\ UNCHANGED <<rel, fresh, queued, faults>>

ApplyFails ==
  /\ job.pc = "apply" /\ job.todo # {}
  /\ Fails([rel EXCEPT !.applied = FALSE, !.appliedGen = rel.gen])
  /\ UNCHANGED live

findGVKsInUse(desired, inventory) == Kinds(desired) \cup Kinds(inventory)

findAllKnownGVKs(desired, inventory) == Kinds(desired) \cup Kinds(inventory) \cup WellKnown

\* What a list of the given kinds may return: an object that was just applied may
\* be seen as it was before.
IsListing(snap, kinds, applied) ==
  \A o \in Objs :
    snap[o] \in CASE KindOf[o] \notin kinds -> {None}
                 [] KindOf[o] \in kinds /\ o \in applied -> {live[o], job.prior[o]}
                 [] KindOf[o] \in kinds /\ o \notin applied -> {live[o]}
Seen == {live[o] : o \in Objs} \cup {job.prior[o] : o \in Objs} \cup {None}

findStaleResources(snap, desired) == {o \in Objs : snap[o] # None /\ o \notin desired}

List ==
  /\ job.pc = "apply" /\ job.todo = {}
  /\ \E snap \in [Objs -> Seen] :
       /\ IsListing(snap, findAllKnownGVKs(Wanted(job.rel), Inventory(job.rel)), Wanted(job.rel))
       /\ job' = [job EXCEPT !.pc = "prune", !.snap = snap, !.prior = NoJob.prior,
                             !.todo = findStaleResources(snap, Wanted(job.rel))]
  /\ UNCHANGED <<rel, live, fresh, queued, faults>>

\* deleteResources, while pruning or finalizing: one object.  An object that went
\* away since it was listed is an error.
deleteResource(o) ==
  /\ job.pc \in {"prune", "fdelete"} /\ o \in job.todo
  /\ job.snap[o].term \/ live[o] # None
  /\ live' = IF job.snap[o].term THEN live ELSE [live EXCEPT ![o].term = TRUE]
  /\ job' = [job EXCEPT !.todo = @ \ {o}]
  /\ UNCHANGED <<rel, fresh, queued, faults>>

deleteFinds404(o) ==
  /\ o \in job.todo
  /\ ~job.snap[o].term /\ live[o] = None
  /\ \/ job.pc = "prune" /\ rel' = rel /\ Return(TRUE)
     \/ job.pc = "fdelete" /\ Write([rel EXCEPT !.finalizing = "Failed"])
  /\ UNCHANGED <<live, faults>>

snapshotIsCurrent(o) == FALSE

snapshotPrecedesApply(o) ==
  KindOf[o] \in Tracked /\ job.snap[o].ver < job.rel.want[o]

Health(o) ==
  CASE job.snap[o] = None -> "Unknown"
    [] job.snap[o] # None /\ snapshotPrecedesApply(o) -> "Progressing"
    [] OTHER -> IF job.snap[o].ready THEN "Healthy" ELSE "Progressing"

\* buildResourceStatus; ver is the content that was judged.
buildResourceStatus ==
  [o \in Objs |-> IF job.rel.want[o] = 0 THEN NoEntry
                  ELSE [health |-> Health(o), ver |-> job.snap[o].ver]]

hasTransitioningResources(res) ==
  \E o \in Objs : res[o].health \in {"Progressing", "Unknown"}

RequeueWhenSettled(res) == IF hasTransitioningResources(res) THEN 0 ELSE Interval

RequeueAfter(res) ==
  IF hasTransitioningResources(res) THEN ProgressingInterval ELSE Interval

updateStatus ==
  LET done == [job.rel EXCEPT !.res = buildResourceStatus, !.applied = TRUE,
                              !.appliedGen = job.rel.gen]
  IN  /\ job.pc = "prune" /\ job.todo = {}
      /\ \/ /\ done # job.rel
            /\ Write(done)
         \/ /\ done = job.rel
            /\ UNCHANGED rel
            /\ Return(RequeueAfter(done.res) > 0)
      /\ UNCHANGED <<live, faults>>

-----------------------------------------------------------------------------
\* finalize: the condition first, in a reconcile of its own.
MarkFinalizing ==
  /\ job.pc = "mark"
  /\ Write([rel EXCEPT !.finalizing = "InProgress"])
  /\ UNCHANGED <<live, faults>>

intersectObsPlaneGVKs(inventory) == Kinds(inventory) \cap WellKnown

finalizeGVKs(r) ==
  IF Plane = "observabilityplane" THEN intersectObsPlaneGVKs(Inventory(r))
  ELSE findAllKnownGVKs({}, Inventory(r))

FinalizeList ==
  /\ job.pc = "flist"
  /\ \E snap \in [Objs -> Seen] :
       /\ IsListing(snap, finalizeGVKs(job.rel), {})
       /\ job' = [job EXCEPT !.pc = "fdelete", !.snap = snap,
                             !.todo = findStaleResources(snap, {})]
  /\ UNCHANGED <<rel, live, fresh, queued, faults>>

FinalizeOnce ==
  /\ job.pc = "fdelete" /\ job.todo = {}
  /\ \/ /\ \A o \in Objs : job.snap[o] = None
        /\ Write([rel EXCEPT !.phase = "gone", !.fin = FALSE])
     \/ /\ \E o \in Objs : job.snap[o] # None
        /\ UNCHANGED rel
        /\ Return(FALSE)
  /\ UNCHANGED <<live, faults>>

\* Nothing was listed: the finalizer goes, and with it the release.  Otherwise
\* RequeueAfter 5s, to see whether the deletions are over.
FinalizeDone ==
  /\ job.pc = "fdelete" /\ job.todo = {}
  /\ \/ /\ \A o \in Objs : job.snap[o] = None
        /\ Write([rel EXCEPT !.phase = "gone", !.fin = FALSE])
     \/ /\ \E o \in Objs : job.snap[o] # None
        /\ UNCHANGED rel
        /\ Return(TRUE)
  /\ UNCHANGED <<live, faults>>

FinalizeFails ==
  /\ job.pc = "flist" \/ (job.pc = "fdelete" /\ job.todo # {})
  /\ Fails([rel EXCEPT !.finalizing = "Failed"])
  /\ UNCHANGED live

\* A call whose error is only returned: the client, the list, a delete, the
\* status update.  A crash looks the same: after it every release is queued.
CallFails ==
  /\ ~Idle
  /\ Fails(rel)
  /\ UNCHANGED live

-----------------------------------------------------------------------------
\* The plane: a workload rolls out, a terminating object goes away, somebody
\* deletes an object.
RollOut(o) ==
  /\ live[o] # None /\ ~live[o].ready
  /\ live' = [live EXCEPT ![o].ready = TRUE]
  /\ UNCHANGED <<rel, job, fresh, queued, faults>>

Vanish(o) ==
  /\ live[o].term
  /\ live' = [live EXCEPT ![o] = None]
  /\ UNCHANGED <<rel, job, fresh, queued, faults>>

Drift(o) ==
  /\ live[o] # None /\ ~live[o].term
  /\ faults < MaxFaults
  /\ faults' = faults + 1
  /\ live' = [live EXCEPT ![o] = None]
  /\ UNCHANGED <<rel, job, fresh, queued>>

-----------------------------------------------------------------------------
Reconcile ==
  \/ Start \/ EnsureFinalizer \/ List \/ updateStatus
  \/ MarkFinalizing \/ FinalizeList \/ FinalizeDone
  \/ \E o \in Objs : Apply(o) \/ deleteResource(o) \/ deleteFinds404(o)

Faults == ApplyFails \/ FinalizeFails \/ CallFails \/ \E o \in Objs : Drift(o)

Next ==
  \/ Edit \/ Delete \/ Reconcile \/ Faults
  \/ \E o \in Objs : RollOut(o) \/ Vanish(o)

Spec == Init /\ [][Next]_vars

\* The controller's worker runs, and the plane finishes what it was told to do.
Fair ==
  /\ WF_vars(Reconcile)
  /\ \A o \in Objs : WF_vars(RollOut(o)) /\ WF_vars(Vanish(o))

FairSpec == Spec /\ Fair

-----------------------------------------------------------------------------
(***************************************************************************)
(* When a release is gone, no object of a well-known kind that it applied  *)
(* is left on its plane, whatever failed, crashed or was still terminating *)
(* on the way (finalizeDataPlane, findAllKnownGVKs: "Provides safety net   *)
(* for orphaned resources from failed reconciliations").                   *)
(***************************************************************************)
NothingLeftBehind ==
  rel.phase = "gone" => \A o \in Managed : KindOf[o] \notin WellKnown

(***************************************************************************)
(* A status that reports a generation as applied never calls a workload    *)
(* healthy for an earlier content (Reconcile, snapshotPrecedesApply).      *)
(***************************************************************************)
HealthIsCurrent ==
  \A o \in Objs :
    rel.applied /\ rel.appliedGen = rel.gen /\ KindOf[o] \in Tracked
      /\ rel.res[o].health = "Healthy"
        => rel.res[o].ver = rel.want[o]

(***************************************************************************)
(* No write of a reconcile, however old the copy it was made from, brings  *)
(* back an earlier spec or undoes a deletion (updateStatus writes the copy *)
(* that Reconcile read at its start).                                      *)
(***************************************************************************)
NeverTakenBack ==
  [][/\ rel'.gen >= rel.gen
     /\ rel'.gen = rel.gen => rel'.want = rel.want
     /\ rel.phase # "live" => rel'.phase # "live"]_vars

Settled ==
  /\ rel.applied /\ rel.appliedGen = rel.gen
  /\ \A o \in Objs :
       IF rel.want[o] # 0
       THEN live[o] = [ver |-> rel.want[o], ready |-> TRUE, term |-> FALSE]
            /\ rel.res[o].health = "Healthy"
       ELSE KindOf[o] \in WellKnown => live[o] = None

(***************************************************************************)
(* Once edits and faults end, the plane holds what the spec names, the     *)
(* objects of well-known kinds it no longer names are gone, and the status *)
(* says so: no lost event or dropped requeue leaves a release half done    *)
(* (Reconcile, updateStatus).                                              *)
(***************************************************************************)
Converges == <>[](rel.phase = "live" => Settled)

(***************************************************************************)
(* A deletion ends: the finalizer is removed once the objects it finds     *)
(* have gone, through retries and failures (finalizeDataPlane).            *)
(***************************************************************************)
DeletionEnds == (rel.phase = "deleting") ~> (rel.phase = "gone")
-----------------------------------------------------------------------------
(* Why NothingLeftBehind and HealthIsCurrent hold. *)

(***************************************************************************)
(* Nothing is on the plane, and nobody is about to put anything there,     *)
(* unless the release has its finalizer, or is gone (Reconcile adds the    *)
(* finalizer and returns before it applies anything).                      *)
(***************************************************************************)
FinalizerFirst ==
  /\ rel.phase = "live" /\ ~rel.fin => Managed = {}
  /\ rel.phase = "deleting" => rel.fin
  /\ rel.phase = "gone" => ~rel.fin
  /\ job.pc \in {"apply", "prune"} => rel.fin

(***************************************************************************)
(* A reconcile whose copy of the release is current is about to do what    *)
(* that release calls for, and a write it makes cannot bring back an older *)
(* release (Reconcile; the API server's resource version).                 *)
(***************************************************************************)
CopyIsCurrent ==
  /\ fresh => job.rel = rel
  /\ fresh /\ job.pc = "finalizer" => rel.phase = "live"
  /\ job.pc = "apply" => job.todo \subseteq Wanted(job.rel)

(***************************************************************************)
(* While a deleted release is finalized, an object of a well-known kind    *)
(* that the list did not find does not appear (finalizeDataPlane).         *)
(***************************************************************************)
ListedIsAll ==
  job.pc = "fdelete" =>
    \A o \in Objs : KindOf[o] \in WellKnown /\ job.snap[o] = None => live[o] = None

(***************************************************************************)
(* Nothing the controller holds or has applied is newer than what it was   *)
(* read from: contents on the plane and in its lists are at most those of  *)
(* the spec it works on, and those at most the ones of the spec            *)
(* (applyResources, listLiveResourcesByGVKs).                              *)
(***************************************************************************)
ContentsInOrder ==
  /\ rel.appliedGen <= rel.gen
  /\ \A o \in Objs :
       /\ {rel.want[o], job.rel.want[o], live[o].ver} \subseteq 0 .. rel.gen
       /\ rel.want[o] # 0 => {job.rel.want[o], live[o].ver} \subseteq 0 .. rel.want[o]
       /\ job.rel.want[o] # 0 =>
            {live[o].ver, job.prior[o].ver, job.snap[o].ver} \subseteq 0 .. job.rel.want[o]

(***************************************************************************)
(* The inductive invariant behind both (the whole reconcile).              *)
(***************************************************************************)
ReleaseInv ==
  /\ TypeOK
  /\ FinalizerFirst
  /\ CopyIsCurrent
  /\ Plane = "dataplane" => ListedIsAll /\ NothingLeftBehind
  /\ ContentsInOrder
  /\ HealthIsCurrent
=============================================================================
