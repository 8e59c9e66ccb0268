----------------------- MODULE RenderedReleaseProofs ------------------------
(***************************************************************************)
(* Proofs about RenderedRelease, for any manifests, kinds, intervals and   *)
(* bounds: a release that is gone has left no object of a well-known kind  *)
(* on its data plane, and a status never calls a workload healthy for a    *)
(* content older than the generation it reports.                           *)
(*                                                                         *)
(* Both rest on ReleaseInv.  Its parts are kept by three kinds of step,    *)
(* with a lemma for each: a reconcile that returns, with or without a      *)
(* write of the release; a change of the plane alone; and the steps that   *)
(* move a reconcile on.                                                    *)
(***************************************************************************)
EXTENDS RenderedRelease, TLAPS

(* A release as Reconcile reads it has the fields of its type. *)
LEMMA ReleaseFields ==
  ASSUME NEW r \in Releases
  PROVE  /\ r.phase \in {"live", "deleting", "gone"} /\ r.fin \in BOOLEAN
         /\ r.gen \in 1 .. MaxGen /\ r.appliedGen \in 0 .. MaxGen
         /\ r.want \in [Objs -> 0 .. MaxGen]
         /\ r.res \in [Objs -> Entries \cup {NoEntry}]
         /\ r.applied \in BOOLEAN /\ r.finalizing \in {"no", "InProgress", "Failed"}
BY DEF Releases, Gens

(* An object on the plane has a content, and only then (a live object of
   listLiveResourcesByGVKs). *)
LEMMA ObjectFacts ==
  ASSUME NEW v \in Objects \cup {None}
  PROVE  /\ v.ver \in 0 .. MaxGen /\ v.ready \in BOOLEAN /\ v.term \in BOOLEAN
         /\ v = None <=> v.ver = 0
         /\ v = None => ~v.term
<1>1. None.ver = 0 /\ None.ready = FALSE /\ None.term = FALSE
  BY DEF None
<1>2. CASE v = None
  <2>1. 0 \in 0 .. MaxGen
    BY BoundsAssumption
  <2>2. QED
    BY <1>1, <1>2, <2>1, Zenon
<1>3. CASE v \in Objects
  <2>1. v.ver \in 1 .. MaxGen /\ v.ready \in BOOLEAN /\ v.term \in BOOLEAN
    BY <1>3 DEF Objects, Gens
  <2>2. v.ver \in 0 .. MaxGen /\ v.ver # 0
    BY <2>1, BoundsAssumption
  <2>3. v # None
    BY <1>1, <2>2
  <2>4. QED
    BY <2>1, <2>2, <2>3
<1>4. QED
  BY <1>2, <1>3

(* A release as the release binding controller creates it. *)
LEMMA NewReleaseFacts ==
  ASSUME NEW want \in [Objs -> 0 .. MaxGen]
  PROVE  /\ NewRelease(want) \in Releases
         /\ NewRelease(want).want = want /\ NewRelease(want).gen = 1
         /\ NewRelease(want).phase = "live" /\ NewRelease(want).fin = FALSE
         /\ NewRelease(want).applied = FALSE /\ NewRelease(want).appliedGen = 0
BY BoundsAssumption DEF NewRelease, Releases, Gens

(* A worker without a reconcile holds nothing (Reconcile's locals). *)
LEMMA NoJobFacts ==
  /\ NoJob \in Jobs /\ NoJob.pc = "idle" /\ NoJob.todo = {}
  /\ \A o \in Objs : /\ NoJob.rel.want[o] = 0
                     /\ NoJob.prior[o] = None /\ NoJob.snap[o] = None
<1> DEFINE zero == [o \in Objs |-> 0]
<1>1. zero \in [Objs -> 0 .. MaxGen]
  BY BoundsAssumption
<1>2. NewRelease(zero) \in Releases /\ NewRelease(zero).want = zero
  BY <1>1, NewReleaseFacts, Zenon
<1>3. NoJob = [pc |-> "idle", rel |-> NewRelease(zero), todo |-> {},
               prior |-> [o \in Objs |-> None], snap |-> [o \in Objs |-> None]]
  BY DEF NoJob
<1>4. [o \in Objs |-> None] \in [Objs -> Objects \cup {None}]
  OBVIOUS
<1> HIDE DEF zero
<1>5. NoJob \in Jobs
  BY <1>2, <1>3, <1>4 DEF Jobs
<1>6. NoJob.rel.want = zero
  BY <1>2, <1>3
<1>7. QED
  BY <1>3, <1>5, <1>6 DEF zero

(* The types that the steps below need again and again. *)
LEMMA TypeFacts ==
  ASSUME ReleaseInv
  PROVE  /\ rel \in Releases /\ job \in Jobs /\ job.rel \in Releases
         /\ job.todo \subseteq Objs
         /\ live \in [Objs -> Objects \cup {None}]
         /\ job.prior \in [Objs -> Objects \cup {None}]
         /\ job.snap \in [Objs -> Objects \cup {None}]
         /\ fresh \in BOOLEAN /\ queued \in BOOLEAN /\ faults \in 0 .. MaxFaults
BY DEF ReleaseInv, TypeOK, Jobs

(* Nothing is newer than the spec (ContentsInOrder, object by object). *)
LEMMA OrderFacts ==
  ASSUME ReleaseInv, NEW o \in Objs
  PROVE  /\ rel.want[o] <= rel.gen /\ job.rel.want[o] <= rel.gen /\ live[o].ver <= rel.gen
         /\ rel.want[o] # 0 => job.rel.want[o] <= rel.want[o] /\ live[o].ver <= rel.want[o]
         /\ job.rel.want[o] # 0 => /\ live[o].ver <= job.rel.want[o]
                                   /\ job.prior[o].ver <= job.rel.want[o]
                                   /\ job.snap[o].ver <= job.rel.want[o]
         /\ rel.want[o] \in Nat /\ job.rel.want[o] \in Nat /\ rel.gen \in Nat
         /\ live[o].ver \in Nat /\ job.prior[o].ver \in Nat /\ job.snap[o].ver \in Nat
<1>1. rel.gen \in Nat /\ rel.want[o] \in Nat /\ job.rel.want[o] \in Nat
  BY TypeFacts, ReleaseFields, BoundsAssumption
<1>2. live[o].ver \in Nat /\ job.prior[o].ver \in Nat /\ job.snap[o].ver \in Nat
  BY TypeFacts, ObjectFacts, BoundsAssumption
<1>3. QED
  BY <1>1, <1>2 DEF ReleaseInv, ContentsInOrder


-----------------------------------------------------------------------------
(* A reconcile that returns keeps the invariant, if what it wrote keeps the
   spec and gives up the finalizer only of a release whose plane is clear
   (Reconcile, finalize). *)
LEMMA ReturnKeeps ==
  ASSUME ReleaseInv, job' = NoJob, fresh' = FALSE, live' = live, queued' \in BOOLEAN,
         faults' \in 0 .. MaxFaults,
         rel' \in Releases, rel'.want = rel.want, rel'.gen = rel.gen,
         rel'.appliedGen <= rel.gen,
         rel'.phase = "live" /\ ~rel'.fin => rel.phase = "live" /\ ~rel.fin,
         rel'.phase = "deleting" => rel'.fin,
         rel'.phase = "gone" => ~rel'.fin,
         Plane = "dataplane" => NothingLeftBehind',
         HealthIsCurrent'
  PROVE  ReleaseInv'
<1>1. job'.pc = "idle"
  BY NoJobFacts
<1>2. TypeOK'
  BY NoJobFacts, TypeFacts, Zenon DEF TypeOK
<1>3. FinalizerFirst'
  BY <1>1, Zenon DEF ReleaseInv, FinalizerFirst, Managed
<1>4. CopyIsCurrent' /\ ListedIsAll'
  BY <1>1 DEF CopyIsCurrent, ListedIsAll
<1>5. ContentsInOrder'
  <2>1. ASSUME NEW o \in Objs
        PROVE  /\ {rel'.want[o], job'.rel.want[o], live'[o].ver} \subseteq 0 .. rel'.gen
               /\ rel'.want[o] # 0 =>
                    {job'.rel.want[o], live'[o].ver} \subseteq 0 .. rel'.want[o]
               /\ job'.rel.want[o] # 0 =>
                    {live'[o].ver, job'.prior[o].ver, job'.snap[o].ver}
                      \subseteq 0 .. job'.rel.want[o]
    <3>1. job'.rel.want[o] = 0
      BY NoJobFacts
    <3>2. QED
      BY <3>1, OrderFacts
  <2>2. QED
    BY <2>1 DEF ContentsInOrder
<1>6. QED
  BY <1>2, <1>3, <1>4, <1>5 DEF ReleaseInv

(* Above all, it does if it wrote nothing (an error that is only returned). *)
LEMMA PlainReturnKeeps ==
  ASSUME ReleaseInv, job' = NoJob, fresh' = FALSE, live' = live, queued' \in BOOLEAN,
         faults' \in 0 .. MaxFaults, rel' = rel
  PROVE  ReleaseInv'
<1>1. rel.appliedGen <= rel.gen
  BY DEF ReleaseInv, ContentsInOrder
<1>2. HealthIsCurrent'
  BY DEF ReleaseInv, HealthIsCurrent
<1>3. Plane = "dataplane" => NothingLeftBehind'
  BY DEF ReleaseInv, NothingLeftBehind, Managed
<1>4. /\ rel'.phase = "deleting" => rel'.fin
      /\ rel'.phase = "gone" => ~rel'.fin
  BY DEF ReleaseInv, FinalizerFirst
<1>5. QED
  BY <1>1, <1>2, <1>3, <1>4, TypeFacts, ReturnKeeps, Zenon

(* It does if it recorded that something failed or that finalizing goes on
   (ApplyFails, FinalizeFails, MarkFinalizing). *)
LEMMA RecordKeeps ==
  ASSUME ReleaseInv, job' = NoJob, fresh' = FALSE, live' = live, queued' \in BOOLEAN,
         faults' \in 0 .. MaxFaults, rel' \in Releases,
         rel'.want = rel.want, rel'.gen = rel.gen, rel'.phase = rel.phase,
         rel'.fin = rel.fin,
         \/ rel'.appliedGen = rel.gen /\ ~rel'.applied
         \/ /\ rel'.appliedGen = rel.appliedGen /\ rel'.applied = rel.applied
            /\ rel'.res = rel.res
  PROVE  ReleaseInv'
<1>1. rel.appliedGen <= rel.gen /\ rel.gen <= rel.gen
  BY TypeFacts, ReleaseFields DEF ReleaseInv, ContentsInOrder
<1>2. rel'.appliedGen <= rel.gen
  BY <1>1
<1>3. HealthIsCurrent'
  BY Zenon DEF ReleaseInv, HealthIsCurrent
<1>4. Plane = "dataplane" => NothingLeftBehind'
  BY DEF ReleaseInv, NothingLeftBehind, Managed
<1>5. /\ rel'.phase = "deleting" => rel'.fin
      /\ rel'.phase = "gone" => ~rel'.fin
  BY DEF ReleaseInv, FinalizerFirst
<1>6. QED
  BY <1>2, <1>3, <1>4, <1>5, ReturnKeeps, Zenon


(* EnsureFinalizer: a finalizer is given to a live release only. *)
LEMMA EnsureFinalizerKeeps ==
  ASSUME ReleaseInv, EnsureFinalizer
  PROVE  ReleaseInv'
<1>1. /\ job' = NoJob /\ fresh' = FALSE /\ live' = live /\ queued' \in BOOLEAN
      /\ faults' \in 0 .. MaxFaults
  BY TypeFacts DEF EnsureFinalizer, Write, Return
<1>2. CASE fresh
  <2>1. rel' = [rel EXCEPT !.fin = TRUE] /\ rel.phase = "live"
    BY <1>2 DEF EnsureFinalizer, Write, ReleaseInv, CopyIsCurrent
  <2>2. /\ rel' \in Releases /\ rel'.fin = TRUE /\ rel'.phase = "live"
        /\ rel'.want = rel.want /\ rel'.gen = rel.gen /\ rel'.appliedGen = rel.appliedGen
        /\ rel'.applied = rel.applied /\ rel'.res = rel.res
    BY <2>1, TypeFacts, Zenon DEF Releases
  <2>3. rel'.appliedGen <= rel.gen
    BY <2>2 DEF ReleaseInv, ContentsInOrder
  <2>4. HealthIsCurrent' /\ NothingLeftBehind'
    BY <2>2 DEF ReleaseInv, HealthIsCurrent, NothingLeftBehind
  <2>5. QED
    BY <1>1, <2>2, <2>3, <2>4, ReturnKeeps, Zenon
<1>3. CASE ~fresh
  BY <1>1, <1>3, PlainReturnKeeps, Zenon DEF EnsureFinalizer, Write
<1>4. QED
  BY <1>2, <1>3

(* MarkFinalizing and a failed finalization record a reason (finalize). *)
LEMMA FinalizingKeeps ==
  ASSUME ReleaseInv, job' = NoJob, fresh' = FALSE, live' = live, queued' \in BOOLEAN,
         faults' \in 0 .. MaxFaults, NEW why \in {"InProgress", "Failed"},
         rel' = rel \/ rel' = [rel EXCEPT !.finalizing = why]
  PROVE  ReleaseInv'
<1>1. CASE rel' = rel
  BY <1>1, PlainReturnKeeps, Zenon
<1>2. CASE rel' = [rel EXCEPT !.finalizing = why]
  <2>1. /\ rel' \in Releases /\ rel'.fin = rel.fin /\ rel'.phase = rel.phase
        /\ rel'.want = rel.want /\ rel'.gen = rel.gen /\ rel'.appliedGen = rel.appliedGen
        /\ rel'.applied = rel.applied /\ rel'.res = rel.res
    BY <1>2, TypeFacts DEF Releases
  <2>2. QED
    BY <2>1, RecordKeeps, Zenon
<1>3. QED
  BY <1>1, <1>2

(* One more fault stays within the bound. *)
LEMMA OneMoreFault ==
  ASSUME ReleaseInv, faults < MaxFaults
  PROVE  faults + 1 \in 0 .. MaxFaults
BY TypeFacts, BoundsAssumption

(* A failed apply takes the condition back (applyResources' error path). *)
LEMMA ApplyFailsKeeps ==
  ASSUME ReleaseInv, ApplyFails
  PROVE  ReleaseInv'
<1>1. /\ job' = NoJob /\ fresh' = FALSE /\ live' = live /\ queued' \in BOOLEAN
      /\ faults' \in 0 .. MaxFaults
      /\ rel' = rel \/ rel' = [rel EXCEPT !.applied = FALSE, !.appliedGen = rel.gen]
  BY TypeFacts, OneMoreFault, Zenon DEF ApplyFails, Fails, Write, Return
<1>2. CASE rel' = rel
  BY <1>1, <1>2, PlainReturnKeeps, Zenon
<1>3. CASE rel' = [rel EXCEPT !.applied = FALSE, !.appliedGen = rel.gen]
  <2>1. rel.gen \in 0 .. MaxGen
    BY TypeFacts, ReleaseFields
  <2>2. /\ rel' \in Releases /\ rel'.fin = rel.fin /\ rel'.phase = rel.phase
        /\ rel'.want = rel.want /\ rel'.gen = rel.gen /\ rel'.appliedGen = rel.gen
        /\ rel'.applied = FALSE
    BY <1>3, <2>1, TypeFacts, Zenon DEF Releases
  <2>3. QED
    BY <1>1, <2>2, RecordKeeps, Zenon
<1>4. QED
  BY <1>1, <1>2, <1>3

(* The reconciles that end in an error or record that finalizing goes on. *)
LEMMA ErrorsKeep ==
  ASSUME ReleaseInv,
         \/ MarkFinalizing \/ FinalizeFails \/ CallFails
         \/ \E o \in Objs : deleteFinds404(o)
  PROVE  ReleaseInv'
<1>1. CASE MarkFinalizing
  <2>1. /\ job' = NoJob /\ fresh' = FALSE /\ live' = live /\ queued' \in BOOLEAN
        /\ faults' \in 0 .. MaxFaults
        /\ rel' = rel \/ rel' = [rel EXCEPT !.finalizing = "InProgress"]
    BY <1>1, TypeFacts DEF MarkFinalizing, Write, Return
  <2>2. QED
    BY <2>1, FinalizingKeeps, Zenon
<1>2. CASE FinalizeFails
  <2>1. /\ job' = NoJob /\ fresh' = FALSE /\ live' = live /\ queued' \in BOOLEAN
        /\ faults' \in 0 .. MaxFaults
        /\ rel' = rel \/ rel' = [rel EXCEPT !.finalizing = "Failed"]
    BY <1>2, TypeFacts, OneMoreFault, Zenon DEF FinalizeFails, Fails, Write, Return
  <2>2. QED
    BY <2>1, FinalizingKeeps, Zenon
<1>3. CASE CallFails
  <2>1. /\ job' = NoJob /\ fresh' = FALSE /\ live' = live /\ queued' \in BOOLEAN
        /\ faults' \in 0 .. MaxFaults /\ rel' = rel
    BY <1>3, TypeFacts, OneMoreFault, Zenon DEF CallFails, Fails, Write, Return
  <2>2. QED
    BY <2>1, PlainReturnKeeps, Zenon
<1>4. ASSUME NEW o \in Objs, deleteFinds404(o)
      PROVE  ReleaseInv'
  <2>1. /\ job' = NoJob /\ fresh' = FALSE /\ live' = live /\ queued' \in BOOLEAN
        /\ faults' \in 0 .. MaxFaults
        /\ rel' = rel \/ rel' = [rel EXCEPT !.finalizing = "Failed"]
    BY <1>4, TypeFacts, Zenon DEF deleteFinds404, Write, Return
  <2>2. QED
    BY <2>1, FinalizingKeeps, Zenon
<1>5. QED
  BY <1>1, <1>2, <1>3, <1>4


(* What buildResourceStatus reports: an entry for each manifest, and no workload
   healthy for a content older than the one that was applied. *)
LEMMA StatusFacts ==
  ASSUME ReleaseInv
  PROVE  /\ buildResourceStatus \in [Objs -> Entries \cup {NoEntry}]
         /\ \A o \in Objs :
              KindOf[o] \in Tracked /\ buildResourceStatus[o].health = "Healthy"
                => buildResourceStatus[o].ver = job.rel.want[o]
<1>1. ASSUME NEW o \in Objs
      PROVE  /\ buildResourceStatus[o] \in Entries \cup {NoEntry}
             /\ KindOf[o] \in Tracked /\ buildResourceStatus[o].health = "Healthy"
                  => buildResourceStatus[o].ver = job.rel.want[o]
  <2>1. CASE job.rel.want[o] = 0
    BY <2>1 DEF buildResourceStatus, NoEntry
  <2>2. CASE job.rel.want[o] # 0
    <3>1. buildResourceStatus[o] = [health |-> Health(o), ver |-> job.snap[o].ver]
      BY <2>2 DEF buildResourceStatus
    <3>2. job.snap[o].ver \in 0 .. MaxGen
      BY TypeFacts, ObjectFacts
    <3>3. Health(o) \in {"Unknown", "Progressing", "Healthy"}
      BY Zenon DEF Health
    <3>4. buildResourceStatus[o] \in Entries
      BY <3>1, <3>2, <3>3 DEF Entries
    <3>5. ASSUME KindOf[o] \in Tracked, Health(o) = "Healthy"
          PROVE  job.snap[o].ver = job.rel.want[o]
      <4>1. ~(job.snap[o].ver < job.rel.want[o])
        BY <3>5, Zenon DEF Health, snapshotPrecedesApply
      <4>2. QED
        BY <2>2, <4>1, OrderFacts
    <3>6. QED
      BY <3>1, <3>4, <3>5
  <2>3. QED
    BY <2>1, <2>2
<1>2. buildResourceStatus = [o \in Objs |-> buildResourceStatus[o]]
  BY DEF buildResourceStatus
<1>3. QED
  BY <1>1, <1>2

(* updateStatus writes what was judged, over the release that was read. *)
LEMMA UpdateStatusKeeps ==
  ASSUME ReleaseInv, updateStatus
  PROVE  ReleaseInv'
<1> DEFINE status == buildResourceStatus
           done == [job.rel EXCEPT !.res = status, !.applied = TRUE,
                                   !.appliedGen = job.rel.gen]
<1>1. /\ job.pc = "prune" /\ job' = NoJob /\ fresh' = FALSE /\ live' = live
      /\ queued' \in BOOLEAN /\ faults' \in 0 .. MaxFaults
      /\ rel' = rel \/ (fresh /\ rel' = done)
  BY TypeFacts, Zenon DEF updateStatus, Write, Return
<1>2. CASE rel' = rel
  BY <1>1, <1>2, PlainReturnKeeps, Zenon
<1>3. CASE fresh /\ rel' = done
  <2>1. job.rel = rel
    BY <1>3 DEF ReleaseInv, CopyIsCurrent
  <2>2. /\ status \in [Objs -> Entries \cup {NoEntry}]
        /\ \A o \in Objs : KindOf[o] \in Tracked /\ status[o].health = "Healthy"
             => status[o].ver = rel.want[o]
    BY <2>1, StatusFacts
  <2>3. rel.gen \in 0 .. MaxGen /\ rel.gen <= rel.gen
    BY TypeFacts, ReleaseFields
  <2> HIDE DEF status
  <2>4. rel' = [rel EXCEPT !.res = status, !.applied = TRUE, !.appliedGen = rel.gen]
    BY <1>3, <2>1
  <2>5. /\ rel' \in Releases /\ rel'.fin = rel.fin /\ rel'.phase = rel.phase
        /\ rel'.want = rel.want /\ rel'.gen = rel.gen /\ rel'.appliedGen = rel.gen
        /\ rel'.res = status
    BY <2>2, <2>3, <2>4, TypeFacts, Zenon DEF Releases
  <2>6. HealthIsCurrent'
    BY <2>2, <2>5 DEF HealthIsCurrent
  <2>7. Plane = "dataplane" => NothingLeftBehind'
    BY <1>1, <2>5 DEF ReleaseInv, NothingLeftBehind, Managed
  <2>8. /\ rel'.phase = "deleting" => rel'.fin
        /\ rel'.phase = "gone" => ~rel'.fin
    BY <2>5 DEF ReleaseInv, FinalizerFirst
  <2>9. QED
    BY <1>1, <2>3, <2>5, <2>6, <2>7, <2>8, ReturnKeeps, Zenon
<1>4. QED
  BY <1>1, <1>2, <1>3

(* The finalizer goes when a list found nothing: on a data plane, that list was
   of every well-known kind (finalizeDataPlane). *)
LEMMA FinalizeDoneKeeps ==
  ASSUME ReleaseInv, FinalizeDone
  PROVE  ReleaseInv'
<1>1. /\ job.pc = "fdelete" /\ job' = NoJob /\ fresh' = FALSE /\ live' = live
      /\ queued' \in BOOLEAN /\ faults' \in 0 .. MaxFaults
      /\ \/ rel' = rel
         \/ /\ \A o \in Objs : job.snap[o] = None
            /\ rel' = [rel EXCEPT !.phase = "gone", !.fin = FALSE]
  BY TypeFacts, Zenon DEF FinalizeDone, Write, Return
<1>2. CASE rel' = rel
  BY <1>1, <1>2, PlainReturnKeeps, Zenon
<1>3. CASE /\ \A o \in Objs : job.snap[o] = None
           /\ rel' = [rel EXCEPT !.phase = "gone", !.fin = FALSE]
  <2>1. /\ rel' \in Releases /\ rel'.fin = FALSE /\ rel'.phase = "gone"
        /\ rel'.want = rel.want /\ rel'.gen = rel.gen /\ rel'.appliedGen = rel.appliedGen
        /\ rel'.applied = rel.applied /\ rel'.res = rel.res
    BY <1>3, TypeFacts, Zenon DEF Releases
  <2>2. rel'.appliedGen <= rel.gen
    BY <2>1 DEF ReleaseInv, ContentsInOrder
  <2>3. HealthIsCurrent'
    BY <2>1 DEF ReleaseInv, HealthIsCurrent
  <2>4. Plane = "dataplane" => NothingLeftBehind'
    <3>1. Plane = "dataplane" => \A o \in Objs : KindOf[o] \in WellKnown => live[o] = None
      BY <1>1, <1>3 DEF ReleaseInv, ListedIsAll
    <3>2. QED
      BY <1>1, <3>1 DEF NothingLeftBehind, Managed
  <2>5. QED
    BY <1>1, <2>1, <2>2, <2>3, <2>4, ReturnKeeps, Zenon
<1>4. QED
  BY <1>1, <1>2, <1>3


-----------------------------------------------------------------------------
(* A change of the plane that brings no object and no content keeps the
   invariant, and so does a delete that a reconcile asks for (deleteResources,
   and the plane on its own). *)
LEMMA PlaneKeeps ==
  ASSUME ReleaseInv, UNCHANGED <<rel, fresh, queued>>, faults' \in 0 .. MaxFaults,
         job' \in Jobs, job'.pc = job.pc, job'.rel = job.rel, job'.prior = job.prior,
         job'.snap = job.snap, job'.todo \subseteq job.todo,
         live' \in [Objs -> Objects \cup {None}],
         \A o \in Objs : \/ live'[o] = None
                         \/ live[o] # None /\ live'[o].ver = live[o].ver
  PROVE  ReleaseInv'
<1>1. TypeOK'
  BY TypeFacts DEF TypeOK
<1>2. FinalizerFirst'
  BY Zenon DEF ReleaseInv, FinalizerFirst, Managed
<1>3. CopyIsCurrent'
  BY DEF ReleaseInv, CopyIsCurrent, Wanted
<1>4. ASSUME Plane = "dataplane"
      PROVE  ListedIsAll' /\ NothingLeftBehind'
  BY <1>4, Zenon DEF ReleaseInv, ListedIsAll, NothingLeftBehind, Managed
<1>5. ContentsInOrder'
  <2>1. ASSUME NEW o \in Objs
        PROVE  /\ {rel.want[o], job.rel.want[o], live'[o].ver} \subseteq 0 .. rel.gen
               /\ rel.want[o] # 0 =>
                    {job.rel.want[o], live'[o].ver} \subseteq 0 .. rel.want[o]
               /\ job.rel.want[o] # 0 =>
                    {live'[o].ver, job.prior[o].ver, job.snap[o].ver}
                      \subseteq 0 .. job.rel.want[o]
    <3>1. live'[o].ver = 0 \/ live'[o].ver = live[o].ver
      BY DEF None
    <3>2. QED
      BY <3>1, OrderFacts
  <2>2. QED
    BY <2>1 DEF ReleaseInv, ContentsInOrder
<1>6. HealthIsCurrent'
  BY DEF ReleaseInv, HealthIsCurrent
<1>7. QED
  BY <1>1, <1>2, <1>3, <1>4, <1>5, <1>6 DEF ReleaseInv

(* The objects of the plane after one of them has changed. *)
LEMMA OneObject ==
  ASSUME ReleaseInv, NEW o \in Objs, NEW v \in Objects \cup {None},
         live' = [live EXCEPT ![o] = v],
         v = None \/ (live[o] # None /\ v.ver = live[o].ver)
  PROVE  /\ live' \in [Objs -> Objects \cup {None}]
         /\ \A x \in Objs : \/ live'[x] = None
                            \/ live[x] # None /\ live'[x].ver = live[x].ver
<1>1. live \in [Objs -> Objects \cup {None}]
  BY TypeFacts
<1>2. live' \in [Objs -> Objects \cup {None}]
  BY <1>1
<1>3. ASSUME NEW x \in Objs
      PROVE  \/ live'[x] = None
             \/ live[x] # None /\ live'[x].ver = live[x].ver
  <2>1. live'[x] = IF x = o THEN v ELSE live[x]
    BY <1>1
  <2>2. QED
    BY <2>1
<1>4. QED
  BY <1>2, <1>3

(* A roll-out, an object that goes away and one that somebody deletes. *)
LEMMA PlaneStepsKeep ==
  ASSUME ReleaseInv, NEW o \in Objs, RollOut(o) \/ Vanish(o) \/ Drift(o)
  PROVE  ReleaseInv'
<1>1. /\ UNCHANGED <<rel, job, fresh, queued>> /\ faults' \in 0 .. MaxFaults
  BY TypeFacts, OneMoreFault, Zenon DEF RollOut, Vanish, Drift
<1>2. PICK v \in Objects \cup {None} :
        /\ live' = [live EXCEPT ![o] = v]
        /\ v = None \/ (live[o] # None /\ v.ver = live[o].ver)
  <2>1. CASE RollOut(o)
    <3>1. live[o] \in Objects
      BY <2>1, TypeFacts DEF RollOut
    <3>2. [live[o] EXCEPT !.ready = TRUE] \in Objects
      BY <3>1, Zenon DEF Objects
    <3>3. [live[o] EXCEPT !.ready = TRUE].ver = live[o].ver
      BY <3>1 DEF Objects
    <3>4. live' = [live EXCEPT ![o] = [live[o] EXCEPT !.ready = TRUE]]
      BY <2>1, TypeFacts DEF RollOut
    <3>5. live[o] # None
      BY <2>1 DEF RollOut
    <3>6. QED
      BY <3>2, <3>3, <3>4, <3>5, Zenon
  <2>2. CASE Vanish(o) \/ Drift(o)
    BY <2>2, Zenon DEF Vanish, Drift
  <2>3. QED
    BY <2>1, <2>2
<1>3. /\ live' \in [Objs -> Objects \cup {None}]
      /\ \A x \in Objs : \/ live'[x] = None
                         \/ live[x] # None /\ live'[x].ver = live[x].ver
  BY <1>2, OneObject, Zenon
<1>4. QED
  BY <1>1, <1>3, TypeFacts, PlaneKeeps

(* A delete that a reconcile asks for leaves the object terminating. *)
LEMMA DeleteResourceKeeps ==
  ASSUME ReleaseInv, NEW o \in Objs, deleteResource(o)
  PROVE  ReleaseInv'
<1>1. job' = [job EXCEPT !.todo = @ \ {o}]
  BY DEF deleteResource
<1>2. /\ job' \in Jobs /\ job'.pc = job.pc /\ job'.rel = job.rel /\ job'.prior = job.prior
      /\ job'.snap = job.snap /\ job'.todo \subseteq job.todo
  BY <1>1, TypeFacts DEF Jobs
<1>3. UNCHANGED <<rel, fresh, queued>> /\ faults' \in 0 .. MaxFaults
  BY TypeFacts DEF deleteResource
<1>4. CASE live' = live
  BY <1>2, <1>3, <1>4, TypeFacts, PlaneKeeps, ObjectFacts
<1>5. CASE live' # live
  <2>1. live[o] # None /\ live' = [live EXCEPT ![o].term = TRUE]
    BY <1>5 DEF deleteResource
  <2>2. live[o] \in Objects
    BY <2>1, TypeFacts
  <2>3. PICK v \in Objects : v = [live[o] EXCEPT !.term = TRUE] /\ v.ver = live[o].ver
    <3>1. [live[o] EXCEPT !.term = TRUE] \in Objects
      BY <2>2, Zenon DEF Objects
    <3>2. [live[o] EXCEPT !.term = TRUE].ver = live[o].ver
      BY <2>2 DEF Objects
    <3>3. QED
      BY <3>1, <3>2, Zenon
  <2>4. live' = [live EXCEPT ![o] = v]
    BY <2>1, <2>3, TypeFacts
  <2>5. /\ live' \in [Objs -> Objects \cup {None}]
        /\ \A x \in Objs : \/ live'[x] = None
                           \/ live[x] # None /\ live'[x].ver = live[x].ver
    BY <2>1, <2>3, <2>4, OneObject, Zenon
  <2>6. QED
    BY <1>2, <1>3, <2>5, PlaneKeeps
<1>6. QED
  BY <1>4, <1>5


-----------------------------------------------------------------------------
(* A reconcile that moves on without touching the release or the plane keeps
   the invariant, if its copies are in order (Reconcile). *)
LEMMA JobKeeps ==
  ASSUME ReleaseInv, UNCHANGED <<rel, live, faults>>, fresh' \in BOOLEAN,
         queued' \in BOOLEAN, job' \in Jobs,
         job'.pc \in {"apply", "prune"} => rel.fin,
         CopyIsCurrent',
         Plane = "dataplane" => ListedIsAll',
         \A o \in Objs :
           /\ job'.rel.want[o] <= rel.gen
           /\ rel.want[o] # 0 => job'.rel.want[o] <= rel.want[o]
           /\ job'.rel.want[o] # 0 => /\ live[o].ver <= job'.rel.want[o]
                                      /\ job'.prior[o].ver <= job'.rel.want[o]
                                      /\ job'.snap[o].ver <= job'.rel.want[o]
  PROVE  ReleaseInv'
<1>1. TypeOK'
  BY TypeFacts DEF TypeOK
<1>2. FinalizerFirst'
  BY Zenon DEF ReleaseInv, FinalizerFirst, Managed
<1>3. NothingLeftBehind = NothingLeftBehind' /\ HealthIsCurrent'
  BY DEF ReleaseInv, NothingLeftBehind, Managed, HealthIsCurrent
<1>4. ContentsInOrder'
  <2>1. ASSUME NEW o \in Objs
        PROVE  /\ {rel.want[o], job'.rel.want[o], live[o].ver} \subseteq 0 .. rel.gen
               /\ rel.want[o] # 0 =>
                    {job'.rel.want[o], live[o].ver} \subseteq 0 .. rel.want[o]
               /\ job'.rel.want[o] # 0 =>
                    {live[o].ver, job'.prior[o].ver, job'.snap[o].ver}
                      \subseteq 0 .. job'.rel.want[o]
    <3>1. job'.rel \in Releases /\ job'.prior \in [Objs -> Objects \cup {None}]
          /\ job'.snap \in [Objs -> Objects \cup {None}]
      BY DEF Jobs
    <3>2. job'.rel.want[o] \in Nat
      BY <3>1, ReleaseFields, BoundsAssumption
    <3>3. job'.prior[o].ver \in Nat /\ job'.snap[o].ver \in Nat
      BY <3>1, ObjectFacts, BoundsAssumption
    <3>4. QED
      BY <3>2, <3>3, OrderFacts
  <2>2. QED
    BY <2>1 DEF ReleaseInv, ContentsInOrder
<1>5. QED
  BY <1>1, <1>2, <1>3, <1>4, Zenon DEF ReleaseInv

(* Start reads the release and decides what it calls for (Reconcile). *)
LEMMA StartKeeps ==
  ASSUME ReleaseInv, Start
  PROVE  ReleaseInv'
<1>1. /\ UNCHANGED <<rel, live, faults>> /\ queued' \in BOOLEAN
      /\ fresh' = (rel.phase # "gone")
  BY Zenon DEF Start
<1>2. CASE rel.phase = "gone"
  <2>1. job' = NoJob /\ fresh' = FALSE
    BY <1>2, Zenon DEF Start
  <2>2. QED
    BY <1>1, <2>1, TypeFacts, PlainReturnKeeps, Zenon
<1>3. CASE rel.phase # "gone"
  <2> DEFINE pc0 == CASE rel.phase = "deleting" /\ rel.finalizing # "InProgress" -> "mark"
                      [] rel.phase = "deleting" /\ rel.finalizing = "InProgress" -> "flist"
                      [] rel.phase = "live" /\ ~rel.fin -> "finalizer"
                      [] rel.phase = "live" /\ rel.fin -> "apply"
             todo0 == IF rel.phase = "live" /\ rel.fin THEN Wanted(rel) ELSE {}
  <2>1. job' = [NoJob EXCEPT !.pc = pc0, !.rel = rel, !.todo = todo0]
    BY <1>3, Zenon DEF Start
  <2>2. rel.phase \in {"live", "deleting", "gone"} /\ rel.fin \in BOOLEAN
    BY TypeFacts, ReleaseFields
  <2>3. /\ pc0 \in {"mark", "flist", "finalizer", "apply"}
        /\ pc0 = "apply" => rel.fin
        /\ pc0 = "finalizer" => rel.phase = "live"
    BY <1>3, <2>2
  <2>4. todo0 \subseteq Wanted(rel) /\ Wanted(rel) \subseteq Objs
    BY DEF Wanted
  <2> HIDE DEF pc0, todo0
  <2>5. /\ job' \in Jobs /\ job'.pc = pc0 /\ job'.rel = rel /\ job'.todo = todo0
        /\ job'.prior = NoJob.prior /\ job'.snap = NoJob.snap
    BY <2>1, <2>3, <2>4, NoJobFacts, TypeFacts, Zenon DEF Jobs
  <2>6. CopyIsCurrent'
    <3>1. job'.todo \subseteq {o \in Objs : job'.rel.want[o] # 0}
      BY <2>4, <2>5 DEF Wanted
    <3>2. QED
      BY <1>1, <2>3, <2>5, <3>1 DEF CopyIsCurrent, Wanted
  <2>7. ListedIsAll'
    BY <2>3, <2>5 DEF ListedIsAll
  <2>8. ASSUME NEW o \in Objs
        PROVE  /\ job'.rel.want[o] <= rel.gen
               /\ rel.want[o] # 0 => job'.rel.want[o] <= rel.want[o]
               /\ job'.rel.want[o] # 0 => /\ live[o].ver <= job'.rel.want[o]
                                          /\ job'.prior[o].ver <= job'.rel.want[o]
                                          /\ job'.snap[o].ver <= job'.rel.want[o]
    <3>1. job'.prior[o].ver = 0 /\ job'.snap[o].ver = 0
      BY <2>5, NoJobFacts DEF None
    <3>2. QED
      BY <2>5, <3>1, OrderFacts
  <2>9. QED
    BY <1>1, <2>3, <2>5, <2>6, <2>7, <2>8, JobKeeps
<1>4. QED
  BY <1>2, <1>3


(* A list shows an object as it is or was, and misses none of the kinds it asks
   for, just applied ones excepted (listLiveResourcesByGVKs). *)
LEMMA ListingFacts ==
  ASSUME ReleaseInv, NEW kinds, NEW applied, NEW snap \in [Objs -> Seen],
         IsListing(snap, kinds, applied)
  PROVE  /\ snap \in [Objs -> Objects \cup {None}]
         /\ \A o \in Objs :
              /\ snap[o] \in {None, live[o], job.prior[o]}
              /\ KindOf[o] \in kinds /\ o \notin applied => snap[o] = live[o]
<1>1. ASSUME NEW o \in Objs
      PROVE  /\ snap[o] \in {None, live[o], job.prior[o]}
             /\ KindOf[o] \in kinds /\ o \notin applied => snap[o] = live[o]
  <2>1. CASE KindOf[o] \notin kinds
    BY <2>1 DEF IsListing
  <2>2. CASE KindOf[o] \in kinds /\ o \in applied
    BY <2>2 DEF IsListing
  <2>3. CASE KindOf[o] \in kinds /\ o \notin applied
    BY <2>3 DEF IsListing
  <2>4. QED
    BY <2>1, <2>2, <2>3
<1>2. ASSUME NEW o \in Objs PROVE snap[o] \in Objects \cup {None}
  BY <1>1, TypeFacts
<1>3. snap \in [Objs -> Objects \cup {None}]
  BY <1>2
<1>4. QED
  BY <1>1, <1>3

(* The list of a reconcile that has applied everything (Reconcile). *)
LEMMA ListKeeps ==
  ASSUME ReleaseInv, List
  PROVE  ReleaseInv'
<1> DEFINE kinds == findAllKnownGVKs(Wanted(job.rel), Inventory(job.rel))
           stale(s) == findStaleResources(s, Wanted(job.rel))
<1>1. PICK snap \in [Objs -> Seen] :
        /\ IsListing(snap, kinds, Wanted(job.rel))
        /\ job' = [job EXCEPT !.pc = "prune", !.snap = snap, !.prior = NoJob.prior,
                              !.todo = stale(snap)]
  BY Zenon DEF List
<1>2. job.pc = "apply" /\ UNCHANGED <<rel, live, fresh, queued, faults>>
  BY DEF List
<1>3. /\ snap \in [Objs -> Objects \cup {None}]
      /\ \A o \in Objs : snap[o] \in {None, live[o], job.prior[o]}
  BY <1>1, ListingFacts
<1>4. stale(snap) \subseteq Objs
  BY DEF findStaleResources
<1>5. NoJob.prior \in [Objs -> Objects \cup {None}]
  BY NoJobFacts DEF Jobs
<1> HIDE DEF stale, kinds
<1>6. /\ job' \in Jobs /\ job'.pc = "prune" /\ job'.rel = job.rel
      /\ job'.prior = NoJob.prior /\ job'.snap = snap
  BY <1>1, <1>3, <1>4, <1>5, TypeFacts, Zenon DEF Jobs
<1>7. rel.fin
  BY <1>2 DEF ReleaseInv, FinalizerFirst
<1>8. CopyIsCurrent' /\ ListedIsAll'
  BY <1>2, <1>6 DEF ReleaseInv, CopyIsCurrent, ListedIsAll
<1>9. ASSUME NEW o \in Objs
      PROVE  /\ job'.rel.want[o] <= rel.gen
             /\ rel.want[o] # 0 => job'.rel.want[o] <= rel.want[o]
             /\ job'.rel.want[o] # 0 => /\ live[o].ver <= job'.rel.want[o]
                                        /\ job'.prior[o].ver <= job'.rel.want[o]
                                        /\ job'.snap[o].ver <= job'.rel.want[o]
  <2>1. job'.prior[o].ver = 0
    BY <1>6, NoJobFacts DEF None
  <2>2. job'.snap[o].ver \in {0, live[o].ver, job.prior[o].ver}
    BY <1>3, <1>6 DEF None
  <2>3. QED
    BY <1>6, <2>1, <2>2, OrderFacts
<1>10. QED
  BY <1>2, <1>6, <1>7, <1>8, <1>9, TypeFacts, JobKeeps

(* The list of a finalization: on a data plane it misses no object of a
   well-known kind (finalizeDataPlane). *)
LEMMA FinalizeListKeeps ==
  ASSUME ReleaseInv, FinalizeList
  PROVE  ReleaseInv'
<1>1. PICK snap \in [Objs -> Seen] :
        /\ IsListing(snap, finalizeGVKs(job.rel), {})
        /\ job' = [job EXCEPT !.pc = "fdelete", !.snap = snap,
                              !.todo = findStaleResources(snap, {})]
  BY Zenon DEF FinalizeList
<1>2. UNCHANGED <<rel, live, fresh, queued, faults>>
  BY DEF FinalizeList
<1>3. /\ snap \in [Objs -> Objects \cup {None}]
      /\ \A o \in Objs : /\ snap[o] \in {None, live[o], job.prior[o]}
                         /\ KindOf[o] \in finalizeGVKs(job.rel) => snap[o] = live[o]
  BY <1>1, ListingFacts
<1>4. findStaleResources(snap, {}) \subseteq Objs
  BY DEF findStaleResources
<1>5. /\ job' \in Jobs /\ job'.pc = "fdelete" /\ job'.rel = job.rel
      /\ job'.prior = job.prior /\ job'.snap = snap
  BY <1>1, <1>3, <1>4, TypeFacts, Zenon DEF Jobs
<1>6. CopyIsCurrent'
  BY <1>2, <1>5 DEF ReleaseInv, CopyIsCurrent
<1>7. Plane = "dataplane" => ListedIsAll'
  <2>1. Plane = "dataplane" => WellKnown \subseteq finalizeGVKs(job.rel)
    BY DEF finalizeGVKs, findAllKnownGVKs
  <2>2. QED
    BY <1>2, <1>3, <1>5, <2>1 DEF ListedIsAll
<1>8. ASSUME NEW o \in Objs
      PROVE  /\ job'.rel.want[o] <= rel.gen
             /\ rel.want[o] # 0 => job'.rel.want[o] <= rel.want[o]
             /\ job'.rel.want[o] # 0 => /\ live[o].ver <= job'.rel.want[o]
                                        /\ job'.prior[o].ver <= job'.rel.want[o]
                                        /\ job'.snap[o].ver <= job'.rel.want[o]
  <2>1. job'.snap[o].ver \in {0, live[o].ver, job.prior[o].ver}
    BY <1>3, <1>5 DEF None
  <2>2. QED
    BY <1>5, <2>1, OrderFacts
<1>9. QED
  BY <1>2, <1>5, <1>6, <1>7, <1>8, TypeFacts, JobKeeps


(* Applying a manifest puts on the plane what the copy of the spec names, while
   the release has its finalizer (applyResources). *)
LEMMA ApplyKeeps ==
  ASSUME ReleaseInv, NEW o \in Objs, Apply(o)
  PROVE  ReleaseInv'
<1> DEFINE ver == job.rel.want[o]
           v == IF live[o].ver = ver THEN live[o]
                ELSE [ver |-> ver, ready |-> KindOf[o] \notin Tracked, term |-> live[o].term]
<1>1. /\ job.pc = "apply" /\ o \in job.todo /\ UNCHANGED <<rel, fresh, queued, faults>>
      /\ live' = [live EXCEPT ![o] = v]
      /\ job' = [job EXCEPT !.todo = @ \ {o}, !.prior[o] = live[o]]
  BY DEF Apply
<1>2. ver # 0
  BY <1>1 DEF ReleaseInv, CopyIsCurrent, Wanted
<1>3. ver \in 1 .. MaxGen
  <2>1. ver \in 0 .. MaxGen
    BY TypeFacts, ReleaseFields
  <2>2. QED
    BY <1>2, <2>1
<1>4. v \in Objects /\ v.ver = ver
  <2>1. live[o] \in Objects \cup {None} /\ live[o].term \in BOOLEAN
    BY TypeFacts, ObjectFacts
  <2>2. CASE live[o].ver = ver
    BY <1>2, <2>1, <2>2, ObjectFacts
  <2>3. CASE live[o].ver # ver
    BY <1>3, <2>1, <2>3 DEF Objects, Gens
  <2>4. QED
    BY <2>2, <2>3
<1> HIDE DEF v
<1>5. /\ live' \in [Objs -> Objects \cup {None}]
      /\ \A x \in Objs : live'[x] = IF x = o THEN v ELSE live[x]
  BY <1>1, <1>4, TypeFacts
<1>6. /\ job' \in Jobs /\ job'.pc = "apply" /\ job'.rel = job.rel /\ job'.snap = job.snap
      /\ job'.todo = job.todo \ {o} /\ job'.prior = [job.prior EXCEPT ![o] = live[o]]
  BY <1>1, TypeFacts, Zenon DEF Jobs
<1>7. TypeOK'
  BY <1>1, <1>5, <1>6, TypeFacts DEF TypeOK
<1>8. rel.fin /\ rel.phase # "gone"
  BY <1>1 DEF ReleaseInv, FinalizerFirst
<1>9. FinalizerFirst' /\ ListedIsAll' /\ NothingLeftBehind'
  BY <1>1, <1>6, <1>8 DEF ReleaseInv, FinalizerFirst, ListedIsAll, NothingLeftBehind
<1>10. CopyIsCurrent'
  BY <1>1, <1>6 DEF ReleaseInv, CopyIsCurrent, Wanted
<1>11. ContentsInOrder'
  <2>1. ASSUME NEW x \in Objs
        PROVE  /\ {rel.want[x], job.rel.want[x], live'[x].ver} \subseteq 0 .. rel.gen
               /\ rel.want[x] # 0 =>
                    {job.rel.want[x], live'[x].ver} \subseteq 0 .. rel.want[x]
               /\ job.rel.want[x] # 0 =>
                    {live'[x].ver, job'.prior[x].ver, job.snap[x].ver}
                      \subseteq 0 .. job.rel.want[x]
    <3>1. live'[x].ver \in {live[x].ver, job.rel.want[x]}
      BY <1>4, <1>5
    <3>2. job'.prior[x] \in {job.prior[x], live[x]}
      BY <1>6, TypeFacts
    <3>3. job'.prior[x].ver \in {job.prior[x].ver, live[x].ver}
      BY <3>2
    <3>4. QED
      BY <3>1, <3>3, OrderFacts
  <2>2. rel.appliedGen <= rel.gen
    BY DEF ReleaseInv, ContentsInOrder
  <2>3. rel' = rel /\ job'.rel = job.rel /\ job'.snap = job.snap
    BY <1>1, <1>6
  <2>4. QED
    BY <2>1, <2>2, <2>3, Zenon DEF ContentsInOrder
<1>12. HealthIsCurrent'
  BY <1>1 DEF ReleaseInv, HealthIsCurrent
<1>13. QED
  BY <1>7, <1>9, <1>10, <1>11, <1>12 DEF ReleaseInv

-----------------------------------------------------------------------------
(* An edit makes the recorded status one of an earlier generation, and every
   content on the plane an earlier one (the API server's generation). *)
LEMMA EditKeeps ==
  ASSUME ReleaseInv, Edit
  PROVE  ReleaseInv'
<1>1. PICK want \in [Objs -> 0 .. MaxGen] :
        /\ \A o \in Objs : want[o] \in {0, rel.want[o], rel.gen + 1}
        /\ rel' = [rel EXCEPT !.gen = @ + 1, !.want = want]
  BY Zenon DEF Edit
<1>2. rel.phase = "live" /\ rel.gen < MaxGen /\ fresh' = FALSE /\ queued' = TRUE
      /\ UNCHANGED <<live, job, faults>>
  BY DEF Edit
<1>3. rel.gen \in 1 .. MaxGen /\ rel.appliedGen \in 0 .. MaxGen /\ rel.appliedGen <= rel.gen
  BY TypeFacts, ReleaseFields DEF ReleaseInv, ContentsInOrder
<1>4. rel.gen + 1 \in 1 .. MaxGen
  BY <1>2, <1>3, BoundsAssumption
<1>5. /\ rel' \in Releases /\ rel'.gen = rel.gen + 1 /\ rel'.want = want
      /\ rel'.phase = rel.phase /\ rel'.fin = rel.fin /\ rel'.appliedGen = rel.appliedGen
  BY <1>1, <1>4, TypeFacts, Zenon DEF Releases, Gens
<1>6. TypeOK'
  BY <1>2, <1>5, TypeFacts, Zenon DEF TypeOK
<1>7. FinalizerFirst' /\ CopyIsCurrent'
  BY <1>2, <1>5 DEF ReleaseInv, FinalizerFirst, CopyIsCurrent, Managed, Wanted
<1>8. Plane = "dataplane" => ListedIsAll' /\ NothingLeftBehind'
  BY <1>2, <1>5 DEF ReleaseInv, ListedIsAll, NothingLeftBehind
<1>9. rel'.appliedGen <= rel'.gen /\ rel'.appliedGen # rel'.gen
  BY <1>3, <1>5
<1>10. HealthIsCurrent'
  BY <1>9 DEF HealthIsCurrent
<1>11. ContentsInOrder'
  <2>1. ASSUME NEW o \in Objs
        PROVE  /\ {want[o], job.rel.want[o], live[o].ver} \subseteq 0 .. rel.gen + 1
               /\ want[o] # 0 =>
                    {job.rel.want[o], live[o].ver} \subseteq 0 .. want[o]
               /\ job.rel.want[o] # 0 =>
                    {live[o].ver, job.prior[o].ver, job.snap[o].ver}
                      \subseteq 0 .. job.rel.want[o]
    <3>1. want[o] \in {0, rel.want[o], rel.gen + 1}
      BY <1>1
    <3>2. QED
      BY <3>1, OrderFacts
  <2>2. QED
    BY <1>2, <1>5, <1>9, <2>1 DEF ContentsInOrder
<1>12. QED
  BY <1>6, <1>7, <1>8, <1>10, <1>11 DEF ReleaseInv


(* A deletion removes a release at once only if it never had the finalizer, and
   then nothing is on the plane (Reconcile's order). *)
LEMMA DeleteKeeps ==
  ASSUME ReleaseInv, Delete
  PROVE  ReleaseInv'
<1> DEFINE phase == IF rel.fin THEN "deleting" ELSE "gone"
<1>1. /\ rel.phase = "live" /\ rel' = [rel EXCEPT !.phase = phase] /\ fresh' = FALSE
      /\ queued' = TRUE /\ UNCHANGED <<live, job, faults>>
  BY DEF Delete
<1>2. /\ rel' \in Releases /\ rel'.phase = phase /\ rel'.fin = rel.fin
      /\ rel'.want = rel.want /\ rel'.gen = rel.gen /\ rel'.appliedGen = rel.appliedGen
      /\ rel'.applied = rel.applied /\ rel'.res = rel.res
  BY <1>1, TypeFacts DEF Releases
<1>3. TypeOK'
  BY <1>1, <1>2, TypeFacts, Zenon DEF TypeOK
<1>4. FinalizerFirst' /\ CopyIsCurrent'
  BY <1>1, <1>2 DEF ReleaseInv, FinalizerFirst, CopyIsCurrent, Wanted
<1>5. NothingLeftBehind'
  <2>1. ~rel.fin => Managed' = {}
    BY <1>1 DEF ReleaseInv, FinalizerFirst, Managed
  <2>2. QED
    BY <1>2, <2>1 DEF NothingLeftBehind
<1>6. Plane = "dataplane" => ListedIsAll'
  BY <1>1 DEF ReleaseInv, ListedIsAll
<1>7. ContentsInOrder'
  <2>1. ContentsInOrder
    BY DEF ReleaseInv
  <2>2. live' = live /\ job' = job
    BY <1>1
  <2>3. QED
    BY <1>2, <2>1, <2>2, Zenon DEF ContentsInOrder
<1>8. HealthIsCurrent'
  BY <1>2, Zenon DEF ReleaseInv, HealthIsCurrent
<1>9. QED
  BY <1>3, <1>4, <1>5, <1>6, <1>7, <1>8 DEF ReleaseInv

-----------------------------------------------------------------------------
(* The invariant holds of a release that was just created. *)
LEMMA ReleaseInvInit == Init => ReleaseInv
<1> SUFFICES ASSUME Init PROVE ReleaseInv
  OBVIOUS
<1>1. PICK want \in [Objs -> {0, 1}] : rel = NewRelease(want)
  BY DEF Init
<1>2. want \in [Objs -> 0 .. MaxGen]
  BY BoundsAssumption
<1>3. /\ rel \in Releases /\ rel.want = want /\ rel.gen = 1 /\ rel.phase = "live"
      /\ rel.fin = FALSE /\ rel.applied = FALSE /\ rel.appliedGen = 0
  BY <1>1, <1>2, NewReleaseFacts, Zenon
<1>4. /\ live = [o \in Objs |-> None] /\ job = NoJob /\ fresh = FALSE /\ queued = TRUE
      /\ faults = 0
  BY DEF Init
<1>5. TypeOK
  <2>1. live \in [Objs -> Objects \cup {None}]
    BY <1>4
  <2>2. 0 \in 0 .. MaxFaults
    BY BoundsAssumption
  <2>3. QED
    BY <1>3, <1>4, <2>1, <2>2, NoJobFacts, Zenon DEF TypeOK
<1>6. FinalizerFirst /\ CopyIsCurrent /\ ListedIsAll /\ NothingLeftBehind
  BY <1>3, <1>4, NoJobFacts
  DEF FinalizerFirst, CopyIsCurrent, ListedIsAll, NothingLeftBehind, Managed
<1>7. ContentsInOrder
  <2>1. ASSUME NEW o \in Objs
        PROVE  want[o] \in 0 .. 1 /\ job.rel.want[o] = 0 /\ live[o].ver = 0
    BY <1>4, NoJobFacts DEF None
  <2>2. QED
    BY <1>3, <2>1 DEF ContentsInOrder
<1>8. HealthIsCurrent
  BY <1>3 DEF HealthIsCurrent
<1>9. QED
  BY <1>5, <1>6, <1>7, <1>8 DEF ReleaseInv

(* Every step of the controller, its users, the plane and the faults keeps the
   invariant. *)
LEMMA ReleaseInvStep == ReleaseInv /\ [Next]_vars => ReleaseInv'
<1> SUFFICES ASSUME ReleaseInv, [Next]_vars PROVE ReleaseInv'
  OBVIOUS
<1>1. CASE Edit \/ Delete
  BY <1>1, EditKeeps, DeleteKeeps
<1>2. CASE Start \/ EnsureFinalizer \/ List \/ updateStatus
  BY <1>2, StartKeeps, EnsureFinalizerKeeps, ListKeeps, UpdateStatusKeeps
<1>3. CASE MarkFinalizing \/ FinalizeList \/ FinalizeDone
  BY <1>3, ErrorsKeep, FinalizeListKeeps, FinalizeDoneKeeps
<1>4. CASE \E o \in Objs : Apply(o) \/ deleteResource(o) \/ deleteFinds404(o)
  BY <1>4, ApplyKeeps, DeleteResourceKeeps, ErrorsKeep
<1>5. CASE ApplyFails \/ FinalizeFails \/ CallFails
  BY <1>5, ApplyFailsKeeps, ErrorsKeep
<1>6. CASE \E o \in Objs : Drift(o) \/ RollOut(o) \/ Vanish(o)
  BY <1>6, PlaneStepsKeep
<1>7. CASE UNCHANGED vars
  BY <1>7, Zenon
  DEF vars, ReleaseInv, TypeOK, FinalizerFirst, CopyIsCurrent, ListedIsAll,
      NothingLeftBehind, ContentsInOrder, HealthIsCurrent, Managed
<1>8. QED
  BY <1>1, <1>2, <1>3, <1>4, <1>5, <1>6, <1>7 DEF Next, Reconcile, Faults

(* The inductive invariant holds throughout (the whole reconcile). *)
THEOREM ReleaseInvariant == Spec => []ReleaseInv
<1>1. QED
  BY ReleaseInvInit, ReleaseInvStep, PTL DEF Spec

(* Whatever the manifests, edits and faults, every variable keeps its type
   (RenderedRelease, RenderedManifestStatus, the locals of Reconcile). *)
THEOREM TypeCorrect == Spec => []TypeOK
<1>1. ReleaseInv => TypeOK
  BY DEF ReleaseInv
<1>2. QED
  BY <1>1, ReleaseInvariant, PTL

(* Whatever the manifests, edits and faults, a release of a data plane that is
   gone has left no object of a well-known kind there (finalizeDataPlane). *)
THEOREM PlaneIsCleared ==
  ASSUME Plane = "dataplane"
  PROVE  Spec => []NothingLeftBehind
<1>1. ReleaseInv => NothingLeftBehind
  BY DEF ReleaseInv
<1>2. QED
  BY <1>1, ReleaseInvariant, PTL

(* Whatever the manifests, edits and faults, a status that reports the current
   generation as applied calls no workload healthy for an earlier content
   (Reconcile, snapshotPrecedesApply). *)
THEOREM StatusIsCurrent == Spec => []HealthIsCurrent
<1>1. ReleaseInv => HealthIsCurrent
  BY DEF ReleaseInv
<1>2. QED
  BY <1>1, ReleaseInvariant, PTL

(* Whatever the manifests, edits and faults, anything on the plane of a release
   that is still there is guarded by the release's finalizer (Reconcile). *)
THEOREM PlaneIsGuarded == Spec => [](Managed # {} => rel.fin \/ rel.phase = "gone")
<1>1. ReleaseInv => (Managed # {} => rel.fin \/ rel.phase = "gone")
  BY TypeFacts, ReleaseFields DEF ReleaseInv, FinalizerFirst
<1>2. QED
  BY <1>1, ReleaseInvariant, PTL

(* What a step may do to the spec and the deletion of a release. *)
LEMMA StepTakesNothingBack ==
  ASSUME ReleaseInv, [Next]_vars
  PROVE  /\ rel'.gen >= rel.gen
         /\ rel'.gen = rel.gen => rel'.want = rel.want
         /\ rel.phase # "live" => rel'.phase # "live"
<1>1. rel \in Releases /\ rel.gen \in Nat
  BY TypeFacts, ReleaseFields, BoundsAssumption
<1>2. CASE rel'.gen = rel.gen /\ rel'.want = rel.want
           /\ (rel.phase # "live" => rel'.phase # "live")
  BY <1>1, <1>2
<1>3. CASE Edit
  <2>1. rel.phase = "live" /\ rel'.gen = rel.gen + 1
    BY <1>1, <1>3 DEF Edit, Releases
  <2>2. QED
    BY <1>1, <2>1
<1>4. CASE rel' = rel
  BY <1>2, <1>4
<1>5. CASE Delete
  BY <1>1, <1>2, <1>5 DEF Delete, Releases
<1>6. CASE EnsureFinalizer
  <2>1. rel' = rel \/ rel' = [rel EXCEPT !.fin = TRUE]
    BY <1>6 DEF EnsureFinalizer, Write
  <2>2. QED
    BY <1>1, <1>2, <1>4, <2>1 DEF Releases
<1>7. CASE \/ MarkFinalizing \/ FinalizeFails
           \/ \E o \in Objs : deleteFinds404(o)
  <2>1. \/ rel' = rel
        \/ \E why \in {"InProgress", "Failed"} : rel' = [rel EXCEPT !.finalizing = why]
    BY <1>7, Zenon DEF MarkFinalizing, FinalizeFails, Fails, deleteFinds404, Write
  <2>2. QED
    BY <1>1, <1>2, <1>4, <2>1 DEF Releases
<1>8. CASE ApplyFails
  <2>1. rel' = rel \/ rel' = [rel EXCEPT !.applied = FALSE, !.appliedGen = rel.gen]
    BY <1>8, Zenon DEF ApplyFails, Fails, Write
  <2>2. QED
    BY <1>1, <1>2, <1>4, <2>1, Zenon DEF Releases
<1>9. CASE FinalizeDone
  <2>1. rel' = rel \/ rel' = [rel EXCEPT !.phase = "gone", !.fin = FALSE]
    BY <1>9, Zenon DEF FinalizeDone, Write
  <2>2. QED
    BY <1>1, <1>2, <1>4, <2>1, Zenon DEF Releases
<1>10. CASE updateStatus
  <2> DEFINE status == buildResourceStatus
  <2>1. \/ rel' = rel
        \/ /\ fresh
           /\ rel' = [job.rel EXCEPT !.res = status, !.applied = TRUE,
                                     !.appliedGen = job.rel.gen]
    BY <1>10, Zenon DEF updateStatus, Write
  <2>2. fresh => job.rel = rel
    BY DEF ReleaseInv, CopyIsCurrent
  <2> HIDE DEF status
  <2>3. \/ rel' = rel
        \/ rel' = [rel EXCEPT !.res = status, !.applied = TRUE, !.appliedGen = rel.gen]
    BY <2>1, <2>2, Zenon
  <2>4. QED
    BY <1>1, <1>2, <1>4, <2>3, Zenon DEF Releases
<1>11. CASE \/ Start \/ List \/ FinalizeList \/ CallFails \/ UNCHANGED vars
            \/ \E o \in Objs : \/ Apply(o) \/ deleteResource(o)
                               \/ Drift(o) \/ RollOut(o) \/ Vanish(o)
  <2>1. rel' = rel
    BY <1>11, Zenon
    DEF Start, List, FinalizeList, CallFails, Fails, Write, vars, Apply, deleteResource,
        Drift, RollOut, Vanish
  <2>2. QED
    BY <1>4, <2>1
<1>12. QED
  BY <1>3, <1>5, <1>6, <1>7, <1>8, <1>9, <1>10, <1>11 DEF Next, Reconcile, Faults

(* Whatever the manifests, edits and faults, and however old the copy a reconcile
   writes, no write brings back an earlier spec or undoes a deletion
   (updateStatus, and the API server's resource version). *)
THEOREM NothingIsTakenBack == Spec => NeverTakenBack
<1>1. ReleaseInv /\ [Next]_vars
        => [/\ rel'.gen >= rel.gen
            /\ rel'.gen = rel.gen => rel'.want = rel.want
            /\ rel.phase # "live" => rel'.phase # "live"]_vars
  BY StepTakesNothingBack
<1>2. QED
  BY <1>1, ReleaseInvariant, PTL DEF Spec, NeverTakenBack
=============================================================================
