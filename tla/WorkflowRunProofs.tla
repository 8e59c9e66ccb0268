------------------------- MODULE WorkflowRunProofs -------------------------
(***************************************************************************)
(* Proofs about WorkflowRun, for any additional resources and any number   *)
(* of faults, with and without a TTL.                                      *)
(***************************************************************************)
EXTENDS WorkflowRun, TLAPS

\* The history grows.
Remembers ==
  /\ seen' \in Histories
  /\ seen.ended \subseteq seen'.ended
  /\ seen.excuse => seen'.excuse
  /\ seen.skipped => seen'.skipped

Quiet == run' = run /\ extras' = extras /\ Remembers

Creates ==
  /\ job.pc \in {"createRun", "updateRun"}
  /\ run' = "Pending" /\ extras' = extras /\ seen' = seen

\* Unless the reconcile does, nothing else comes closer to creating a run.
Farther == job'.pc \in Working => job.pc \in Working

(* What was true of a copy of the object stays true of it, whatever else happens:
   the engine does not take an ending back (syncWorkflowRunStatus). *)
LEMMA HonestStays ==
  ASSUME seen.ended \subseteq seen'.ended, seen.excuse => seen'.excuse
  PROVE  \A w : Honest(w) => Honest(w)'
BY DEF Honest

(* NoJob and NewRun are of their types. *)
LEMMA NoJobFacts ==
  /\ NewRun \in WorkflowRuns /\ NoJob \in Jobs
  /\ NoJob.pc = "idle" /\ NoJob.obj = NewRun
  /\ UnderFinalizer(NewRun) /\ Honest(NewRun) /\ Honest(NewRun)'
BY DEF NewRun, NoJob, WorkflowRuns, Jobs, Steps, Phases, UnderFinalizer, Honest, Finished

(* A step that does nothing to the workflow plane but start the run it was about to
   apply keeps the plane's part of the invariant (applyRenderedRunResource). *)
LEMMA PlaneKeeps ==
  ASSUME WorkflowInv, Quiet \/ Creates
  PROVE  /\ run' \in Phases
         /\ seen' \in Histories /\ extras' \subseteq Extras
         /\ run' \in Finished => run' \in seen'.ended
         /\ seen.ended \subseteq seen'.ended /\ (seen.excuse => seen'.excuse)
<1>1. seen \in Histories /\ run \in Phases /\ extras \subseteq Extras
  BY DEF WorkflowInv, TypeOK
<1>2. run \in Finished => run \in seen.ended
  BY DEF WorkflowInv, CopiesFit
<1>3. QED
  BY <1>1, <1>2 DEF Quiet, Remembers, Creates, Phases, Finished

(* Such a step leaves what was cleaned up clean: who may still create has nothing
   recorded in an object that is gone (finalize). *)
LEMMA CleanStays ==
  ASSUME WorkflowInv, Quiet \/ Creates, Farther, UNCHANGED wr,
         cache'.phase = "live" => cache.phase = "live",
         job'.pc \in {"deleteResources", "removeFinalizer"} => job' = job
  PROVE  CleansUp'
<1>1. CleansUp
  BY DEF WorkflowInv
<1>2. MayCreate' => MayCreate
  BY DEF MayCreate, Farther
<1>3. CASE Quiet
  <2>1. \A w : Cleaned(w) => Cleaned(w)'
    BY <1>3 DEF Cleaned, Quiet
  <2>2. ~seen'.skipped => ~seen.skipped
    BY <1>3 DEF Quiet, Remembers
  <2>3. QED
    BY <1>1, <1>2, <1>3, <2>1, <2>2 DEF CleansUp, Cleaned, Quiet
<1>4. CASE Creates
  <2>1. MayCreate /\ job'.pc \notin {"deleteResources", "removeFinalizer"}
    BY <1>4 DEF Creates, MayCreate, Working
  <2>2. wr.phase = "gone" => ~wr.runReference /\ wr.resources = {}
    BY <1>1, <2>1 DEF CleansUp
  <2>3. QED
    BY <2>1, <2>2 DEF CleansUp, Cleaned
<1>5. QED
  BY <1>3, <1>4

(* A reconcile that returns without a write to the object keeps the invariant. *)
LEMMA EndsKeeps ==
  ASSUME WorkflowInv, Quiet \/ Creates,
         job' = NoJob, fresh' \in BOOLEAN, queued' \in BOOLEAN, timer' \in BOOLEAN,
         UNCHANGED <<wr, cache, synced, now, cluster>>,
         faults' \in 0 .. MaxFaults
  PROVE  WorkflowInv'
<1>1. job'.pc = "idle" /\ job'.obj = NewRun /\ job' \in Jobs
  BY NoJobFacts
<1>2. Farther
  BY <1>1 DEF Farther, Working
<1>3. /\ run' \in Phases
      /\ seen' \in Histories /\ extras' \subseteq Extras
      /\ run' \in Finished => run' \in seen'.ended
      /\ seen.ended \subseteq seen'.ended /\ (seen.excuse => seen'.excuse)
  BY <1>1, <1>2, PlaneKeeps
<1>4. CleansUp'
  BY <1>1, <1>2, CleanStays
<1>5. TypeOK'
  BY <1>1, <1>3 DEF WorkflowInv, TypeOK
<1>6. CopiesFit'
  <2>1. CopiesFit
    BY DEF WorkflowInv
  <2>2. \A w \in {wr', cache', job'.obj} : UnderFinalizer(w) /\ Honest(w)'
    BY <1>1, <1>3, <2>1, HonestStays, NoJobFacts DEF CopiesFit
  <2>3. QED
    BY <1>3, <2>1, <2>2 DEF CopiesFit, UnderFinalizer, Honest
<1>7. JobFits'
  BY <1>1 DEF JobFits
<1>8. QED
  BY <1>3, <1>4, <1>5, <1>6, <1>7 DEF WorkflowInv

(* A reconcile that ends with a status to be written keeps the invariant: its copy has
   an outcome only if the object it read had none (the deferred Status().Update). *)
LEMMA FinishKeeps ==
  ASSUME WorkflowInv, Quiet \/ Creates, job.pc \in Working,
         NEW obj \in WorkflowRuns, NEW again \in BOOLEAN, Finish(obj, again),
         obj.phase = job.obj.phase, obj.finalizer = job.obj.finalizer, Honest(obj)',
         UNCHANGED <<wr, cache, synced, timer, now, cluster>>,
         faults' \in 0 .. MaxFaults
  PROVE  WorkflowInv'
<1>1. CASE Return(again)
  <2>1. job' = NoJob /\ fresh' \in BOOLEAN /\ queued' \in BOOLEAN /\ timer' \in BOOLEAN
    BY <1>1 DEF Return, WorkflowInv, TypeOK
  <2>2. QED
    BY <2>1, EndsKeeps
<1>2. CASE /\ job' = [job EXCEPT !.pc = "status", !.obj = obj, !.again = again]
           /\ UNCHANGED <<fresh, queued>>
  <2>1. job \in Jobs /\ job.pc # "idle" /\ job.pc \notin Finalizing /\ job.pc # "addFinalizer"
    BY DEF WorkflowInv, TypeOK, Working, Finalizing
  <2>2. job'.pc = "status" /\ job'.obj = obj /\ job' \in Jobs
    BY <1>2, <2>1, Zenon DEF Jobs, Steps
  <2>3. Farther
    BY <2>2 DEF Farther, Working
  <2>4. /\ run' \in Phases
        /\ seen' \in Histories /\ extras' \subseteq Extras
        /\ run' \in Finished => run' \in seen'.ended
        /\ seen.ended \subseteq seen'.ended /\ (seen.excuse => seen'.excuse)
      BY <2>2, <2>3, PlaneKeeps
  <2>5. CleansUp'
    BY <2>2, <2>3, CleanStays
  <2>6. TypeOK'
    BY <1>2, <2>2, <2>4 DEF WorkflowInv, TypeOK
  <2>7. JobFits /\ CopiesFit
    BY DEF WorkflowInv
  <2>8. /\ obj.phase = "live" /\ obj.finalizer
        /\ fresh => wr.phase = "live" /\ ~isWorkflowCompleted(wr)
    BY <2>1, <2>7 DEF JobFits, Current, isWorkflowCompleted, Waiting, Finished
  <2>9. CopiesFit'
    <3>1. \A w \in {wr', cache', job'.obj} : UnderFinalizer(w) /\ Honest(w)'
      BY <2>2, <2>4, <2>7, <2>8, HonestStays DEF CopiesFit, UnderFinalizer
    <3>2. QED
      BY <2>4, <2>7, <3>1 DEF CopiesFit, UnderFinalizer, Honest
  <2>10. JobFits'
    BY <1>2, <2>2, <2>8 DEF JobFits, Current, Working, Finalizing, isWorkflowCompleted
  <2>11. QED
    BY <2>4, <2>5, <2>6, <2>9, <2>10 DEF WorkflowInv
<1>3. QED
  BY <1>1, <1>2 DEF Finish

(* A reconcile that writes the object and returns keeps the invariant. The copy is the
   latest version, so that the write takes no deletion and no outcome back; only the
   finalizer's write lets the object go (Write). *)
LEMMA WriteKeeps ==
  ASSUME WorkflowInv, job.pc # "idle", NEW w \in WorkflowRuns, Write(w),
         job' = NoJob, fresh' = TRUE, queued' \in BOOLEAN,
         UNCHANGED <<cache, timer, env, plane, seen>>,
         UnderFinalizer(w), Honest(w),
         \/ w.phase = job.obj.phase
         \/ w.phase = "gone" /\ job.pc \in Finalizing /\ (~seen.skipped => Cleaned(w))
  PROVE  WorkflowInv'
<1>1. job'.pc = "idle" /\ job'.obj = NewRun /\ job' \in Jobs
  BY NoJobFacts
<1>2. JobFits /\ CopiesFit /\ CleansUp
  BY DEF WorkflowInv
<1>3. wr' = w /\ synced' = FALSE /\ job.obj.phase = wr.phase
  BY <1>2 DEF Write, JobFits, Current
<1>4. job.obj.phase \in {"live", "deleting"} /\ (job.pc \in Finalizing => cache.phase # "live")
  BY <1>2 DEF JobFits
<1>5. TypeOK'
  BY <1>1, <1>3, Zenon DEF WorkflowInv, TypeOK, env, plane
<1>6. CopiesFit'
  <2>1. \A v \in {wr', cache', job'.obj} : UnderFinalizer(v) /\ Honest(v)
    BY <1>1, <1>2, <1>3, NoJobFacts DEF CopiesFit
  <2>2. \A v : Honest(v)' = Honest(v)
    BY DEF Honest
  <2>3. wr'.phase = "live" => cache'.phase = "live"
    BY <1>2, <1>3, <1>4 DEF CopiesFit
  <2>4. QED
    BY <1>2, <1>3, <2>1, <2>2, <2>3 DEF CopiesFit, plane, UnderFinalizer, Honest
<1>7. JobFits'
  BY <1>1 DEF JobFits
<1>9. CleansUp'
  <2>1. wr'.phase = "gone" => ~MayCreate' /\ (~seen.skipped => Cleaned(w))
    BY <1>1, <1>3, <1>4 DEF MayCreate, Working
  <2>2. Cleaned(w) => Cleaned(wr)'
    BY <1>3 DEF Cleaned, plane
  <2>3. QED
    BY <1>1, <1>3, <2>1, <2>2 DEF CleansUp
<1>10. QED
  BY <1>5, <1>6, <1>7, <1>9 DEF WorkflowInv

(* Deleting the object keeps the invariant: without the finalizer it goes at once, and
   has nothing recorded (checkTTLExpiration and users). *)
LEMMA DeletedKeeps ==
  ASSUME WorkflowInv, wr.phase = "live", wr' = Deleted(wr), synced' = FALSE,
         \/ job' = NoJob /\ fresh' = TRUE
         \/ job' = job /\ fresh' = FALSE,
         queued' \in BOOLEAN,
         UNCHANGED <<cache, timer, env, plane, seen>>
  PROVE  WorkflowInv'
<1>1. JobFits /\ CopiesFit /\ CleansUp
  BY DEF WorkflowInv
<1>2. wr \in WorkflowRuns /\ job \in Jobs
  BY DEF WorkflowInv, TypeOK
<1>3. /\ job' \in Jobs
      /\ \/ job'.pc = "idle" /\ job'.obj = NewRun
         \/ job' = job /\ fresh' = FALSE
  BY <1>2, NoJobFacts
<1>4. /\ wr' \in WorkflowRuns
      /\ wr'.phase = IF wr.finalizer THEN "deleting" ELSE "gone"
      /\ wr'.finalizer = wr.finalizer /\ wr'.outcome = wr.outcome
      /\ wr'.runReference = wr.runReference /\ wr'.resources = wr.resources
  BY <1>2 DEF Deleted, WorkflowRuns
<1>5. TypeOK'
  BY <1>3, <1>4, Zenon DEF WorkflowInv, TypeOK, env, plane
<1>6. CopiesFit'
  <2>1. \A v : Honest(v)' = Honest(v)
    BY DEF Honest
  <2>2. UnderFinalizer(wr') /\ Honest(wr')
    BY <1>1, <1>4 DEF CopiesFit, UnderFinalizer, Honest
  <2>3. UnderFinalizer(job'.obj) /\ Honest(job'.obj)
    BY <1>1, <1>3, NoJobFacts DEF CopiesFit
  <2>4. \A v \in {wr', cache', job'.obj} : UnderFinalizer(v) /\ Honest(v)'
    BY <1>1, <2>1, <2>2, <2>3 DEF CopiesFit
  <2>5. QED
    BY <1>1, <1>4, <2>4 DEF CopiesFit, plane, UnderFinalizer, Honest
<1>7. JobFits'
  BY <1>1, <1>3 DEF JobFits
<1>9. CleansUp'
  <2>1. wr'.phase = "gone" => ~wr'.runReference /\ wr'.resources = {}
    BY <1>1, <1>4 DEF CopiesFit, UnderFinalizer
  <2>2. QED
    BY <1>1, <1>3, <2>1 DEF CleansUp, Cleaned, plane
<1>10. QED
  BY <1>5, <1>6, <1>7, <1>9 DEF WorkflowInv

(* A reconcile that goes on keeps its copy, and with it the copy's agreement with the
   object (Reconcile). *)
LEMMA GoesOnKeeps ==
  ASSUME WorkflowInv, job' \in Jobs, job'.obj = job.obj,
         job'.pc \notin {"idle", "addFinalizer"}, job.pc \notin {"idle", "addFinalizer"},
         job'.pc \in Finalizing <=> job.pc \in Finalizing,
         job'.pc \in Working => job.pc \in Working,
         UNCHANGED <<object, fresh, queued, timer, env>>,
         run' \in {run, "none"}, extras' \in SUBSET Extras, Remembers
  PROVE  TypeOK' /\ CopiesFit' /\ JobFits'
<1>1. JobFits /\ CopiesFit
  BY DEF WorkflowInv
<1>2. TypeOK'
  BY DEF WorkflowInv, TypeOK, Remembers, Phases, object, env
<1>3. CopiesFit'
  <2>1. \A v \in {wr', cache', job'.obj} : UnderFinalizer(v) /\ Honest(v)'
    BY <1>1, HonestStays DEF CopiesFit, object, Remembers
  <2>2. run' \in Finished => run' \in seen'.ended
    BY <1>1 DEF CopiesFit, Remembers, Finished
  <2>3. QED
    BY <1>1, <2>1, <2>2 DEF CopiesFit, object, UnderFinalizer, Honest
<1>4. JobFits'
  BY <1>1 DEF JobFits, Current, object, isWorkflowCompleted
<1>5. QED
  BY <1>2, <1>3, <1>4

(* The same, of a step to pc (Reconcile). *)
LEMMA GotoKeeps ==
  ASSUME WorkflowInv, NEW pc \in Steps \ {"idle", "addFinalizer"}, NEW todo \in SUBSET Extras,
         job.pc \notin {"idle", "addFinalizer"}, Goto(pc, todo),
         pc \in Finalizing <=> job.pc \in Finalizing,
         pc \in Working => job.pc \in Working,
         UNCHANGED <<object, fresh, queued, timer, env>>,
         run' \in {run, "none"}, extras' \in SUBSET Extras, Remembers
  PROVE  /\ job'.pc = pc /\ job'.todo = todo /\ job'.obj = job.obj
         /\ TypeOK' /\ CopiesFit' /\ JobFits'
<1>1. job \in Jobs
  BY DEF WorkflowInv, TypeOK
<1>2. job' \in Jobs /\ job'.pc = pc /\ job'.todo = todo /\ job'.obj = job.obj
  BY <1>1, Zenon DEF Goto, Jobs
<1>3. QED
  BY <1>2, GoesOnKeeps

(* A condition that leaves the run uncompleted (setWorkflowPlaneNotFoundCondition and the
   conditions of resolving and rendering errors). *)
LEMMA WaitingFacts ==
  ASSUME NEW obj \in WorkflowRuns, NEW reason \in Waiting
  PROVE  LET o == setWaitingCondition(obj, reason)
         IN  /\ o \in WorkflowRuns /\ o.outcome = reason /\ o.phase = obj.phase
             /\ o.finalizer = obj.finalizer /\ o.runReference = obj.runReference
BY Zenon DEF setWaitingCondition, WorkflowRuns

(* The steps that read clock, Component, Workflow, plane and run, and the TTL check
   (checkTTLExpiration, validateComponentWorkflowRun, syncWorkflowRunStatus). *)
LEMMA ReadsKeep ==
  ASSUME WorkflowInv,
         \/ checkTTLExpiration \/ TTLRequeue \/ validateComponentWorkflowRun
         \/ Resolve \/ syncWorkflowRunStatus \/ GetRun
  PROVE  WorkflowInv'
<1>1. TypeOK /\ JobFits /\ CopiesFit /\ CleansUp
  BY DEF WorkflowInv
<1>2. seen \in Histories /\ job \in Jobs /\ job.obj \in WorkflowRuns /\ faults \in 0 .. MaxFaults
  BY <1>1 DEF TypeOK, Jobs
<1>3. seen' = seen => Remembers
  BY <1>2 DEF Remembers
<1>5. \A pc \in {"ttlAgain", "resolve", "sync", "copyTTL", "apply"},
         todo \in SUBSET Extras :
        /\ Goto(pc, todo) /\ UNCHANGED <<object, fresh, queued, timer, env, plane, seen>>
        /\ IF pc = "ttlAgain" THEN job.pc = "ttl" ELSE job.pc \in Working
        => WorkflowInv'
  <2> SUFFICES ASSUME NEW pc \in {"ttlAgain", "resolve", "sync", "copyTTL", "apply"},
                      NEW todo \in SUBSET Extras,
                      Goto(pc, todo), UNCHANGED <<object, fresh, queued, timer, env, plane, seen>>,
                      IF pc = "ttlAgain" THEN job.pc = "ttl" ELSE job.pc \in Working
               PROVE  WorkflowInv'
    OBVIOUS
  <2>1. /\ pc \in Steps \ {"idle", "addFinalizer"} /\ job.pc \notin {"idle", "addFinalizer"}
        /\ pc \notin Finalizing /\ job.pc \notin Finalizing
        /\ pc \in Working => job.pc \in Working
    BY DEF Steps, Working, Finalizing
  <2>2. Remembers /\ run' = run /\ extras' = extras /\ extras \in SUBSET Extras
    BY <1>1, <1>3 DEF plane, TypeOK
  <2>3. job'.pc = pc /\ TypeOK' /\ CopiesFit' /\ JobFits'
    BY <2>1, <2>2, GotoKeeps
  <2>4. Quiet /\ Farther
    BY <2>1, <2>2, <2>3 DEF Quiet, Farther
  <2>5. /\ faults' \in 0 .. MaxFaults /\ wr' = wr /\ cache' = cache
        /\ job'.pc \notin {"deleteResources", "removeFinalizer"}
    BY <1>2, <2>1, <2>2, <2>3 DEF env, object, Finalizing
  <2>7. CleansUp'
    BY <2>4, <2>5, CleanStays
  <2>8. QED
    BY <2>3, <2>7 DEF WorkflowInv
<1>6. \A requeue \in BOOLEAN :
        /\ Return(requeue) /\ timer' \in BOOLEAN /\ UNCHANGED <<object, env, plane>> /\ Remembers
        => WorkflowInv'
  <2> SUFFICES ASSUME NEW requeue \in BOOLEAN, Return(requeue), timer' \in BOOLEAN,
                      UNCHANGED <<object, env, plane>>, Remembers
               PROVE  WorkflowInv'
    OBVIOUS
  <2>1. /\ Quiet /\ job' = NoJob /\ fresh' \in BOOLEAN /\ queued' \in BOOLEAN
        /\ UNCHANGED <<wr, cache, synced, now, cluster>>
        /\ faults' \in 0 .. MaxFaults
    BY <1>1, <1>2 DEF Return, Quiet, object, env, plane, TypeOK
  <2>2. QED
    BY <2>1, EndsKeeps
<1>7. \A obj \in WorkflowRuns, again \in BOOLEAN :
        /\ job.pc \in Working /\ Finish(obj, again) /\ UNCHANGED <<object, timer, env, plane>>
        /\ Remembers /\ obj.phase = job.obj.phase /\ obj.finalizer = job.obj.finalizer /\ Honest(obj)'
        => WorkflowInv'
  <2> SUFFICES ASSUME NEW obj \in WorkflowRuns, NEW again \in BOOLEAN,
                      job.pc \in Working, Finish(obj, again),
                      UNCHANGED <<object, timer, env, plane>>, Remembers,
                      obj.phase = job.obj.phase, obj.finalizer = job.obj.finalizer, Honest(obj)'
               PROVE  WorkflowInv'
    OBVIOUS
  <2>1. /\ Quiet /\ UNCHANGED <<wr, cache, synced, timer, now, cluster>>
        /\ faults' \in 0 .. MaxFaults
    BY <1>2 DEF Quiet, object, env, plane
  <2>2. QED
    BY <2>1, FinishKeeps
<1>8. CASE checkTTLExpiration
  <2>1. CASE now = "after" /\ wr.phase = "live"
    <3>1. /\ wr' = Deleted(wr) /\ synced' = FALSE /\ job' = NoJob /\ fresh' = TRUE
          /\ queued' \in BOOLEAN /\ UNCHANGED <<cache, timer, env, plane, seen>>
      BY <1>1, <1>8, <2>1 DEF checkTTLExpiration, Return, TypeOK
    <3>2. QED
      BY <2>1, <3>1, DeletedKeeps, Zenon
  <2>2. CASE now = "after" /\ wr.phase # "live"
    <3>1. Return(FALSE) /\ UNCHANGED <<object, timer, env, plane, seen>> /\ timer' \in BOOLEAN
      BY <1>1, <1>8, <2>2, Zenon DEF checkTTLExpiration, object, TypeOK
    <3>2. QED
      BY <1>3, <1>6, <3>1, Zenon
  <2>3. CASE now # "after"
    <3>1. /\ Goto("ttlAgain", {}) /\ UNCHANGED <<object, fresh, queued, timer, env, plane, seen>>
          /\ job.pc = "ttl"
      BY <1>8, <2>3 DEF checkTTLExpiration, object
    <3>2. QED
      BY <1>5, <3>1
  <2>4. QED
    BY <2>1, <2>2, <2>3
<1>9. CASE TTLRequeue
  <2>1. Remembers
    BY <1>2, <1>9, Zenon DEF TTLRequeue, Remembers, Histories
  <2>2. Return(FALSE) /\ timer' \in BOOLEAN /\ UNCHANGED <<object, env, plane>>
    BY <1>1, <1>9, Zenon DEF TTLRequeue, TypeOK
  <2>3. QED
    BY <1>6, <2>1, <2>2, Zenon
<1>10. PICK failed \in WorkflowRuns :
         /\ failed = setFailedCondition(job.obj) /\ failed.outcome = "Failed"
         /\ failed.phase = job.obj.phase /\ failed.finalizer = job.obj.finalizer
  <2> DEFINE o == setFailedCondition(job.obj)
  <2>1. /\ o \in WorkflowRuns /\ o.outcome = "Failed"
        /\ o.phase = job.obj.phase /\ o.finalizer = job.obj.finalizer
    BY <1>2, Zenon DEF setFailedCondition, WorkflowRuns, Finished
  <2>2. QED
    BY <2>1, Zenon
<1>11. "Failed" \in seen'.ended \/ seen'.excuse => Honest(failed)'
  BY <1>10 DEF Honest
<1>12. \A again \in BOOLEAN :
         /\ job.pc \in Working /\ Finish(failed, again) /\ UNCHANGED <<object, timer, env, plane>>
         /\ seen' = [seen EXCEPT !.excuse = TRUE]
         => WorkflowInv'
  <2> SUFFICES ASSUME NEW again \in BOOLEAN,
                      job.pc \in Working, Finish(failed, again),
                      UNCHANGED <<object, timer, env, plane>>,
                      seen' = [seen EXCEPT !.excuse = TRUE]
               PROVE  WorkflowInv'
    OBVIOUS
  <2>1. Remembers /\ seen'.excuse
    BY <1>2, Zenon DEF Remembers, Histories
  <2>2. QED
    BY <1>7, <1>10, <1>11, <2>1
<1>13. CASE validateComponentWorkflowRun
  <2>1. job.pc \in Working /\ UNCHANGED <<object, timer, env, plane>>
    BY <1>13 DEF validateComponentWorkflowRun, Working
  <2>2. CASE cluster.allowed
    <3>1. Goto("resolve", {}) /\ UNCHANGED <<object, fresh, queued, timer, env, plane, seen>>
      BY <1>13, <2>1, <2>2 DEF validateComponentWorkflowRun
    <3>2. QED
      BY <1>5, <2>1, <3>1
  <2>3. CASE ~cluster.allowed
    <3>1. Finish(failed, FALSE) /\ seen' = [seen EXCEPT !.excuse = TRUE]
      BY <1>10, <1>13, <2>3, Zenon DEF validateComponentWorkflowRun
    <3>2. QED
      BY <1>12, <2>1, <3>1, Zenon
  <2>4. QED
    BY <2>2, <2>3
<1>14. CASE Resolve
  <2>1. job.pc \in Working /\ UNCHANGED <<object, timer, env, plane>>
    BY <1>14 DEF Resolve, Working
  <2>2. CASE ~cluster.workflow
    <3>1. Finish(failed, FALSE) /\ seen' = [seen EXCEPT !.excuse = TRUE]
      BY <1>10, <1>14, <2>2, Zenon DEF Resolve
    <3>2. QED
      BY <1>12, <2>1, <3>1, Zenon
  <2>3. CASE cluster.workflow /\ ~cluster.plane
    <3>1. PICK obj \in WorkflowRuns :
            /\ obj = setWaitingCondition(job.obj, "noPlane") /\ obj.outcome = "noPlane"
            /\ obj.phase = job.obj.phase /\ obj.finalizer = job.obj.finalizer
      BY <1>2, WaitingFacts, Zenon DEF Waiting
    <3>2. Finish(obj, TRUE) /\ UNCHANGED seen
      BY <1>14, <2>3, <3>1, Zenon DEF Resolve
    <3>3. Honest(obj)'
      BY <3>1 DEF Honest
    <3>4. QED
      BY <1>3, <1>7, <2>1, <3>1, <3>2, <3>3, Zenon
  <2>4. CASE cluster.workflow /\ cluster.plane
    <3>1. PICK pc \in {"sync", "copyTTL", "apply"} :
            Goto(pc, Extras) /\ UNCHANGED <<object, fresh, queued, timer, env, plane, seen>>
      BY <1>14, <2>1, <2>4 DEF Resolve
    <3>2. QED
      BY <1>5, <2>1, <3>1
  <2>5. QED
    BY <1>1, <2>2, <2>3, <2>4 DEF TypeOK
<1>15. CASE syncWorkflowRunStatus
  <2>1. job.pc \in Working /\ UNCHANGED <<object, timer, env, plane>>
    BY <1>15 DEF syncWorkflowRunStatus, Working
  <2>2. CASE run = "Pending"
    <3>1. Return(TRUE) /\ UNCHANGED seen /\ timer' \in BOOLEAN
      BY <1>1, <1>15, <2>1, <2>2, Zenon DEF syncWorkflowRunStatus, TypeOK
    <3>2. QED
      BY <1>3, <1>6, <2>1, <3>1, Zenon
  <2>3. CASE run = "Running"
    <3>1. PICK obj \in WorkflowRuns :
            /\ obj = [job.obj EXCEPT !.running = TRUE] /\ obj.outcome = job.obj.outcome
            /\ obj.phase = job.obj.phase /\ obj.finalizer = job.obj.finalizer
      <4> DEFINE o == [job.obj EXCEPT !.running = TRUE]
      <4>1. /\ o \in WorkflowRuns /\ o.outcome = job.obj.outcome
            /\ o.phase = job.obj.phase /\ o.finalizer = job.obj.finalizer
        BY <1>2, Zenon DEF WorkflowRuns
      <4>2. QED
        BY <4>1, Zenon
    <3>2. Finish(obj, TRUE) /\ UNCHANGED seen
      BY <1>15, <2>3, <3>1, Zenon DEF syncWorkflowRunStatus
    <3>3. Honest(obj)'
      BY <1>1, <3>1, <3>2 DEF CopiesFit, Honest
    <3>4. QED
      BY <1>3, <1>7, <2>1, <3>1, <3>2, <3>3, Zenon
  <2>4. CASE run = "Succeeded"
    <3>1. PICK obj \in WorkflowRuns :
            /\ obj = setSucceededCondition(job.obj) /\ obj.outcome = "Succeeded"
            /\ obj.phase = job.obj.phase /\ obj.finalizer = job.obj.finalizer
      <4> DEFINE o == setSucceededCondition(job.obj)
      <4>1. /\ o \in WorkflowRuns /\ o.outcome = "Succeeded"
            /\ o.phase = job.obj.phase /\ o.finalizer = job.obj.finalizer
        BY <1>2, Zenon DEF WorkflowRuns, setSucceededCondition, Finished
      <4>2. QED
        BY <4>1, Zenon
    <3>2. Finish(obj, TRUE) /\ UNCHANGED seen
      BY <1>15, <2>4, <3>1, Zenon DEF syncWorkflowRunStatus
    <3>3. Honest(obj)'
      BY <1>1, <2>4, <3>1, <3>2 DEF CopiesFit, Honest, Finished
    <3>4. QED
      BY <1>3, <1>7, <2>1, <3>1, <3>2, <3>3, Zenon
  <2>5. CASE run = "Failed"
    <3>1. Finish(failed, FALSE) /\ UNCHANGED seen
      BY <1>10, <1>15, <2>5, Zenon DEF syncWorkflowRunStatus
    <3>2. Honest(failed)'
      BY <1>1, <1>11, <2>5, <3>1 DEF CopiesFit, Finished
    <3>3. QED
      BY <1>3, <1>7, <1>10, <2>1, <3>1, <3>2, Zenon
  <2>6. CASE run = "none"
    <3>1. Finish(failed, FALSE) /\ seen' = [seen EXCEPT !.excuse = TRUE]
      BY <1>10, <1>15, <2>6, Zenon DEF syncWorkflowRunStatus
    <3>2. QED
      BY <1>12, <2>1, <3>1, Zenon
  <2>7. QED
    BY <1>1, <2>2, <2>3, <2>4, <2>5, <2>6 DEF TypeOK, Phases, Finished
<1>16. CASE GetRun
  <2>1. /\ job.pc = "getRun" /\ run \in Phases /\ extras \in SUBSET Extras
        /\ UNCHANGED <<object, fresh, queued, timer, env, plane, seen>>
    BY <1>1, <1>16 DEF GetRun, TypeOK
  <2>2. PICK pc \in {"createRun", "updateRun"} : job' = [job EXCEPT !.pc = pc, !.saw = run]
    BY <1>16, Zenon DEF GetRun
  <2>3. job' \in Jobs /\ job'.pc = pc /\ job'.obj = job.obj
    BY <1>2, <2>1, <2>2, Zenon DEF Jobs, Steps
  <2>4. Remembers /\ run' = run /\ extras' = extras
    BY <1>3, <2>1 DEF plane
  <2>5. TypeOK' /\ CopiesFit' /\ JobFits'
    BY <2>1, <2>3, <2>4, GoesOnKeeps DEF Working, Finalizing
  <2>6. CleansUp'
    BY <2>1, <2>3, <2>4, CleanStays DEF Quiet, Farther, Working, object
  <2>7. QED
    BY <2>5, <2>6 DEF WorkflowInv
<1>17. QED
  BY <1>8, <1>9, <1>13, <1>14, <1>15, <1>16

(* The writes to the object (ensureFinalizer, the copied TTL, Status().Update). *)
LEMMA WritesKeep ==
  ASSUME WorkflowInv, ensureFinalizer \/ copyTTL \/ StatusUpdate \/ removeFinalizer
  PROVE  WorkflowInv'
<1>1. TypeOK /\ JobFits /\ CopiesFit /\ CleansUp
  BY DEF WorkflowInv
<1>2. job \in Jobs /\ job.obj \in WorkflowRuns /\ seen \in Histories /\ faults \in 0 .. MaxFaults
  BY <1>1 DEF TypeOK, Jobs
<1>3. UnderFinalizer(job.obj) /\ Honest(job.obj)
  BY <1>1 DEF CopiesFit
<1>4. \A requeue \in BOOLEAN :
        Return(requeue) /\ UNCHANGED <<object, timer, env, plane, seen>> => WorkflowInv'
  <2> SUFFICES ASSUME NEW requeue \in BOOLEAN, Return(requeue),
                      UNCHANGED <<object, timer, env, plane, seen>>
               PROVE  WorkflowInv'
    OBVIOUS
  <2>1. Remembers
    BY <1>2 DEF Remembers
  <2>2. /\ Quiet /\ job' = NoJob /\ fresh' \in BOOLEAN /\ queued' \in BOOLEAN /\ timer' \in BOOLEAN
        /\ UNCHANGED <<wr, cache, synced, now, cluster>>
        /\ faults' \in 0 .. MaxFaults
    BY <1>1, <1>2, <2>1 DEF Return, Quiet, object, env, plane, TypeOK
  <2>3. QED
    BY <2>2, EndsKeeps
<1>5. CASE ensureFinalizer
  <2> DEFINE w == [job.obj EXCEPT !.finalizer = TRUE]
  <2>1. w \in WorkflowRuns /\ w.phase = job.obj.phase /\ w.finalizer /\ w.outcome = job.obj.outcome
    BY <1>2, Zenon DEF WorkflowRuns
  <2>2. UnderFinalizer(w) /\ Honest(w)
    BY <1>3, <2>1 DEF UnderFinalizer, Honest
  <2>3. CASE Write(w) /\ Return(FALSE)
    <3>1. /\ job' = NoJob /\ fresh' = TRUE /\ queued' \in BOOLEAN /\ job.pc # "idle"
          /\ UNCHANGED <<cache, timer, env, plane, seen>>
      BY <1>1, <1>5, <2>3 DEF ensureFinalizer, Return, TypeOK
    <3>2. QED
      BY <2>1, <2>2, <2>3, <3>1, WriteKeeps, Zenon
  <2>4. CASE UNCHANGED <<wr, synced>> /\ Return(TRUE)
    BY <1>4, <1>5, <2>4, Zenon DEF ensureFinalizer, object
  <2>5. QED
    BY <1>5, <2>3, <2>4, Zenon DEF ensureFinalizer
<1>6. CASE copyTTL
  <2> DEFINE w == [job.obj EXCEPT !.ttl = TRUE]
  <2>1. /\ w \in WorkflowRuns /\ w.phase = job.obj.phase /\ w.finalizer = job.obj.finalizer
        /\ w.outcome = job.obj.outcome /\ w.runReference = job.obj.runReference
        /\ w.resources = job.obj.resources
    BY <1>2, Zenon DEF WorkflowRuns
  <2>2. UnderFinalizer(w) /\ Honest(w)
    BY <1>3, <2>1 DEF UnderFinalizer, Honest
  <2>3. CASE Write(w)
    <3>1. /\ job' = NoJob /\ fresh' = TRUE /\ queued' \in BOOLEAN /\ job.pc # "idle"
          /\ UNCHANGED <<cache, timer, env, plane, seen>>
      BY <1>1, <1>6 DEF copyTTL, Return, TypeOK
    <3>2. QED
      BY <2>1, <2>2, <2>3, <3>1, WriteKeeps, Zenon
  <2>4. CASE UNCHANGED <<wr, synced>>
    BY <1>4, <1>6, <2>4, Zenon DEF copyTTL, object
  <2>5. QED
    BY <1>6, <2>3, <2>4 DEF copyTTL
<1>7. CASE StatusUpdate
  <2>1. CASE Write(job.obj) /\ Return(job.again)
    <3>1. /\ job' = NoJob /\ fresh' = TRUE /\ queued' \in BOOLEAN /\ job.pc # "idle"
          /\ UNCHANGED <<cache, timer, env, plane, seen>>
      BY <1>1, <1>7, <2>1 DEF StatusUpdate, Return, TypeOK
    <3>2. QED
      BY <1>2, <1>3, <2>1, <3>1, WriteKeeps
  <2>2. CASE UNCHANGED <<wr, synced>> /\ Return(TRUE)
    BY <1>4, <1>7, <2>2, Zenon DEF StatusUpdate, object
  <2>3. QED
    BY <1>7, <2>1, <2>2, Zenon DEF StatusUpdate
<1>8. CASE removeFinalizer
  <2> DEFINE w == [job.obj EXCEPT !.finalizer = FALSE, !.phase = "gone"]
  <2>1. /\ w \in WorkflowRuns /\ w.phase = "gone"
        /\ w.outcome = job.obj.outcome /\ w.runReference = job.obj.runReference
        /\ w.resources = job.obj.resources
    BY <1>2, Zenon DEF WorkflowRuns
  <2>2. UnderFinalizer(w) /\ Honest(w)
    BY <1>3, <2>1 DEF UnderFinalizer, Honest
  <2>3. job.pc \in Finalizing /\ job.pc # "idle" /\ (~seen.skipped => Cleaned(w))
    BY <1>1, <1>8, <2>1 DEF removeFinalizer, Finalizing, CleansUp, Cleaned
  <2>4. CASE Write(w) /\ Return(FALSE)
    <3>1. /\ job' = NoJob /\ fresh' = TRUE /\ queued' \in BOOLEAN
          /\ UNCHANGED <<cache, timer, env, plane, seen>>
      BY <1>1, <1>8, <2>4 DEF removeFinalizer, Return, TypeOK
    <3>2. QED
      BY <2>1, <2>2, <2>3, <2>4, <3>1, WriteKeeps, Zenon
  <2>5. CASE UNCHANGED <<wr, synced>> /\ Return(TRUE)
    BY <1>4, <1>8, <2>5, Zenon DEF removeFinalizer, object
  <2>6. QED
    BY <1>8, <2>4, <2>5, Zenon DEF removeFinalizer
<1>9. QED
  BY <1>5, <1>6, <1>7, <1>8

(* Creating the additional resources and the run (applyRenderedResources,
   applyRenderedRunResource). *)
LEMMA AppliesKeep ==
  ASSUME WorkflowInv, applyRenderedResources \/ CreateRun \/ UpdateRun
  PROVE  WorkflowInv'
<1>1. TypeOK /\ JobFits /\ CopiesFit /\ CleansUp
  BY DEF WorkflowInv
<1>2. /\ job \in Jobs /\ job.obj \in WorkflowRuns /\ seen \in Histories
      /\ job.todo \in SUBSET Extras
      /\ faults \in 0 .. MaxFaults
  BY <1>1, FaultsAssumption DEF TypeOK, Jobs
<1>3. CASE applyRenderedResources
  <2>1. /\ job.pc = "apply" /\ UNCHANGED <<object, fresh, queued, timer, env, run, seen>>
        /\ job.pc \in Working /\ MayCreate
    BY <1>3 DEF applyRenderedResources, Working, MayCreate
  <2>2. Remembers /\ wr.phase = "gone" => ~wr.runReference /\ wr.resources = {}
    BY <1>1, <1>2, <2>1 DEF Remembers, CleansUp
  <2>3. ASSUME NEW e \in job.todo, extras' = extras \cup {e}, Goto("apply", job.todo \ {e})
        PROVE  WorkflowInv'
    <3>1. /\ extras' \in SUBSET Extras /\ job.todo \ {e} \in SUBSET Extras /\ run' \in {run, "none"}
          /\ Remembers
      BY <1>1, <1>2, <2>1, <2>3 DEF TypeOK, Remembers
    <3>2. job'.pc = "apply" /\ TypeOK' /\ CopiesFit' /\ JobFits'
      BY <2>1, <2>3, <3>1, GotoKeeps DEF Steps, Working, Finalizing
    <3>4. CleansUp'
      BY <2>1, <2>2, <3>1, <3>2 DEF CleansUp, Cleaned, object
    <3>5. QED
      BY <3>2, <3>4 DEF WorkflowInv
  <2>4. ASSUME job' = [job EXCEPT !.pc = "getRun", !.obj.resources = Extras,
                                  !.dirty = job.obj.resources # Extras],
               extras' = extras
        PROVE  WorkflowInv'
    <3>1. /\ job' \in Jobs /\ job'.pc = "getRun"
          /\ job'.obj.phase = job.obj.phase /\ job'.obj.finalizer = job.obj.finalizer
          /\ job'.obj.outcome = job.obj.outcome /\ job'.obj.completedAt = job.obj.completedAt
      BY <1>2, <2>4, Zenon DEF Jobs, WorkflowRuns, Steps
    <3>2. TypeOK'
      BY <1>1, <2>1, <2>4, <3>1 DEF TypeOK, object, env
    <3>3. job.obj.phase = "live" /\ job.obj.finalizer /\ job.obj.outcome \in Waiting
      BY <1>1, <2>1 DEF JobFits, Working, Finalizing
    <3>4. CopiesFit'
      <4>1. UnderFinalizer(job'.obj) /\ Honest(job'.obj)
        BY <3>1, <3>3 DEF UnderFinalizer, Honest, Waiting
      <4>2. QED
        BY <1>1, <2>1, <4>1 DEF CopiesFit, object, UnderFinalizer, Honest
    <3>5. JobFits'
      <4>1. fresh' => Current'
        BY <1>1, <2>1, <3>1, <3>3 DEF JobFits, Current, object, isWorkflowCompleted
      <4>2. QED
        BY <3>1, <3>3, <4>1 DEF JobFits, Finalizing
    <3>7. CleansUp'
      BY <1>1, <2>1, <2>2, <2>4, <3>1 DEF CleansUp, Cleaned, object
    <3>8. QED
      BY <3>2, <3>4, <3>5, <3>7 DEF WorkflowInv
  <2>5. QED
    BY <1>3, <2>3, <2>4, Zenon DEF applyRenderedResources
<1>4. PICK recorded \in WorkflowRuns :
        /\ recorded = [job.obj EXCEPT !.runReference = TRUE] /\ recorded.outcome = job.obj.outcome
        /\ recorded.phase = job.obj.phase /\ recorded.finalizer = job.obj.finalizer
  <2> DEFINE o == [job.obj EXCEPT !.runReference = TRUE]
  <2>1. /\ o \in WorkflowRuns /\ o.outcome = job.obj.outcome
        /\ o.phase = job.obj.phase /\ o.finalizer = job.obj.finalizer
    BY <1>2, Zenon DEF WorkflowRuns
  <2>2. QED
    BY <2>1, Zenon
<1>5. job.pc \in Working => Honest(recorded)'
  BY <1>1, <1>4 DEF JobFits, Working, Waiting, Honest
<1>6. CASE CreateRun \/ UpdateRun
  <2>1. /\ job.pc \in {"createRun", "updateRun"} /\ job.pc \in Working
        /\ UNCHANGED <<wr, cache, synced, timer, now, cluster, extras, seen>>
        /\ faults' \in 0 .. MaxFaults
    BY <1>2, <1>6, Zenon DEF CreateRun, UpdateRun, Working, object, env
  <2>2. CASE run' = "Pending" /\ Finish(recorded, TRUE)
    BY <1>4, <1>5, <2>1, <2>2, FinishKeeps, Zenon DEF Creates
  <2>3. CASE run' = run /\ Finish(job.obj, TRUE)
    <3>1. PICK obj \in WorkflowRuns : obj = job.obj
      BY <1>2
    <3>2. Honest(obj)' /\ Finish(obj, TRUE) /\ Quiet
      BY <1>1, <1>2, <2>1, <2>3, <3>1, Zenon DEF CopiesFit, Honest, Quiet, Remembers
    <3>3. QED
      BY <2>1, <3>1, <3>2, FinishKeeps, Zenon
  <2>4. QED
    BY <1>4, <1>6, <2>2, <2>3, Zenon DEF CreateRun, UpdateRun, recordRun
<1>7. QED
  BY <1>3, <1>6

(* Cleaning up what the copy records (finalize). *)
LEMMA FinalizeKeeps ==
  ASSUME WorkflowInv, finalize \/ DeleteResources
  PROVE  WorkflowInv'
<1>1. TypeOK /\ JobFits /\ CopiesFit /\ CleansUp
  BY DEF WorkflowInv
<1>2. /\ job \in Jobs /\ job.obj \in WorkflowRuns /\ seen \in Histories
      /\ job.todo \in SUBSET Extras /\ job.obj.resources \in SUBSET Extras
      /\ extras \in SUBSET Extras /\ {} \in SUBSET Extras
  BY <1>1 DEF TypeOK, Jobs, WorkflowRuns
<1>3. ASSUME NEW pc \in {"deleteResources", "removeFinalizer"}, NEW todo \in SUBSET Extras,
             Goto(pc, todo), job.pc \in {"finalize", "deleteResources"},
             UNCHANGED <<object, fresh, queued, timer, env>>,
             run' \in {run, "none"}, extras' \in SUBSET extras, Remembers,
             ~seen'.skipped =>
               IF pc = "deleteResources" THEN extras' \cap job.obj.resources \subseteq todo
               ELSE (job.obj.runReference => run' = "none") /\ extras' \cap job.obj.resources = {}
      PROVE  WorkflowInv'
  <2>1. /\ pc \in Steps \ {"idle", "addFinalizer"} /\ job.pc \notin {"idle", "addFinalizer"}
        /\ pc \in Finalizing /\ job.pc \in Finalizing /\ pc \notin Working
        /\ extras' \in SUBSET Extras
    BY <1>2, <1>3 DEF Steps, Finalizing, Working
  <2>2. job'.pc = pc /\ job'.todo = todo /\ job'.obj = job.obj /\ TypeOK' /\ CopiesFit' /\ JobFits'
    BY <1>3, <2>1, GotoKeeps
  <2>3. ~MayCreate' /\ wr' = wr /\ faults' = faults
    BY <1>1, <1>3, <2>1, <2>2 DEF MayCreate, JobFits, object, env
  <2>5. CleansUp'
    <3>1. ~seen'.skipped => ~seen.skipped
      BY <1>3 DEF Remembers
    <3>2. ~seen'.skipped /\ wr'.phase = "gone" => Cleaned(wr)'
      BY <1>1, <1>3, <2>3, <3>1 DEF CleansUp, Cleaned
    <3>3. QED
      BY <1>3, <2>2, <2>3, <3>2 DEF CleansUp, Cleaned
  <2>6. QED
    BY <2>2, <2>5 DEF WorkflowInv
<1>4. CASE finalize
  <2>1. /\ job.pc = "finalize" /\ UNCHANGED <<object, fresh, queued, timer, env>>
        /\ run' = run /\ extras' = extras
    BY <1>4 DEF finalize, plane
  <2>2. CASE ~cluster.workflow \/ ~cluster.plane
    <3>1. Goto("removeFinalizer", {}) /\ seen' = [seen EXCEPT !.skipped = TRUE]
      BY <1>4, <2>2 DEF finalize
    <3>2. Remembers /\ seen'.skipped
      BY <1>2, <3>1, Zenon DEF Remembers, Histories
    <3>3. QED
      BY <1>2, <1>3, <2>1, <3>1, <3>2
  <2>3. CASE ~(~cluster.workflow \/ ~cluster.plane)
    <3>1. Goto("deleteResources", job.obj.resources) /\ seen' = seen
      BY <1>4, <2>3 DEF finalize
    <3>2. Remembers
      BY <1>2, <3>1 DEF Remembers
    <3>3. QED
      BY <1>2, <1>3, <2>1, <3>1, <3>2
  <2>4. QED
    BY <2>2, <2>3
<1>5. CASE DeleteResources
  <2>1. /\ job.pc = "deleteResources" /\ UNCHANGED <<object, fresh, queued, timer, env>>
        /\ seen' = seen /\ Remembers
        /\ ~seen.skipped => extras \cap job.obj.resources \subseteq job.todo
    BY <1>1, <1>2, <1>5 DEF DeleteResources, Remembers, CleansUp
  <2>2. ASSUME NEW e \in job.todo, extras' = extras \ {e}, Goto("deleteResources", job.todo \ {e}),
               run' = run
        PROVE  WorkflowInv'
    <3>1. job.todo \ {e} \in SUBSET Extras /\ extras' \in SUBSET extras
      BY <1>2, <2>2
    <3>2. ~seen'.skipped => extras' \cap job.obj.resources \subseteq job.todo \ {e}
      BY <2>1, <2>2
    <3>3. QED
      BY <1>3, <2>1, <2>2, <3>1, <3>2
  <2>3. ASSUME job.todo = {}, run' = IF job.obj.runReference THEN "none" ELSE run,
               Goto("removeFinalizer", {}), extras' = extras
        PROVE  WorkflowInv'
    <3>1. /\ run' \in {run, "none"} /\ (job.obj.runReference => run' = "none")
          /\ ~seen'.skipped => extras' \cap job.obj.resources = {}
      BY <2>1, <2>3
    <3>2. QED
      BY <1>2, <1>3, <2>1, <2>3, <3>1
  <2>4. QED
    BY <1>5, <2>2, <2>3, Zenon DEF DeleteResources
<1>6. QED
  BY <1>4, <1>5

(* A reconcile starts with the cached object: it may create only if that is live, and
   agrees with the object if the cache does (Reconcile). *)
LEMMA StartKeeps ==
  ASSUME WorkflowInv, Start
  PROVE  WorkflowInv'
<1>1. TypeOK /\ JobFits /\ CopiesFit /\ CleansUp
  BY DEF WorkflowInv
<1>2. /\ cache \in WorkflowRuns /\ UnderFinalizer(cache) /\ Honest(cache)
      /\ seen \in Histories /\ faults \in 0 .. MaxFaults
  BY <1>1, FaultsAssumption DEF TypeOK, CopiesFit
<1>3. /\ queued' = FALSE /\ fresh' = synced /\ job.pc = "idle"
      /\ UNCHANGED <<wr, cache, synced, timer, now, cluster, faults, run, extras, seen>>
  BY DEF Start, object, env, plane
<1>4. Quiet
  BY <1>2, <1>3 DEF Quiet, Remembers
<1>5. CASE job' = NoJob
  BY <1>1, <1>2, <1>3, <1>4, <1>5, EndsKeeps, Zenon DEF TypeOK
<1>6. ASSUME NEW pc \in Steps \ {"idle", "deleteResources", "removeFinalizer"},
             NEW obj \in WorkflowRuns, NEW again \in BOOLEAN,
             job' = [NoJob EXCEPT !.pc = pc, !.obj = obj, !.again = again],
             cache.phase = IF pc = "finalize" THEN "deleting" ELSE "live",
             pc # "addFinalizer" => cache.finalizer,
             pc \in Working => cache.outcome \in Waiting,
             obj.phase = cache.phase, obj.finalizer = cache.finalizer,
             obj.runReference = cache.runReference, obj.resources = cache.resources,
             isWorkflowCompleted(cache) \/ isWorkflowCompleted(obj) \/ pc \in Working
               => obj.outcome = cache.outcome,
             cache.completedAt => obj.completedAt
      PROVE  WorkflowInv'
  <2>1. job' \in Jobs /\ job'.pc = pc /\ job'.obj = obj
    BY <1>6, NoJobFacts, Zenon DEF Jobs
  <2>2. pc \notin Finalizing \/ pc = "finalize"
    BY <1>6 DEF Finalizing
  <2>3. TypeOK'
    BY <1>1, <1>3, <2>1, Zenon DEF TypeOK
  <2>4. UnderFinalizer(obj) /\ Honest(obj)
    BY <1>2, <1>6 DEF UnderFinalizer, Honest, isWorkflowCompleted, Finished
  <2>5. CopiesFit'
    <3>1. Honest(obj)' /\ Honest(wr)' /\ Honest(cache)'
      BY <1>1, <1>3, <2>4 DEF CopiesFit, Honest
    <3>2. /\ UnderFinalizer(job'.obj) /\ Honest(job.obj)'
          /\ UnderFinalizer(wr') /\ UnderFinalizer(cache')
      BY <1>1, <1>3, <2>1, <2>4, <3>1 DEF CopiesFit, Honest
    <3>3. QED
      BY <1>1, <1>3, <3>1, <3>2 DEF CopiesFit, UnderFinalizer
  <2>6. MayCreate' => MayCreate
    BY <1>3, <1>6, <2>1 DEF MayCreate, Working
  <2>8. CleansUp'
    BY <1>1, <1>3, <1>6, <2>1, <2>6 DEF CleansUp, Cleaned
  <2>9. JobFits'
    <3>1. fresh' => Current'
      BY <1>1, <1>3, <1>6, <2>1 DEF CopiesFit, Current, isWorkflowCompleted
    <3>2. pc \in Working => obj.outcome \in Waiting
      BY <1>6
    <3>3. pc = "finalize" => cache'.phase # "live"
      BY <1>3, <1>6
    <3>4. job'.obj.phase = IF job'.pc \in Finalizing THEN "deleting" ELSE "live"
      BY <1>6, <2>1, <2>2 DEF Finalizing
    <3>5. QED
      BY <1>6, <2>1, <2>2, <3>1, <3>2, <3>3, <3>4 DEF JobFits
  <2>10. QED
    BY <2>3, <2>5, <2>8, <2>9 DEF WorkflowInv
<1>7. CASE cache.phase = "gone"
  BY <1>5, <1>7 DEF Start
<1>8. CASE cache.phase = "deleting"
  <2>1. job' = [NoJob EXCEPT !.pc = "finalize", !.obj = cache, !.again = FALSE]
    BY <1>8 DEF Start
  <2>2. cache.finalizer
    BY <1>2, <1>8 DEF UnderFinalizer
  <2>3. QED
    BY <1>2, <1>6, <1>8, <2>1, <2>2, Zenon DEF Steps, Working
<1>9. CASE cache.phase = "live" /\ ~cache.finalizer
  <2>1. job' = [NoJob EXCEPT !.pc = "addFinalizer", !.obj = cache, !.again = FALSE]
    BY <1>9, Zenon DEF Start
  <2>2. QED
    BY <1>2, <1>6, <1>9, <2>1, Zenon DEF Steps, Working
<1>10. CASE cache.phase = "live" /\ cache.finalizer /\ cache.completedAt /\ cache.ttl
  <2>1. job' = [NoJob EXCEPT !.pc = "ttl", !.obj = cache, !.again = FALSE]
    BY <1>10 DEF Start
  <2>2. /\ "ttl" \in Steps \ {"idle", "deleteResources", "removeFinalizer"}
        /\ "ttl" \notin Working
    BY DEF Steps, Working
  <2>3. QED
    BY <1>2, <1>6, <1>10, <2>1, <2>2, Zenon
<1>11. CASE /\ cache.phase = "live" /\ cache.finalizer /\ ~(cache.completedAt /\ cache.ttl)
            /\ isWorkflowCompleted(cache)
  <2>1. CASE cache.completedAt
    BY <1>5, <1>11, <2>1, Zenon DEF Start, isWorkflowCompleted, Waiting, Finished
  <2>2. CASE ~cache.completedAt
    <3> DEFINE o == [cache EXCEPT !.completedAt = TRUE]
    <3>1. job' = [NoJob EXCEPT !.pc = "status", !.obj = o, !.again = FALSE]
      BY <1>11, <2>2, Zenon DEF Start, isWorkflowCompleted, Waiting, Finished
    <3>2. /\ o \in WorkflowRuns /\ o.phase = cache.phase /\ o.finalizer = cache.finalizer
          /\ o.runReference = cache.runReference /\ o.resources = cache.resources
          /\ o.outcome = cache.outcome /\ o.completedAt
      BY <1>2, Zenon DEF WorkflowRuns
    <3> HIDE DEF o
    <3>3. /\ "status" \in Steps \ {"idle", "deleteResources", "removeFinalizer"}
          /\ "status" \notin Working
      BY DEF Steps, Working
    <3>4. QED
      BY <1>6, <1>11, <3>1, <3>2, <3>3, Zenon
  <2>3. QED
    BY <2>1, <2>2
<1>12. CASE /\ cache.phase = "live" /\ cache.finalizer /\ ~(cache.completedAt /\ cache.ttl)
            /\ cache.outcome = "none"
  <2> DEFINE o == [cache EXCEPT !.outcome = "pending"]
  <2>1. job' = [NoJob EXCEPT !.pc = "status", !.obj = o, !.again = TRUE]
    BY <1>12, Zenon DEF Start, isWorkflowCompleted, Waiting, Finished
  <2>2. /\ o \in WorkflowRuns /\ o.phase = cache.phase /\ o.finalizer = cache.finalizer
        /\ o.runReference = cache.runReference /\ o.resources = cache.resources
        /\ o.outcome = "pending" /\ o.completedAt = cache.completedAt
    BY <1>2, Zenon DEF WorkflowRuns, Waiting
  <2> HIDE DEF o
  <2>3. ~isWorkflowCompleted(cache) /\ ~isWorkflowCompleted(o) /\ "status" \notin Working
    BY <1>12, <2>2 DEF isWorkflowCompleted, Finished, Working
  <2>4. QED
    BY <1>6, <1>12, <2>1, <2>2, <2>3, Zenon DEF Steps
<1>13. CASE /\ cache.phase = "live" /\ cache.finalizer /\ ~(cache.completedAt /\ cache.ttl)
            /\ cache.outcome \in Waiting
  <2>1. PICK pc \in {"validate", "resolve"} :
          job' = [NoJob EXCEPT !.pc = pc, !.obj = cache, !.again = FALSE]
    BY <1>13, Zenon DEF Start, isWorkflowCompleted, Waiting, Finished, NextStep
  <2>2. QED
    BY <1>2, <1>6, <1>13, <2>1, Zenon DEF Steps
<1>14. QED
  BY <1>2, <1>7, <1>8, <1>9, <1>10, <1>11, <1>12, <1>13 DEF WorkflowRuns, isWorkflowCompleted

(* A failed call ends the reconcile, with the status it has by then (Reconcile). *)
LEMMA CallFailsKeeps ==
  ASSUME WorkflowInv, CallFails
  PROVE  WorkflowInv'
<1>1. TypeOK /\ JobFits /\ CopiesFit
  BY DEF WorkflowInv
<1>2. /\ seen \in Histories /\ faults' \in 0 .. MaxFaults
      /\ job.obj \in WorkflowRuns
  BY <1>1, FaultsAssumption DEF TypeOK, CallFails, Fault, Jobs
<1>3. /\ Quiet /\ UNCHANGED <<wr, cache, synced, timer, now, cluster>> /\ timer' \in BOOLEAN
  BY <1>1, <1>2 DEF CallFails, Quiet, Remembers, object, plane, TypeOK
<1>4. CASE Return(TRUE)
  <2>1. job' = NoJob /\ fresh' \in BOOLEAN /\ queued' \in BOOLEAN
    BY <1>1, <1>4 DEF Return, TypeOK
  <2>2. QED
    BY <1>2, <1>3, <2>1, EndsKeeps
<1>5. CASE job.pc \in {"getRun", "createRun", "updateRun"} /\ Finish(job.obj, TRUE)
  <2>1. PICK obj \in WorkflowRuns : obj = job.obj
    BY <1>2
  <2>2. job.pc \in Working /\ Finish(obj, TRUE)
    BY <1>5, <2>1, Zenon DEF Working
  <2>3. Honest(obj)'
    BY <1>1, <1>3, <2>1 DEF CopiesFit, Honest, Quiet, Remembers
  <2>4. QED
    BY <1>2, <1>3, <2>1, <2>2, <2>3, FinishKeeps, Zenon
<1>6. CASE /\ job.pc = "resolve" \/ (job.pc = "apply" /\ job.todo = Extras)
           /\ Finish(setWaitingCondition(job.obj, "error"), TRUE)
  <2>1. PICK obj \in WorkflowRuns :
          /\ obj = setWaitingCondition(job.obj, "error") /\ obj.outcome = "error"
          /\ obj.phase = job.obj.phase /\ obj.finalizer = job.obj.finalizer
    BY <1>2, WaitingFacts, Zenon DEF Waiting
  <2>2. job.pc \in Working /\ Finish(obj, TRUE)
    BY <1>6, <2>1, Zenon DEF Working
  <2>3. Honest(obj)'
    BY <2>1 DEF Honest
  <2>4. QED
    BY <1>2, <1>3, <2>1, <2>2, <2>3, FinishKeeps, Zenon
<1>7. QED
  BY <1>4, <1>5, <1>6, Zenon DEF CallFails

(* The informer and a restart bring the cache up to date, which never makes a deleted
   object live again (Reconcile). *)
LEMMA CacheKeeps ==
  ASSUME WorkflowInv, Sync \/ Crash
  PROVE  WorkflowInv'
<1>1. TypeOK /\ JobFits /\ CopiesFit /\ CleansUp
  BY DEF WorkflowInv
<1>2. /\ cache' = wr /\ synced' = TRUE /\ queued' = TRUE /\ timer' \in BOOLEAN /\ fresh' \in BOOLEAN
      /\ UNCHANGED <<wr, now, cluster, run, extras, seen>>
      /\ faults' \in 0 .. MaxFaults
  <2>1. faults \in 0 .. MaxFaults
    BY <1>1, FaultsAssumption DEF TypeOK
  <2>2. CASE Sync
    BY <1>1, <2>1, <2>2 DEF Sync, env, plane, TypeOK
  <2>3. CASE Crash
    <3>1. faults' \in 0 .. MaxFaults
      BY <2>1, <2>3, FaultsAssumption DEF Crash, Fault
    <3>2. QED
      BY <2>1, <2>3, <3>1, Zenon DEF Crash, plane
  <2>4. QED
    BY <2>2, <2>3, Zenon
<1>3. /\ job' \in Jobs
      /\ \/ job'.pc = "idle" /\ job'.obj = NewRun
         \/ job' = job /\ fresh' = fresh
  BY <1>1, NoJobFacts DEF Sync, Crash, TypeOK
<1>4. TypeOK'
  BY <1>1, <1>2, <1>3 DEF TypeOK
<1>5. CopiesFit'
  <2>1. Honest(wr)' /\ Honest(cache)' /\ Honest(job.obj)'
    BY <1>1, <1>2, <1>3, NoJobFacts DEF CopiesFit, Honest
  <2>2. UnderFinalizer(wr') /\ UnderFinalizer(cache') /\ UnderFinalizer(job'.obj)
    BY <1>1, <1>2, <1>3, NoJobFacts DEF CopiesFit, UnderFinalizer
  <2>3. QED
    BY <1>1, <1>2, <2>1, <2>2 DEF CopiesFit, UnderFinalizer
<1>6. cache'.phase = "live" => cache.phase = "live"
  BY <1>1, <1>2 DEF CopiesFit
<1>7. MayCreate' => MayCreate
  BY <1>3, <1>6 DEF MayCreate, Working
<1>8. JobFits'
  BY <1>1, <1>2, <1>3, <1>6 DEF JobFits, Current, isWorkflowCompleted
<1>11. CleansUp'
  BY <1>1, <1>2, <1>3, <1>7 DEF CleansUp, Cleaned
<1>12. QED
  BY <1>4, <1>5, <1>8, <1>11 DEF WorkflowInv

(* The clock, the engine, users and the cluster do not touch the reconcile. *)
LEMMA EnvironmentKeeps ==
  ASSUME WorkflowInv,
         Environment \/ Touch \/ ClusterChanges \/ RunRemoved \/ Delete
  PROVE  WorkflowInv'
<1>1. TypeOK /\ JobFits /\ CopiesFit /\ CleansUp
  BY DEF WorkflowInv
<1>2. /\ seen \in Histories /\ faults \in 0 .. MaxFaults
  BY <1>1, FaultsAssumption DEF TypeOK, Histories
<1>3. ASSUME UNCHANGED <<wr, cache, job, run, extras, seen>>, TypeOK',
             synced' => synced, fresh' => fresh
      PROVE  WorkflowInv'
  <2>1. CopiesFit' /\ JobFits'
    BY <1>1, <1>3 DEF CopiesFit, JobFits, UnderFinalizer, Honest, Current, isWorkflowCompleted
  <2>3. CleansUp'
    BY <1>1, <1>3 DEF CleansUp, Cleaned, MayCreate
  <2>4. QED
    BY <1>3, <2>1, <2>3 DEF WorkflowInv
<1>4. CASE Tick \/ TimerFires
  BY <1>1, <1>2, <1>3, <1>4, Zenon DEF Tick, TimerFires, control, object, env, plane, TypeOK
<1>5. CASE PlaneReturns \/ ClusterChanges
  <2>1. /\ UNCHANGED <<wr, cache, job, run, extras, seen, synced, fresh, queued, timer, now>>
        /\ faults' \in Nat /\ faults' \in 0 .. MaxFaults
    BY <1>2, <1>5, FaultsAssumption DEF PlaneReturns, ClusterChanges, Fault, control, plane
  <2>2. cluster' \in [workflow: BOOLEAN, plane: BOOLEAN, allowed: BOOLEAN]
    BY <1>1, <1>5, Zenon DEF PlaneReturns, ClusterChanges, TypeOK
  <2>3. QED
    BY <1>1, <1>3, <2>1, <2>2 DEF TypeOK
<1>6. CASE Touch
  <2>1. /\ UNCHANGED <<wr, cache, job, run, extras, seen, queued, timer, now, cluster>>
        /\ synced' = FALSE /\ fresh' = FALSE
        /\ faults' \in Nat /\ faults' \in 0 .. MaxFaults
    BY <1>2, <1>6, FaultsAssumption DEF Touch, Fault, plane
  <2>2. QED
    BY <1>1, <1>3, <2>1, Zenon DEF TypeOK
<1>7. CASE Delete
  BY <1>1, <1>7, DeletedKeeps, Zenon DEF Delete, TypeOK
<1>8. ASSUME UNCHANGED <<wr, cache, job, synced, fresh, queued, timer, now, cluster, extras>>,
             run # "none", run' \in Phases, Remembers, seen'.skipped = seen.skipped,
             run' \in Finished => run' \in seen'.ended, faults' \in 0 .. MaxFaults
      PROVE  WorkflowInv'
  <2>1. TypeOK'
    BY <1>1, <1>8 DEF TypeOK, Remembers
  <2>2. CopiesFit'
    <3>1. \A w \in {wr', cache', job'.obj} : UnderFinalizer(w) /\ Honest(w)'
      BY <1>1, <1>8, HonestStays, Zenon DEF CopiesFit, Remembers
    <3>2. QED
      BY <1>1, <1>8, <3>1 DEF CopiesFit, UnderFinalizer, Honest
  <2>3. JobFits'
    BY <1>1, <1>8 DEF JobFits, Current, isWorkflowCompleted
  <2>5. CleansUp'
    BY <1>1, <1>8 DEF CleansUp, Cleaned, MayCreate
  <2>6. QED
    BY <2>1, <2>2, <2>3, <2>5 DEF WorkflowInv
<1>9. CASE RunStarts
  BY <1>2, <1>8, <1>9 DEF RunStarts, Remembers, Phases, Finished, control, env
<1>10. CASE \E r \in Finished : RunEnds(r)
  <2>1. PICK r \in Finished : RunEnds(r)
    BY <1>10
  <2>2. /\ UNCHANGED <<wr, cache, job, synced, fresh, queued, timer, now, cluster, extras, faults>>
        /\ run = "Running" /\ run' = r
    BY <2>1 DEF RunEnds, control, env
  <2>3. Remembers /\ seen'.skipped = seen.skipped /\ r \in seen'.ended
    BY <1>2, <2>1 DEF RunEnds, Histories, Remembers
  <2>4. QED
    BY <1>2, <1>8, <2>2, <2>3 DEF Phases
<1>11. CASE RunRemoved
  <2>1. /\ UNCHANGED <<wr, cache, job, synced, fresh, queued, timer, now, cluster, extras, seen>>
        /\ run # "none" /\ run' = "none" /\ faults' \in 0 .. MaxFaults
    BY <1>2, <1>11, FaultsAssumption DEF RunRemoved, Fault, control
  <2>2. QED
    BY <1>2, <1>8, <2>1 DEF Remembers, Phases, Finished
<1>12. QED
  BY <1>4, <1>5, <1>6, <1>7, <1>9, <1>10, <1>11 DEF Environment

(* A WorkflowRun that was just created has nothing recorded and nothing on the plane. *)
LEMMA InitKeeps == Init => WorkflowInv
<1> SUFFICES ASSUME Init PROVE WorkflowInv
  OBVIOUS
<1>1. /\ wr = NewRun /\ cache = NewRun /\ job = NoJob /\ run = "none" /\ extras = {}
      /\ NewRun.phase = "live" /\ seen \in Histories /\ faults = 0
  <2>1. NewRun.phase = "live" /\ {} \in SUBSET Finished
    BY DEF NewRun
  <2>2. seen \in Histories
    BY <2>1, Zenon DEF Init, Histories
  <2>3. QED
    BY <2>1, <2>2 DEF Init
<1>2. TypeOK
  <2>1. faults \in 0 .. MaxFaults
    BY <1>1, FaultsAssumption
  <2>2. QED
    BY <1>1, <2>1, NoJobFacts, Zenon DEF Init, TypeOK, Phases
<1>3. CopiesFit
  BY <1>1, NoJobFacts, Zenon DEF Init, CopiesFit, Finished
<1>4. JobFits /\ CleansUp
  BY <1>1, NoJobFacts, Zenon DEF JobFits, CleansUp
<1>5. QED
  BY <1>2, <1>3, <1>4 DEF WorkflowInv

(* WorkflowInv is an invariant of the controller (Reconcile). *)
THEOREM WorkflowInvariant == Spec => []WorkflowInv
<1>1. WorkflowInv /\ [Next]_vars => WorkflowInv'
  <2> SUFFICES ASSUME WorkflowInv, [Next]_vars PROVE WorkflowInv'
    OBVIOUS
  <2>1. CASE UNCHANGED vars
    <3>1. UNCHANGED <<wr, cache, synced, fresh, job, queued, timer, now, cluster, run, extras, faults, seen>>
      BY <2>1 DEF vars, control
    <3>2. TypeOK /\ CopiesFit /\ JobFits /\ CleansUp
      BY DEF WorkflowInv
    <3>3. TypeOK'
      BY <3>1, <3>2 DEF TypeOK
    <3>4. CopiesFit'
      BY <3>1, <3>2 DEF CopiesFit, UnderFinalizer, Honest
    <3>5. JobFits'
      BY <3>1, <3>2 DEF JobFits, Current, isWorkflowCompleted
    <3>7. CleansUp'
      BY <3>1, <3>2 DEF CleansUp, Cleaned, MayCreate
    <3>8. QED
      BY <3>3, <3>4, <3>5, <3>7 DEF WorkflowInv
  <2>2. CASE Next
    BY <2>2, CacheKeeps, StartKeeps, WritesKeep, ReadsKeep, AppliesKeep, FinalizeKeeps,
       CallFailsKeeps, EnvironmentKeeps, Zenon DEF Next, Reconcile
  <2>3. QED
    BY <2>1, <2>2
<1>2. QED
  BY <1>1, InitKeeps, PTL DEF Spec

(* The object, its copies and the run are always of their types (Reconcile). *)
THEOREM TypeCorrect == Spec => []TypeOK
<1>1. WorkflowInv => TypeOK
  BY DEF WorkflowInv
<1>2. QED
  BY <1>1, WorkflowInvariant, PTL

(* A reconcile that goes on, or is not touched, keeps who may apply the run, as long as
   it has no other outcome or reference than before (Reconcile). *)
LEMMA StandsGoesOn ==
  ASSUME RunStands, UNCHANGED <<wr, cache>>, seen.excuse => seen'.excuse, fresh' => fresh,
         run' \in {run, "none"},
         job'.obj.runReference = job.obj.runReference, job'.obj.outcome = job.obj.outcome,
         job'.pc # "idle" => job.pc # "idle", job'.pc \in Working => job.pc \in Working,
         job'.pc = "sync" => job.obj.runReference,
         job'.pc \in {"copyTTL", "apply", "getRun", "createRun", "updateRun"}
           => ~job.obj.runReference
  PROVE  RunStands'
<1>1. \A w \in {wr, cache, job.obj} : Published(w)' => Published(w) /\ run' \in {w.outcome, "none"}
  BY DEF RunStands, Published
<1>2. Published(job.obj)' => run' \in {job'.obj.outcome, "none"}
  BY <1>1 DEF Published, isWorkflowCompleted
<1>3. \A w \in {wr', cache', job'.obj} : Published(w)' => run' \in {w.outcome, "none"}
  BY <1>1, <1>2 DEF Published
<1>4. Applying' => Applying
  BY DEF Applying
<1>5. QED
  BY <1>1, <1>3, <1>4 DEF RunStands, Published, isWorkflowCompleted

(* A step of a reconcile that is applying the run leaves the published copies alone,
   since there are none (applyRenderedRunResource). *)
LEMMA StandsForObject ==
  ASSUME RunStands, UNCHANGED <<wr, cache>>, seen.excuse => seen'.excuse,
         run' \in {run, "none"} \/ Applying
  PROVE  /\ \A w \in {wr', cache'} : Published(w)' => run' \in {w.outcome, "none"}
         /\ Published(wr)' => cache'.runReference
         /\ cache'.runReference => wr'.runReference
BY DEF RunStands, Published

(* A reconcile that returns without a write leaves no copy (Reconcile). *)
LEMMA StandsReturn ==
  ASSUME RunStands, UNCHANGED <<wr, cache>>, seen.excuse => seen'.excuse,
         run' \in {run, "none"} \/ Applying, job' = NoJob
  PROVE  RunStands'
<1>1. job'.pc = "idle" /\ job'.obj.outcome = "none" /\ ~job'.obj.runReference
  BY DEF NoJob, NewRun
<1>2. ~Published(job.obj)' /\ ~Applying'
  BY <1>1 DEF Published, isWorkflowCompleted, Finished, Applying, Working
<1>3. /\ \A w \in {wr', cache'} : Published(w)' => run' \in {w.outcome, "none"}
      /\ Published(wr)' => cache'.runReference
      /\ cache'.runReference => wr'.runReference
  BY StandsForObject
<1>4. \A w \in {wr', cache', job'.obj} : Published(w)' => run' \in {w.outcome, "none"}
  BY <1>2, <1>3 DEF Published
<1>5. QED
  BY <1>1, <1>2, <1>3, <1>4, Zenon DEF RunStands

(* A reconcile that leaves with a status to be written publishes an outcome only with the
   reference it has read, and the one that records the reference has no outcome
   (syncWorkflowRunStatus, applyRenderedRunResource). *)
LEMMA StandsFinish ==
  ASSUME WorkflowInv, RunStands, job.pc \in Working,
         NEW obj \in WorkflowRuns, NEW again \in BOOLEAN, Finish(obj, again),
         UNCHANGED <<wr, cache>>, seen.excuse => seen'.excuse,
         run' \in {run, "none"} \/ Applying,
         job.obj.runReference => obj.runReference,
         isWorkflowCompleted(obj) =>
           /\ seen'.excuse \/ run' = obj.outcome
           /\ obj.runReference => job.obj.runReference
  PROVE  RunStands'
<1>1. CASE Return(again)
  BY <1>1, StandsReturn DEF Return
<1>2. CASE /\ job' = [job EXCEPT !.pc = "status", !.obj = obj, !.again = again]
           /\ UNCHANGED <<fresh, queued>>
  <2>1. job \in Jobs /\ job.pc # "idle"
    BY DEF WorkflowInv, TypeOK, Working
  <2>2. job'.pc = "status" /\ job'.obj = obj
    BY <1>2, <2>1, Zenon DEF Jobs
  <2>3. /\ \A w \in {wr', cache'} : Published(w)' => run' \in {w.outcome, "none"}
        /\ Published(wr)' => cache'.runReference
        /\ cache'.runReference => wr'.runReference
    BY StandsForObject
  <2>4. Published(obj)' => run' \in {obj.outcome, "none"}
    BY DEF Published
  <2>5. ~Applying'
    BY <2>2 DEF Applying, Working
  <2>6. isWorkflowCompleted(obj) /\ obj.runReference => cache.runReference
    BY DEF RunStands
  <2>7. fresh' /\ wr'.runReference => obj.runReference
    BY <1>2, <2>1 DEF RunStands
  <2>8. /\ job'.pc # "sync" /\ job'.pc \notin Working
        /\ job'.pc \notin {"copyTTL", "apply", "getRun", "createRun", "updateRun"}
    BY <2>2 DEF Working
  <2>9. job'.obj.runReference /\ isWorkflowCompleted(job.obj)' => cache'.runReference
    BY <2>2, <2>6 DEF isWorkflowCompleted
  <2>10. \A w \in {wr', cache', job'.obj} : Published(w)' => run' \in {w.outcome, "none"}
    BY <2>2, <2>3, <2>4
  <2>11. QED
    BY <2>2, <2>3, <2>5, <2>7, <2>8, <2>9, <2>10, Zenon DEF RunStands
<1>3. QED
  BY <1>1, <1>2 DEF Finish

(* A write is taken from a copy that is the latest version, which has the reference if
   the object has it (Status().Update). *)
LEMMA StandsWrite ==
  ASSUME RunStands, job.pc # "idle", NEW w, Write(w), job' = NoJob, UNCHANGED <<cache, run, seen>>,
         w.outcome = job.obj.outcome, w.runReference = job.obj.runReference
  PROVE  RunStands'
<1>1. job'.pc = "idle" /\ job'.obj.outcome = "none" /\ ~job'.obj.runReference
  BY DEF NoJob, NewRun
<1>2. ~Published(job.obj)' /\ ~Applying'
  BY <1>1 DEF Published, isWorkflowCompleted, Finished, Applying, Working
<1>3. wr' = w /\ fresh
  BY DEF Write
<1>4. Published(wr)' => Published(job.obj) /\ isWorkflowCompleted(job.obj)
  BY <1>3 DEF Published, isWorkflowCompleted
<1>5. Published(wr)' => run' \in {wr'.outcome, "none"} /\ cache'.runReference
  BY <1>3, <1>4 DEF RunStands, Published
<1>6. Published(cache)' => run' \in {cache'.outcome, "none"}
  BY DEF RunStands, Published
<1>7. cache'.runReference => wr'.runReference
  BY <1>3 DEF RunStands
<1>8. \A v \in {wr', cache', job'.obj} : Published(v)' => run' \in {v.outcome, "none"}
  BY <1>2, <1>5, <1>6 DEF Published
<1>9. QED
  BY <1>1, <1>2, <1>5, <1>7, <1>8, Zenon DEF RunStands

(* The reconciler starts on the cached object, which has the reference once an outcome of
   the run is published: it does not apply the run again (Reconcile). *)
LEMMA StandsStart ==
  ASSUME WorkflowInv, RunStands, Start
  PROVE  RunStands'
<1>1. /\ cache \in WorkflowRuns /\ (synced => cache = wr) /\ fresh' = synced /\ job.pc = "idle"
      /\ UNCHANGED <<wr, cache, run, seen>>
  BY DEF WorkflowInv, TypeOK, CopiesFit, Start, object, plane
<1>2. CASE job' = NoJob
  BY <1>1, <1>2, StandsReturn
<1>3. ASSUME NEW pc \in Steps, NEW obj \in WorkflowRuns, NEW again \in BOOLEAN,
             job' = [NoJob EXCEPT !.pc = pc, !.obj = obj, !.again = again],
             pc \in {"status", "finalize", "addFinalizer", "ttl", "validate", "resolve"},
             pc \in Working => ~isWorkflowCompleted(cache),
             obj.runReference = cache.runReference,
             isWorkflowCompleted(obj) => obj.outcome = cache.outcome
      PROVE  RunStands'
  <2>1. job'.pc = pc /\ job'.obj = obj
    BY <1>3, NoJobFacts, Zenon DEF Jobs
  <2>2. /\ \A w \in {wr', cache'} : Published(w)' => run' \in {w.outcome, "none"}
        /\ Published(wr)' => cache'.runReference
        /\ cache'.runReference => wr'.runReference
    BY <1>1, StandsForObject
  <2>3. Published(obj)' => run' \in {obj.outcome, "none"}
    BY <1>1, <1>3, <2>2 DEF Published, isWorkflowCompleted
  <2>4. \A w \in {wr', cache', job'.obj} : Published(w)' => run' \in {w.outcome, "none"}
    BY <2>1, <2>2, <2>3 DEF Published
  <2>5. Published(wr)' \/ Published(cache)' => ~Applying'
    BY <1>1, <1>3, <2>1, <2>2 DEF Applying, Published, isWorkflowCompleted
  <2>6. job'.pc # "sync" /\ job'.pc \notin {"copyTTL", "apply", "getRun", "createRun", "updateRun"}
    BY <1>3, <2>1
  <2>7. job'.obj.runReference => cache'.runReference
    BY <1>1, <1>3, <2>1
  <2>8. fresh' /\ wr'.runReference => job'.obj.runReference
    BY <1>1, <1>3, <2>1
  <2>9. QED
    BY <2>2, <2>4, <2>5, <2>6, <2>7, <2>8, Zenon DEF RunStands
<1>4. CASE cache.phase = "gone"
  BY <1>2, <1>4 DEF Start
<1>5. CASE cache.phase = "deleting"
  <2>1. job' = [NoJob EXCEPT !.pc = "finalize", !.obj = cache, !.again = FALSE]
    BY <1>5 DEF Start
  <2>2. QED
    BY <1>1, <1>3, <2>1, Zenon DEF Steps, Working
<1>6. CASE cache.phase = "live" /\ ~cache.finalizer
  <2>1. job' = [NoJob EXCEPT !.pc = "addFinalizer", !.obj = cache, !.again = FALSE]
    BY <1>6, Zenon DEF Start
  <2>2. QED
    BY <1>1, <1>3, <2>1, Zenon DEF Steps, Working
<1>7. CASE cache.phase = "live" /\ cache.finalizer /\ cache.completedAt /\ cache.ttl
  <2>1. job' = [NoJob EXCEPT !.pc = "ttl", !.obj = cache, !.again = FALSE]
    BY <1>7 DEF Start
  <2>2. QED
    BY <1>1, <1>3, <2>1, Zenon DEF Steps, Working
<1>8. CASE /\ cache.phase = "live" /\ cache.finalizer /\ ~(cache.completedAt /\ cache.ttl)
           /\ isWorkflowCompleted(cache)
  <2>1. CASE cache.completedAt
    BY <1>2, <1>8, <2>1, Zenon DEF Start, isWorkflowCompleted, Waiting, Finished
  <2>2. CASE ~cache.completedAt
    <3> DEFINE o == [cache EXCEPT !.completedAt = TRUE]
    <3>1. job' = [NoJob EXCEPT !.pc = "status", !.obj = o, !.again = FALSE]
      BY <1>8, <2>2, Zenon DEF Start, isWorkflowCompleted, Waiting, Finished
    <3>2. o \in WorkflowRuns /\ o.runReference = cache.runReference /\ o.outcome = cache.outcome
      BY <1>1, Zenon DEF WorkflowRuns
    <3> HIDE DEF o
    <3>3. /\ "status" \in Steps /\ "status" \notin Working /\ FALSE \in BOOLEAN
          /\ "status" \in {"status", "finalize", "addFinalizer", "ttl", "validate", "resolve"}
      BY DEF Steps, Working
    <3>4. QED
      BY <1>3, <3>1, <3>2, <3>3, Zenon
  <2>3. QED
    BY <2>1, <2>2
<1>9. CASE /\ cache.phase = "live" /\ cache.finalizer /\ ~(cache.completedAt /\ cache.ttl)
           /\ cache.outcome = "none"
  <2> DEFINE o == [cache EXCEPT !.outcome = "pending"]
  <2>1. job' = [NoJob EXCEPT !.pc = "status", !.obj = o, !.again = TRUE]
    BY <1>9, Zenon DEF Start, isWorkflowCompleted, Waiting, Finished
  <2>2. o \in WorkflowRuns /\ o.runReference = cache.runReference /\ o.outcome = "pending"
    BY <1>1, Zenon DEF WorkflowRuns, Waiting
  <2> HIDE DEF o
  <2>3. ~isWorkflowCompleted(o)
    BY <2>2 DEF isWorkflowCompleted, Finished
  <2>4. QED
    BY <1>3, <2>1, <2>2, <2>3, Zenon DEF Steps, Working
<1>10. CASE /\ cache.phase = "live" /\ cache.finalizer /\ ~(cache.completedAt /\ cache.ttl)
            /\ cache.outcome \in Waiting
  <2>1. PICK pc \in {"validate", "resolve"} :
          job' = [NoJob EXCEPT !.pc = pc, !.obj = cache, !.again = FALSE]
    BY <1>10, Zenon DEF Start, isWorkflowCompleted, Waiting, Finished, NextStep
  <2>2. ~isWorkflowCompleted(cache)
    BY <1>10 DEF isWorkflowCompleted, Waiting, Finished
  <2>3. QED
    BY <1>1, <1>3, <2>1, <2>2, Zenon DEF Steps
<1>11. QED
  BY <1>1, <1>4, <1>5, <1>6, <1>7, <1>8, <1>9, <1>10 DEF WorkflowRuns, isWorkflowCompleted

(* Deleting the object keeps its outcome and its reference (checkTTLExpiration and
   users). *)
LEMMA StandsDeleted ==
  ASSUME WorkflowInv, RunStands, wr' = Deleted(wr), UNCHANGED <<cache, run, seen>>,
         job' = NoJob \/ (job' = job /\ fresh' = FALSE)
  PROVE  RunStands'
<1>1. wr'.outcome = wr.outcome /\ wr'.runReference = wr.runReference
  BY Zenon DEF WorkflowInv, TypeOK, Deleted, WorkflowRuns
<1>2. \A w \in {wr, cache, job.obj} : Published(w)' => Published(w) /\ run' \in {w.outcome, "none"}
  BY DEF RunStands, Published
<1>3. Published(wr)' => Published(wr) /\ run' \in {wr'.outcome, "none"}
  BY <1>1, <1>2 DEF Published, isWorkflowCompleted
<1>4. CASE job' = NoJob
  <2>1. job'.pc = "idle" /\ job'.obj.outcome = "none" /\ ~job'.obj.runReference
    BY <1>4 DEF NoJob, NewRun
  <2>2. ~Published(job.obj)' /\ ~Applying'
    BY <2>1 DEF Published, isWorkflowCompleted, Finished, Applying, Working
  <2>3. \A w \in {wr', cache', job'.obj} : Published(w)' => run' \in {w.outcome, "none"}
    BY <1>2, <1>3, <2>2 DEF Published
  <2>4. (Published(wr)' => cache'.runReference) /\ (cache'.runReference => wr'.runReference)
    BY <1>1, <1>3 DEF RunStands, Published
  <2>5. QED
    BY <2>1, <2>2, <2>3, <2>4, Zenon DEF RunStands
<1>5. CASE job' = job /\ fresh' = FALSE
  <2>1. \A w \in {wr', cache', job'.obj} : Published(w)' => run' \in {w.outcome, "none"}
    BY <1>2, <1>3, <1>5 DEF Published
  <2>2. Applying' => Applying
    BY <1>5 DEF Applying
  <2>3. QED
    BY <1>1, <1>2, <1>3, <1>5, <2>1, <2>2 DEF RunStands, Published, isWorkflowCompleted
<1>6. QED
  BY <1>4, <1>5

(* The steps that read clock, Component, Workflow, plane and run: only the engine's
   outcome is published with the reference (syncWorkflowRunStatus). *)
LEMMA StandsReads ==
  ASSUME WorkflowInv, RunStands,
         \/ checkTTLExpiration \/ TTLRequeue \/ validateComponentWorkflowRun
         \/ Resolve \/ syncWorkflowRunStatus \/ GetRun
  PROVE  RunStands'
<1>1. /\ job \in Jobs /\ job.obj \in WorkflowRuns /\ seen \in Histories /\ run \in Phases
      /\ cluster \in [workflow: BOOLEAN, plane: BOOLEAN, allowed: BOOLEAN]
  BY DEF WorkflowInv, TypeOK, Jobs
<1>2. ASSUME NEW pc \in Steps \ {"idle"}, NEW todo \in SUBSET Extras, Goto(pc, todo), job.pc # "idle",
             UNCHANGED <<object, fresh, queued, timer, env, plane, seen>>,
             pc \in Working => job.pc \in Working, pc = "sync" => job.obj.runReference,
             pc \in {"copyTTL", "apply", "getRun", "createRun", "updateRun"} => ~job.obj.runReference
      PROVE  RunStands'
  <2>1. job'.pc = pc /\ job'.obj = job.obj
    BY <1>1, <1>2, Zenon DEF Goto, Jobs
  <2>2. QED
    BY <1>2, <2>1, StandsGoesOn DEF object, plane
<1>3. PICK failed \in WorkflowRuns :
        failed = setFailedCondition(job.obj) /\ failed.runReference = job.obj.runReference
  <2> DEFINE o == setFailedCondition(job.obj)
  <2>1. o \in WorkflowRuns /\ o.runReference = job.obj.runReference
    BY <1>1, Zenon DEF setFailedCondition, WorkflowRuns, Finished
  <2>2. QED
    BY <2>1, Zenon
<1>4. ASSUME Finish(failed, FALSE), job.pc \in Working, UNCHANGED <<object, timer, env, plane>>,
             seen' = [seen EXCEPT !.excuse = TRUE]
      PROVE  RunStands'
  <2>1. seen'.excuse /\ run' = run /\ UNCHANGED <<wr, cache>>
    BY <1>1, <1>4 DEF Histories, object, plane
  <2>2. QED
    BY <1>3, <1>4, <2>1, StandsFinish
<1>5. CASE checkTTLExpiration
  <2>1. CASE now = "after" /\ wr.phase = "live"
    <3>1. wr' = Deleted(wr) /\ job' = NoJob /\ UNCHANGED <<cache, run, seen>>
      BY <1>5, <2>1, Zenon DEF checkTTLExpiration, Return, plane
    <3>2. QED
      BY <3>1, StandsDeleted, Zenon
  <2>2. CASE now = "after" /\ wr.phase # "live"
    <3>1. job' = NoJob /\ UNCHANGED <<wr, cache, run, seen>>
      BY <1>5, <2>2, Zenon DEF checkTTLExpiration, Return, plane
    <3>2. QED
      BY <3>1, StandsReturn
  <2>3. CASE now # "after"
    <3>1. /\ Goto("ttlAgain", {}) /\ UNCHANGED <<object, fresh, queued, timer, env, plane, seen>>
          /\ job.pc = "ttl"
      BY <1>5, <2>3 DEF checkTTLExpiration, object
    <3>2. QED
      BY <1>2, <3>1 DEF Steps, Working
  <2>4. QED
    BY <2>1, <2>2, <2>3
<1>6. CASE TTLRequeue
  <2>1. job' = NoJob /\ UNCHANGED <<wr, cache, run>> /\ (seen.excuse => seen'.excuse)
    BY <1>1, <1>6 DEF TTLRequeue, Return, object, plane, Histories
  <2>2. QED
    BY <2>1, StandsReturn
<1>7. CASE validateComponentWorkflowRun
  <2>1. job.pc = "validate" /\ job.pc \in Working /\ UNCHANGED <<object, timer, env, plane>>
    BY <1>7 DEF validateComponentWorkflowRun, Working
  <2>2. CASE cluster.allowed
    <3>1. Goto("resolve", {}) /\ UNCHANGED <<object, fresh, queued, timer, env, plane, seen>>
      BY <1>7, <2>1, <2>2 DEF validateComponentWorkflowRun
    <3>2. QED
      BY <1>2, <2>1, <3>1 DEF Steps
  <2>3. CASE ~cluster.allowed
    <3>1. Finish(failed, FALSE) /\ seen' = [seen EXCEPT !.excuse = TRUE]
      BY <1>3, <1>7, <2>3, Zenon DEF validateComponentWorkflowRun
    <3>2. QED
      BY <1>4, <2>1, <3>1, Zenon
  <2>4. QED
    BY <2>2, <2>3
<1>8. CASE Resolve
  <2>1. job.pc = "resolve" /\ job.pc \in Working /\ UNCHANGED <<object, timer, env, plane>>
    BY <1>8 DEF Resolve, Working
  <2>2. CASE ~cluster.workflow
    <3>1. Finish(failed, FALSE) /\ seen' = [seen EXCEPT !.excuse = TRUE]
      BY <1>3, <1>8, <2>2, Zenon DEF Resolve
    <3>2. QED
      BY <1>4, <2>1, <3>1, Zenon
  <2>3. CASE cluster.workflow /\ ~cluster.plane
    <3>1. PICK obj \in WorkflowRuns :
            /\ obj = setWaitingCondition(job.obj, "noPlane") /\ obj.outcome = "noPlane"
            /\ obj.runReference = job.obj.runReference
      BY <1>1, WaitingFacts, Zenon DEF Waiting
    <3>2. Finish(obj, TRUE) /\ seen' = seen
      BY <1>8, <2>3, <3>1, Zenon DEF Resolve
    <3>3. ~isWorkflowCompleted(obj) /\ run' = run /\ UNCHANGED <<wr, cache>>
      BY <2>1, <3>1 DEF isWorkflowCompleted, Finished, object, plane
    <3>4. QED
      BY <2>1, <3>1, <3>2, <3>3, StandsFinish
  <2>4. CASE cluster.workflow /\ cluster.plane
    <3>1. PICK pc \in {"sync", "copyTTL", "apply"} :
            /\ Goto(pc, Extras) /\ UNCHANGED <<object, fresh, queued, timer, env, plane, seen>>
            /\ pc = "sync" <=> job.obj.runReference
      BY <1>8, <2>1, <2>4 DEF Resolve
    <3>2. QED
      BY <1>2, <2>1, <3>1 DEF Steps
  <2>5. QED
    BY <1>1, <2>2, <2>3, <2>4
<1>9. CASE syncWorkflowRunStatus
  <2>1. job.pc \in Working /\ UNCHANGED <<object, timer, env, plane>>
    BY <1>9 DEF syncWorkflowRunStatus, Working
  <2>2. CASE run = "Pending"
    <3>1. job' = NoJob /\ seen' = seen /\ UNCHANGED <<wr, cache, run>>
      BY <1>9, <2>1, <2>2, Zenon DEF syncWorkflowRunStatus, Return, object, plane
    <3>2. QED
      BY <3>1, StandsReturn
  <2>3. ASSUME NEW obj \in WorkflowRuns, NEW again \in BOOLEAN, Finish(obj, again), seen' = seen,
               obj.runReference = job.obj.runReference,
               isWorkflowCompleted(obj) => run = obj.outcome
        PROVE  RunStands'
    <3>1. run' = run /\ UNCHANGED <<wr, cache>>
      BY <2>1 DEF object, plane
    <3>2. QED
      BY <2>1, <2>3, <3>1, StandsFinish
  <2>4. CASE run = "Running"
    <3>1. PICK obj \in WorkflowRuns :
            /\ obj = [job.obj EXCEPT !.running = TRUE] /\ obj.outcome = job.obj.outcome
            /\ obj.runReference = job.obj.runReference
      <4> DEFINE o == [job.obj EXCEPT !.running = TRUE]
      <4>1. /\ o \in WorkflowRuns /\ o.outcome = job.obj.outcome
            /\ o.runReference = job.obj.runReference
        BY <1>1, Zenon DEF WorkflowRuns
      <4>2. QED
        BY <4>1, Zenon
    <3>2. Finish(obj, TRUE) /\ seen' = seen
      BY <1>9, <2>4, <3>1, Zenon DEF syncWorkflowRunStatus
    <3>3. job.pc # "idle" /\ job.obj.outcome \in Waiting
      BY <2>1 DEF WorkflowInv, JobFits, Working
    <3>4. ~isWorkflowCompleted(obj)
      BY <3>1, <3>3 DEF isWorkflowCompleted, Waiting, Finished
    <3>5. QED
      BY <2>3, <3>1, <3>2, <3>4, Zenon
  <2>5. CASE run = "Succeeded"
    <3>1. PICK obj \in WorkflowRuns :
            /\ obj = setSucceededCondition(job.obj) /\ obj.outcome = "Succeeded"
            /\ obj.runReference = job.obj.runReference
      <4> DEFINE o == setSucceededCondition(job.obj)
      <4>1. o \in WorkflowRuns /\ o.outcome = "Succeeded" /\ o.runReference = job.obj.runReference
        BY <1>1, Zenon DEF WorkflowRuns, setSucceededCondition, Finished
      <4>2. QED
        BY <4>1, Zenon
    <3>2. Finish(obj, TRUE) /\ seen' = seen
      BY <1>9, <2>5, <3>1, Zenon DEF syncWorkflowRunStatus
    <3>3. QED
      BY <2>3, <2>5, <3>1, <3>2, Zenon
  <2>6. CASE run = "Failed"
    <3>1. Finish(failed, FALSE) /\ seen' = seen
      BY <1>3, <1>9, <2>6, Zenon DEF syncWorkflowRunStatus
    <3>2. failed.outcome = "Failed"
      BY <1>1, <1>3, Zenon DEF setFailedCondition, WorkflowRuns
    <3>3. QED
      BY <1>3, <2>3, <2>6, <3>1, <3>2, Zenon
  <2>7. CASE run = "none"
    <3>1. Finish(failed, FALSE) /\ seen' = [seen EXCEPT !.excuse = TRUE]
      BY <1>3, <1>9, <2>7, Zenon DEF syncWorkflowRunStatus
    <3>2. QED
      BY <1>4, <2>1, <3>1, Zenon
  <2>8. QED
    BY <1>1, <2>2, <2>4, <2>5, <2>6, <2>7 DEF Phases, Finished
<1>10. CASE GetRun
  <2>1. PICK pc \in {"createRun", "updateRun"} : job' = [job EXCEPT !.pc = pc, !.saw = run]
    BY <1>10, Zenon DEF GetRun
  <2>2. job'.pc = pc /\ job'.obj = job.obj
    BY <1>1, <2>1, Zenon DEF Jobs
  <2>3. job.pc = "getRun" /\ UNCHANGED <<wr, cache, fresh, run, seen>>
    BY <1>10 DEF GetRun, object, plane
  <2>4. ~job.obj.runReference
    BY <2>3 DEF RunStands
  <2>5. QED
    BY <2>2, <2>3, <2>4, StandsGoesOn DEF Working
<1>11. QED
  BY <1>5, <1>6, <1>7, <1>8, <1>9, <1>10

(* The writes to the object (ensureFinalizer, the copied TTL, Status().Update). *)
LEMMA StandsWrites ==
  ASSUME WorkflowInv, RunStands, ensureFinalizer \/ copyTTL \/ StatusUpdate \/ removeFinalizer
  PROVE  RunStands'
<1>1. job.obj \in WorkflowRuns
  BY DEF WorkflowInv, TypeOK, Jobs
<1>2. /\ job' = NoJob /\ job.pc # "idle" /\ UNCHANGED <<cache, run, seen>>
  BY Zenon DEF ensureFinalizer, copyTTL, StatusUpdate, removeFinalizer, Return, plane
<1>3. CASE UNCHANGED wr
  BY <1>2, <1>3, StandsReturn
<1>4. CASE ensureFinalizer /\ Write([job.obj EXCEPT !.finalizer = TRUE])
  <2> DEFINE w == [job.obj EXCEPT !.finalizer = TRUE]
  <2>1. w.outcome = job.obj.outcome /\ w.runReference = job.obj.runReference
    BY <1>1, Zenon DEF WorkflowRuns
  <2>2. QED
    BY <1>2, <1>4, <2>1, StandsWrite, Zenon
<1>5. CASE copyTTL /\ Write([job.obj EXCEPT !.ttl = TRUE])
  <2> DEFINE w == [job.obj EXCEPT !.ttl = TRUE]
  <2>1. w.outcome = job.obj.outcome /\ w.runReference = job.obj.runReference
    BY <1>1, Zenon DEF WorkflowRuns
  <2>2. QED
    BY <1>2, <1>5, <2>1, StandsWrite, Zenon
<1>6. CASE StatusUpdate /\ Write(job.obj)
  BY <1>2, <1>6, StandsWrite, Zenon
<1>7. CASE removeFinalizer /\ Write([job.obj EXCEPT !.finalizer = FALSE, !.phase = "gone"])
  <2> DEFINE w == [job.obj EXCEPT !.finalizer = FALSE, !.phase = "gone"]
  <2>1. w.outcome = job.obj.outcome /\ w.runReference = job.obj.runReference
    BY <1>1, Zenon DEF WorkflowRuns
  <2>2. QED
    BY <1>2, <1>7, <2>1, StandsWrite, Zenon
<1>8. QED
  BY <1>3, <1>4, <1>5, <1>6, <1>7, Zenon DEF ensureFinalizer, copyTTL, StatusUpdate, removeFinalizer

(* The run is created or replaced only by a reconcile without the reference
   (applyRenderedResources, applyRenderedRunResource). *)
LEMMA StandsApplies ==
  ASSUME WorkflowInv, RunStands, applyRenderedResources \/ CreateRun \/ UpdateRun
  PROVE  RunStands'
<1>1. job \in Jobs /\ job.obj \in WorkflowRuns
  BY DEF WorkflowInv, TypeOK, Jobs
<1>2. CASE applyRenderedResources
  <2>1. /\ job.pc = "apply" /\ UNCHANGED <<wr, cache, fresh, run, seen>>
        /\ ~job.obj.runReference
    BY <1>2 DEF applyRenderedResources, object, RunStands
  <2>2. ASSUME NEW todo, Goto("apply", todo)
        PROVE  RunStands'
    <3>1. job'.pc = "apply" /\ job'.obj = job.obj
      BY <1>1, <2>2, Zenon DEF Goto, Jobs
    <3>2. QED
      BY <2>1, <3>1, StandsGoesOn
  <2>3. CASE job' = [job EXCEPT !.pc = "getRun", !.obj.resources = Extras,
                                !.dirty = job.obj.resources # Extras]
    <3>1. /\ job'.pc = "getRun" /\ job'.obj.outcome = job.obj.outcome
          /\ job'.obj.runReference = job.obj.runReference
      BY <1>1, <2>3, Zenon DEF Jobs, WorkflowRuns
    <3>2. QED
      BY <2>1, <3>1, StandsGoesOn DEF Working
  <2>4. QED
    BY <1>2, <2>2, <2>3, Zenon DEF applyRenderedResources
<1>3. CASE CreateRun \/ UpdateRun
  <2>1. job.pc \in {"createRun", "updateRun"} /\ UNCHANGED <<wr, cache, seen>>
    BY <1>3 DEF CreateRun, UpdateRun, object
  <2>2. job.pc \in Working /\ Applying
    BY <2>1 DEF RunStands, Applying, Working
  <2>3. ~isWorkflowCompleted(job.obj)
    BY <2>2 DEF WorkflowInv, JobFits, Working, isWorkflowCompleted, Waiting, Finished
  <2>4. PICK obj \in WorkflowRuns :
          /\ Finish(obj, TRUE) /\ obj.outcome = job.obj.outcome
          /\ job.obj.runReference => obj.runReference
    <3> DEFINE o == [job.obj EXCEPT !.runReference = TRUE]
    <3>1. o \in WorkflowRuns /\ o.outcome = job.obj.outcome /\ o.runReference
      BY <1>1, Zenon DEF WorkflowRuns
    <3>2. Finish(o, TRUE) \/ Finish(job.obj, TRUE)
      BY <1>3, Zenon DEF CreateRun, UpdateRun, recordRun
    <3>3. QED
      BY <1>1, <3>1, <3>2, Zenon
  <2>5. ~isWorkflowCompleted(obj)
    BY <2>3, <2>4 DEF isWorkflowCompleted
  <2>6. QED
    BY <2>1, <2>2, <2>4, <2>5, StandsFinish
<1>4. QED
  BY <1>2, <1>3

(* The finalizer removes the run and nothing else of it (finalize). *)
LEMMA StandsFinalizes ==
  ASSUME WorkflowInv, RunStands, finalize \/ DeleteResources
  PROVE  RunStands'
<1>1. job \in Jobs /\ seen \in Histories
  BY DEF WorkflowInv, TypeOK
<1>2. /\ job.pc # "idle" /\ UNCHANGED <<wr, cache, fresh>> /\ run' \in {run, "none"}
  BY DEF finalize, DeleteResources, object, plane
<1>3. seen.excuse => seen'.excuse
  BY <1>1 DEF finalize, DeleteResources, Histories
<1>4. PICK pc \in {"deleteResources", "removeFinalizer"} : \E todo : Goto(pc, todo)
  BY Zenon DEF finalize, DeleteResources
<1>5. job'.pc = pc /\ job'.obj = job.obj
  BY <1>1, <1>4, Zenon DEF Goto, Jobs
<1>6. QED
  BY <1>2, <1>3, <1>4, <1>5, StandsGoesOn DEF Working

(* A failed call publishes no outcome (Reconcile). *)
LEMMA StandsFails ==
  ASSUME WorkflowInv, RunStands, CallFails
  PROVE  RunStands'
<1>1. job.obj \in WorkflowRuns /\ UNCHANGED <<wr, cache, run, seen>>
  BY DEF WorkflowInv, TypeOK, Jobs, CallFails, object, plane
<1>2. CASE Return(TRUE)
  BY <1>1, <1>2, StandsReturn DEF Return
<1>3. ASSUME job.pc \in Working, NEW obj \in WorkflowRuns, Finish(obj, TRUE),
             ~isWorkflowCompleted(obj), obj.runReference = job.obj.runReference
      PROVE  RunStands'
  BY <1>1, <1>3, StandsFinish
<1>4. CASE job.pc \in {"getRun", "createRun", "updateRun"} /\ Finish(job.obj, TRUE)
  <2>1. job.pc \in Working /\ job.pc # "idle"
    BY <1>4 DEF Working
  <2>2. ~isWorkflowCompleted(job.obj)
    BY <2>1 DEF WorkflowInv, JobFits, isWorkflowCompleted, Waiting, Finished
  <2>3. QED
    BY <1>1, <1>3, <1>4, <2>1, <2>2, Zenon
<1>5. CASE /\ job.pc = "resolve" \/ (job.pc = "apply" /\ job.todo = Extras)
           /\ Finish(setWaitingCondition(job.obj, "error"), TRUE)
  <2>1. PICK obj \in WorkflowRuns :
          /\ obj = setWaitingCondition(job.obj, "error") /\ obj.outcome = "error"
          /\ obj.runReference = job.obj.runReference
    BY <1>1, WaitingFacts, Zenon DEF Waiting
  <2>2. job.pc \in Working /\ Finish(obj, TRUE)
    BY <1>5, <2>1, Zenon DEF Working
  <2>3. ~isWorkflowCompleted(obj)
    BY <2>1 DEF isWorkflowCompleted, Finished
  <2>4. QED
    BY <1>3, <2>1, <2>2, <2>3, Zenon
<1>6. QED
  BY <1>2, <1>4, <1>5, Zenon DEF CallFails

(* The informer and a restart bring the cache up to date, which has the reference if an
   older one had it (Reconcile). *)
LEMMA StandsCache ==
  ASSUME WorkflowInv, RunStands, Sync \/ Crash
  PROVE  RunStands'
<1>1. cache' = wr /\ UNCHANGED <<wr, run, seen>>
  BY DEF Sync, Crash, plane
<1>2. /\ \A w \in {wr', cache'} : Published(w)' => run' \in {w.outcome, "none"}
      /\ Published(wr)' => cache'.runReference
      /\ Published(wr)' <=> Published(wr)
      /\ Published(cache)' => Published(wr)
  BY <1>1 DEF RunStands, Published
<1>3. CASE job' = job /\ fresh' = fresh
  <2>1. Published(job.obj)' => run' \in {job'.obj.outcome, "none"}
    BY <1>1, <1>3 DEF RunStands, Published
  <2>2. Applying' => Applying
    BY <1>3 DEF Applying
  <2>3. \A w \in {wr', cache', job'.obj} : Published(w)' => run' \in {w.outcome, "none"}
    BY <1>2, <2>1 DEF Published
  <2>4. QED
    BY <1>1, <1>2, <1>3, <2>2, <2>3 DEF RunStands, isWorkflowCompleted
<1>4. CASE job' = NoJob
  <2>1. job'.pc = "idle" /\ job'.obj.outcome = "none" /\ ~job'.obj.runReference
    BY <1>4 DEF NoJob, NewRun
  <2>2. ~Published(job.obj)' /\ ~Applying'
    BY <2>1 DEF Published, isWorkflowCompleted, Finished, Applying, Working
  <2>3. \A w \in {wr', cache', job'.obj} : Published(w)' => run' \in {w.outcome, "none"}
    BY <1>2, <2>2 DEF Published
  <2>4. QED
    BY <1>1, <1>2, <2>1, <2>2, <2>3, Zenon DEF RunStands
<1>5. QED
  BY <1>3, <1>4, Zenon DEF Sync, Crash

(* A run that ends is not one of which an outcome is published: it was still running
   (RunEnds of the engine). *)
LEMMA StandsEnvironment ==
  ASSUME WorkflowInv, RunStands,
         \/ Environment \/ Touch \/ ClusterChanges \/ RunRemoved \/ Delete
         \/ UNCHANGED vars
  PROVE  RunStands'
<1>1. ASSUME UNCHANGED <<wr, cache, job>>, fresh' => fresh, run' \in {run, "none"}, seen' = seen
      PROVE  RunStands'
  <2>1. /\ job.pc = "sync" => job.obj.runReference
        /\ job.pc \in {"copyTTL", "apply", "getRun", "createRun", "updateRun"} => ~job.obj.runReference
    BY DEF RunStands
  <2>2. QED
    BY <1>1, <2>1, StandsGoesOn
<1>2. CASE \/ Tick \/ TimerFires \/ PlaneReturns \/ Touch \/ ClusterChanges \/ RunRemoved
           \/ UNCHANGED vars
  <2>1. UNCHANGED <<wr, cache, job, seen>> /\ (fresh' => fresh) /\ run' \in {run, "none"}
    BY <1>2 DEF Tick, TimerFires, PlaneReturns, Touch, ClusterChanges, RunRemoved,
       vars, control, object, plane
  <2>2. QED
    BY <1>1, <2>1
<1>3. CASE Delete
  BY <1>3, StandsDeleted, Zenon DEF Delete, plane
<1>4. CASE RunStarts \/ (\E r \in Finished : RunEnds(r))
  <2>1. UNCHANGED <<wr, cache, job, fresh>> /\ run \in {"Pending", "Running"}
    BY <1>4 DEF RunStarts, RunEnds, control
  <2>2. seen \in Histories /\ seen'.excuse = seen.excuse
    BY <1>4 DEF RunStarts, RunEnds, WorkflowInv, TypeOK, Histories
  <2>3. \A w \in {wr, cache, job.obj} : ~Published(w)
    <3>1. \A w : Published(w) => run \notin {w.outcome, "none"}
      BY <2>1 DEF Published, isWorkflowCompleted, Finished
    <3>2. QED
      BY <3>1 DEF RunStands
  <2>4. \A w \in {wr', cache', job'.obj} : ~Published(w)'
    BY <2>1, <2>2, <2>3 DEF Published
  <2>5. ~Published(wr)' /\ ~Published(cache)'
    BY <2>4
  <2>6. QED
    BY <2>1, <2>4, <2>5 DEF RunStands, isWorkflowCompleted
<1>5. QED
  BY <1>2, <1>3, <1>4, Zenon DEF Environment

(* However old the copy is that a reconcile works on, however often the process crashes,
   and whatever calls fail: a run whose outcome is published is not started again
   (applyRenderedRunResource, syncWorkflowRunStatus). *)
THEOREM OutcomesStand == Spec => []OutcomeStands
<1>1. Init => RunStands
  <2> SUFFICES ASSUME Init PROVE RunStands
    OBVIOUS
  <2>1. /\ wr = NewRun /\ cache = NewRun /\ job.pc = "idle" /\ job.obj = NewRun
        /\ NewRun.outcome = "none" /\ ~NewRun.runReference
    BY NoJobFacts DEF Init, NewRun
  <2>2. ~Published(NewRun) /\ ~Applying
    BY <2>1 DEF Published, isWorkflowCompleted, Finished, Applying, Working
  <2>3. QED
    BY <2>1, <2>2, Zenon DEF RunStands
<1>2. WorkflowInv /\ RunStands /\ [Next]_vars => RunStands'
  BY StandsCache, StandsStart, StandsWrites, StandsReads, StandsApplies, StandsFinalizes,
     StandsFails, StandsEnvironment, Zenon DEF Next, Reconcile
<1>3. RunStands => OutcomeStands
  BY DEF RunStands, Published, OutcomeStands
<1>4. QED
  BY <1>1, <1>2, <1>3, WorkflowInvariant, PTL DEF Spec

(* The published outcome is the one the engine reached, or a failure the controller has
   a reason for (syncWorkflowRunStatus). *)
THEOREM OutcomesAreTrue == Spec => []OutcomeIsTrue
<1>1. WorkflowInv => OutcomeIsTrue
  BY DEF WorkflowInv, CopiesFit, Honest, OutcomeIsTrue
<1>2. QED
  BY <1>1, WorkflowInvariant, PTL

(* When the object is gone, so is what its status recorded, unless the Workflow or its
   plane was missing (finalize). *)
THEOREM NothingRecordedStays == Spec => []RecordedIsCleanedUp
<1>1. WorkflowInv => RecordedIsCleanedUp
  BY DEF WorkflowInv, CleansUp, Cleaned, RecordedIsCleanedUp
<1>2. QED
  BY <1>1, WorkflowInvariant, PTL

(* A published outcome and its completion time are not taken back: a write is accepted
   only from a copy that had them (isWorkflowCompleted, Status().Update). *)
THEOREM OutcomesAreFinal == Spec => OutcomeIsFinal
<1> DEFINE Stays == isWorkflowCompleted(wr) => /\ wr'.outcome = wr.outcome
                                               /\ wr.completedAt => wr'.completedAt
<1>1. WorkflowInv /\ [Next]_vars => [Stays]_vars
  <2> SUFFICES ASSUME WorkflowInv, Next PROVE Stays
    BY DEF vars
  <2>1. wr \in WorkflowRuns /\ job.obj \in WorkflowRuns /\ JobFits
    BY DEF WorkflowInv, TypeOK, Jobs
  <2>2. ASSUME NEW w \in WorkflowRuns, Write(w), job.pc # "idle",
               w.outcome = job.obj.outcome, w.completedAt = job.obj.completedAt
        PROVE  Stays
    BY <2>1, <2>2 DEF Write, JobFits, Current
  <2>3. CASE ensureFinalizer
    <3>1. CASE Write([job.obj EXCEPT !.finalizer = TRUE])
      BY <2>1, <2>2, <2>3, <3>1, Zenon DEF ensureFinalizer, WorkflowRuns
    <3>2. QED
      BY <2>3, <3>1, Zenon DEF ensureFinalizer
  <2>4. CASE copyTTL
    <3>1. CASE Write([job.obj EXCEPT !.ttl = TRUE])
      BY <2>1, <2>2, <2>4, <3>1, Zenon DEF copyTTL, WorkflowRuns
    <3>2. QED
      BY <2>4, <3>1 DEF copyTTL
  <2>5. CASE StatusUpdate
    <3>1. CASE Write(job.obj)
      BY <2>1, <2>2, <2>5, <3>1 DEF StatusUpdate
    <3>2. QED
      BY <2>5, <3>1, Zenon DEF StatusUpdate
  <2>6. CASE removeFinalizer
    <3>1. CASE Write([job.obj EXCEPT !.finalizer = FALSE, !.phase = "gone"])
      BY <2>1, <2>2, <2>6, <3>1, Zenon DEF removeFinalizer, WorkflowRuns
    <3>2. QED
      BY <2>6, <3>1, Zenon DEF removeFinalizer
  <2>7. CASE wr' = Deleted(wr)
    BY <2>1, <2>7 DEF Deleted, WorkflowRuns
  <2>8. CASE wr' = wr
    BY <2>8
  <2>9. checkTTLExpiration \/ Delete => wr' = Deleted(wr) \/ wr' = wr
    BY Zenon DEF checkTTLExpiration, Delete
  <2>10. \/ Sync \/ Start \/ TTLRequeue \/ validateComponentWorkflowRun \/ Resolve
         \/ syncWorkflowRunStatus \/ applyRenderedResources \/ GetRun \/ CreateRun \/ UpdateRun
         \/ finalize \/ DeleteResources
         => wr' = wr
    BY Zenon DEF Sync, Start, TTLRequeue, validateComponentWorkflowRun, Resolve, syncWorkflowRunStatus,
           applyRenderedResources, GetRun, CreateRun, UpdateRun, finalize, DeleteResources, object
  <2>11. \/ Environment \/ Touch \/ ClusterChanges \/ RunRemoved \/ CallFails \/ Crash
         => wr' = wr
    BY Zenon DEF Environment, Tick, TimerFires, RunStarts, RunEnds, PlaneReturns, Touch, ClusterChanges,
           RunRemoved, CallFails, Crash, control, object
  <2>12. QED
    BY <2>3, <2>4, <2>5, <2>6, <2>7, <2>8, <2>9, <2>10, <2>11, Zenon DEF Next, Reconcile
<1>2. QED
  BY <1>1, WorkflowInvariant, PTL DEF Spec, OutcomeIsFinal
=============================================================================
