---------------------------- MODULE WorkflowRun ----------------------------
(***************************************************************************)
(* The WorkflowRun controller (src/internal/controller/workflowrun): one   *)
(* WorkflowRun object in the control plane, the run and the additional     *)
(* resources it has on the workflow plane, and the reconciler between      *)
(* them.  Every API call is a step of its own.  The reconciler reads the   *)
(* object from the informer cache, which may lag behind the API server,    *)
(* and its writes to the object are refused when the copy is outdated;     *)
(* its writes to the workflow plane are not protected in that way.         *)
(***************************************************************************)
EXTENDS Naturals, FiniteSets

CONSTANTS Extras,      \* output.Resources: additional resources of the run
          HasTTL,      \* the Workflow sets ttlAfterCompletion
          MaxFaults    \* bound on faults and outside changes

ASSUME TTLAssumption == HasTTL \in BOOLEAN
ASSUME FaultsAssumption == MaxFaults \in Nat

VARIABLES
  wr,      \* the WorkflowRun held by the API server
  cache,   \* the informer's copy of it
  synced,  \* the informer's copy is the latest version
  fresh,   \* the copy the reconciler works on is the latest version
  job,     \* the reconcile in progress
  queued,  \* the object is in the workqueue
  timer,   \* a RequeueAfter for the TTL is pending
  now,     \* the clock, relative to CompletedAt + TTL
  cluster, \* what the reconciler reads besides: Workflow, plane, Component
  run,     \* phase of the run on the workflow plane
  extras,  \* additional resources that exist on the workflow plane
  faults,  \* faults and outside changes so far
  seen     \* history of what happened to the run

control == <<wr, cache, synced, fresh, job, queued, timer>>
vars == <<control, now, cluster, run, extras, faults, seen>>

Finished == {"Succeeded", "Failed"}
Phases == {"none", "Pending", "Running"} \cup Finished

\* outcome abstracts the conditions: "none" when WorkflowCompleted is absent,
\* why it is False (not completed yet, no plane, an error of resolving or
\* rendering), the terminal result when it is True.
Waiting == {"pending", "noPlane", "error"}

WorkflowRuns ==
  [phase: {"live", "deleting", "gone"}, finalizer: BOOLEAN, ttl: BOOLEAN,
   outcome: {"none"} \cup Waiting \cup Finished, running: BOOLEAN,
   runReference: BOOLEAN, resources: SUBSET Extras, completedAt: BOOLEAN]

NewRun ==
  [phase |-> "live", finalizer |-> FALSE, ttl |-> FALSE, outcome |-> "none",
   running |-> FALSE, runReference |-> FALSE, resources |-> {},
   completedAt |-> FALSE]

NoJob == [pc |-> "idle", obj |-> NewRun, todo |-> {}, saw |-> "none", dirty |-> FALSE,
          again |-> FALSE]

Steps == {"idle", "addFinalizer", "ttl", "ttlAgain", "validate", "resolve",
          "sync", "copyTTL", "apply", "getRun", "createRun", "updateRun", "status",
          "finalize", "deleteResources", "removeFinalizer"}

Jobs ==
  [pc: Steps, obj: WorkflowRuns, todo: SUBSET Extras, saw: Phases, dirty: BOOLEAN,
   again: BOOLEAN]

Histories ==
  [ended: SUBSET Finished, excuse: BOOLEAN, skipped: BOOLEAN, straddled: BOOLEAN]

\* The object, its copies and the run have the fields and phases the code gives
\* them.
TypeOK ==
  /\ wr \in WorkflowRuns /\ cache \in WorkflowRuns
  /\ synced \in BOOLEAN /\ fresh \in BOOLEAN
  /\ job \in Jobs
  /\ queued \in BOOLEAN /\ timer \in BOOLEAN
  /\ now \in {"before", "after"}
  /\ cluster \in [workflow: BOOLEAN, plane: BOOLEAN, allowed: BOOLEAN]
  /\ run \in Phases
  /\ extras \subseteq Extras
  /\ faults \in 0..MaxFaults
  /\ seen \in Histories

Init ==
  /\ wr = NewRun /\ cache = NewRun
  /\ synced = TRUE /\ fresh = TRUE
  /\ job = NoJob /\ queued = TRUE /\ timer = FALSE
  /\ now = "before"
  /\ cluster = [workflow |-> TRUE, plane |-> TRUE, allowed |-> TRUE]
  /\ run = "none" /\ extras = {} /\ faults = 0
  /\ seen = [ended |-> {}, excuse |-> FALSE, skipped |-> FALSE, straddled |-> FALSE]

-----------------------------------------------------------------------------
(* Reading, writing and leaving. *)

WriteAnyVersion(w) == wr' = w /\ synced' = FALSE

\* A write to the object that carries the resourceVersion of the copy: it is
\* taken when the copy is the latest version and refused otherwise.
Write(w) ==
  /\ fresh
  /\ wr' = w /\ synced' = FALSE

\* The reconcile ends; an error or a Requeue puts the object back.
Return(requeue) ==
  /\ job' = NoJob /\ fresh' = TRUE
  /\ queued' = (queued \/ requeue)

Goto(pc, todo) == job' = [job EXCEPT !.pc = pc, !.todo = todo]

\* Leaving with result `requeue` after setting the status to that of obj: the
\* deferred Status().Update follows when the status differs from the one read.
Finish(obj, requeue) ==
  IF obj # job.obj \/ job.dirty
  THEN /\ job' = [job EXCEPT !.pc = "status", !.obj = obj, !.again = requeue]
       /\ UNCHANGED <<fresh, queued>>
  ELSE Return(requeue)

env == <<now, cluster, faults>>
plane == <<run, extras>>
object == <<wr, cache, synced>>

setFailedCondition(obj) == [obj EXCEPT !.outcome = "Failed", !.running = FALSE]

setSucceededCondition(obj) == [obj EXCEPT !.outcome = "Succeeded", !.running = FALSE]

\* The conditions that leave WorkflowCompleted False and give another reason.
setWaitingCondition(obj, reason) == [obj EXCEPT !.outcome = reason]

isWorkflowCompleted(obj) == obj.outcome \in Finished

\* Where a reconcile goes once the object is neither deleting nor without its
\* finalizer nor due for the TTL check.
NextStep(obj) == IF ~obj.running /\ ~obj.runReference THEN "validate" ELSE "resolve"

-----------------------------------------------------------------------------
(* The reconciler. *)

\* The informer delivers the latest version and enqueues the object.
Sync ==
  /\ ~synced
  /\ cache' = wr /\ synced' = TRUE /\ queued' = TRUE
  /\ UNCHANGED <<wr, fresh, job, timer, env, plane, seen>>

\* Reconcile reads the cached object and chooses its branch.
Start ==
  /\ job.pc = "idle" /\ queued
  /\ queued' = FALSE /\ fresh' = synced
  /\ LET At(pc, obj, requeue) ==
           job' = [NoJob EXCEPT !.pc = pc, !.obj = obj, !.again = requeue]
     IN  CASE cache.phase = "gone" -> job' = NoJob
           [] cache.phase = "deleting" -> At("finalize", cache, FALSE)
           [] cache.phase = "live" /\ ~cache.finalizer -> At("addFinalizer", cache, FALSE)
           [] cache.phase = "live" /\ cache.finalizer /\ cache.completedAt /\ cache.ttl ->
                At("ttl", cache, FALSE)
           [] cache.phase = "live" /\ cache.finalizer /\ ~(cache.completedAt /\ cache.ttl) ->
                CASE isWorkflowCompleted(cache) ->
                       IF cache.completedAt
                       THEN job' = NoJob
                       ELSE At("status", [cache EXCEPT !.completedAt = TRUE], FALSE)
                  [] cache.outcome = "none" ->
                       At("status", [cache EXCEPT !.outcome = "pending"], TRUE)
                  [] cache.outcome \in Waiting -> At(NextStep(cache), cache, FALSE)
  /\ UNCHANGED <<object, timer, env, plane, seen>>

ensureFinalizer ==
  /\ job.pc = "addFinalizer"
  /\ \/ Write([job.obj EXCEPT !.finalizer = TRUE]) /\ Return(FALSE)
     \/ ~fresh /\ UNCHANGED <<wr, synced>> /\ Return(TRUE)
  /\ UNCHANGED <<cache, timer, env, plane, seen>>

\* Deleting an object that holds the finalizer only marks it.
Deleted(w) == [w EXCEPT !.phase = IF w.finalizer THEN "deleting" ELSE "gone"]

\* checkTTLExpiration reads the clock twice.  A first reading past the
\* expiration deletes the object.
checkTTLExpiration ==
  /\ job.pc = "ttl"
  /\ IF now = "after"
     THEN /\ IF wr.phase = "live"
             THEN wr' = Deleted(wr) /\ synced' = FALSE
             ELSE UNCHANGED <<wr, synced>>
          /\ Return(FALSE)
     ELSE Goto("ttlAgain", {}) /\ UNCHANGED <<wr, synced, fresh, queued>>
  /\ UNCHANGED <<cache, timer, env, plane, seen>>

TTLNoRequeue ==
  /\ job.pc = "ttlAgain"
  /\ seen' = [seen EXCEPT !.straddled = @ \/ now = "after"]
  /\ Return(FALSE)
  /\ UNCHANGED <<object, timer, env, plane>>

\* The second reading sets the timer, unless the expiration fell between the
\* two: then the check lets the reconcile go on, which ends without a requeue.
TTLRequeue ==
  /\ job.pc = "ttlAgain"
  /\ timer' = (timer \/ now = "before")
  /\ seen' = [seen EXCEPT !.straddled = @ \/ now = "after"]
  /\ Return(FALSE)
  /\ UNCHANGED <<object, env, plane>>

\* validateComponentWorkflowRun: a workflow the component does not allow, or a
\* component that is missing, fails the run for good.
validateComponentWorkflowRun ==
  /\ job.pc = "validate"
  /\ IF cluster.allowed
     THEN Goto("resolve", {}) /\ UNCHANGED <<fresh, queued, seen>>
     ELSE /\ Finish(setFailedCondition(job.obj), FALSE)
          /\ seen' = [seen EXCEPT !.excuse = TRUE]
  /\ UNCHANGED <<object, timer, env, plane>>

\* The Workflow and the workflow plane are resolved, and the branch taken.
Resolve ==
  /\ job.pc = "resolve"
  /\ CASE ~cluster.workflow ->
            /\ Finish(setFailedCondition(job.obj), FALSE)
            /\ seen' = [seen EXCEPT !.excuse = TRUE]
       [] cluster.workflow /\ ~cluster.plane ->
            Finish(setWaitingCondition(job.obj, "noPlane"), TRUE) /\ UNCHANGED seen
       [] cluster.workflow /\ cluster.plane ->
            /\ Goto(IF job.obj.runReference THEN "sync"
                    ELSE IF HasTTL /\ ~job.obj.ttl THEN "copyTTL" ELSE "apply", Extras)
            /\ UNCHANGED <<fresh, queued, seen>>
  /\ UNCHANGED <<object, timer, env, plane>>

syncFailsPending ==
  /\ job.pc = "sync"
  /\ CASE run = "Pending" -> Finish(setFailedCondition(job.obj), FALSE) /\ UNCHANGED seen
       [] run = "Running" -> Finish([job.obj EXCEPT !.running = TRUE], TRUE) /\ UNCHANGED seen
       [] run = "Succeeded" -> Finish(setSucceededCondition(job.obj), TRUE) /\ UNCHANGED seen
       [] run = "Failed" -> Finish(setFailedCondition(job.obj), FALSE) /\ UNCHANGED seen
       [] run = "none" -> /\ Finish(setFailedCondition(job.obj), FALSE)
                          /\ seen' = [seen EXCEPT !.excuse = TRUE]
  /\ UNCHANGED <<object, timer, env, plane>>

syncOnce ==
  /\ job.pc = "sync"
  /\ CASE run = "Pending" -> Return(TRUE) /\ UNCHANGED seen
       [] run = "Running" -> Finish([job.obj EXCEPT !.running = TRUE], FALSE) /\ UNCHANGED seen
       [] run = "Succeeded" -> Finish(setSucceededCondition(job.obj), TRUE) /\ UNCHANGED seen
       [] run = "Failed" -> Finish(setFailedCondition(job.obj), FALSE) /\ UNCHANGED seen
       [] run = "none" -> /\ Finish(setFailedCondition(job.obj), FALSE)
                          /\ seen' = [seen EXCEPT !.excuse = TRUE]
  /\ UNCHANGED <<object, timer, env, plane>>

syncRecreates ==
  /\ job.pc = "sync"
  /\ CASE run = "Pending" -> Return(TRUE) /\ UNCHANGED seen
       [] run = "Running" -> Finish([job.obj EXCEPT !.running = TRUE], TRUE) /\ UNCHANGED seen
       [] run = "Succeeded" -> Finish(setSucceededCondition(job.obj), TRUE) /\ UNCHANGED seen
       [] run = "Failed" -> Finish(setFailedCondition(job.obj), FALSE) /\ UNCHANGED seen
       [] run = "none" -> Goto("apply", Extras) /\ UNCHANGED <<fresh, queued, seen>>
  /\ UNCHANGED <<object, timer, env, plane>>

\* The outcome the reconciler derives from the run it finds on the plane; a run
\* that is no longer there counts as failed.
syncWorkflowRunStatus ==
  /\ job.pc = "sync"
  /\ CASE run = "Pending" -> Return(TRUE) /\ UNCHANGED seen
       [] run = "Running" -> Finish([job.obj EXCEPT !.running = TRUE], TRUE) /\ UNCHANGED seen
       [] run = "Succeeded" -> Finish(setSucceededCondition(job.obj), TRUE) /\ UNCHANGED seen
       [] run = "Failed" -> Finish(setFailedCondition(job.obj), FALSE) /\ UNCHANGED seen
       [] run = "none" -> /\ Finish(setFailedCondition(job.obj), FALSE)
                          /\ seen' = [seen EXCEPT !.excuse = TRUE]
  /\ UNCHANGED <<object, timer, env, plane>>

copyTTL ==
  /\ job.pc = "copyTTL"
  /\ \/ Write([job.obj EXCEPT !.ttl = TRUE])
     \/ ~fresh /\ UNCHANGED <<wr, synced>>
  /\ Return(TRUE)
  /\ UNCHANGED <<cache, timer, env, plane, seen>>

\* applyRenderedResources: one resource created or updated; once all are, they
\* are entered in the status of the copy.
applyRenderedResources ==
  /\ job.pc = "apply"
  /\ \/ \E e \in job.todo :
          /\ extras' = extras \cup {e}
          /\ Goto("apply", job.todo \ {e})
     \/ /\ job.todo = {}
        /\ job' = [job EXCEPT !.pc = "getRun", !.obj.resources = Extras,
                              !.dirty = job.obj.resources # Extras]
        /\ UNCHANGED extras
  /\ UNCHANGED <<object, fresh, queued, timer, env, run, seen>>

\* applyRenderedRunResource asks for the run, then creates or updates it.
GetRun ==
  /\ job.pc = "getRun"
  /\ job' = [job EXCEPT !.pc = IF run = "none" THEN "createRun" ELSE "updateRun", !.saw = run]
  /\ UNCHANGED <<object, fresh, queued, timer, env, plane, seen>>

recordRun == Finish([job.obj EXCEPT !.runReference = TRUE], TRUE)

\* A run under the same name is refused.
CreateRun ==
  /\ job.pc = "createRun"
  /\ IF run = "none" THEN run' = "Pending" /\ recordRun
     ELSE UNCHANGED run /\ Finish(job.obj, TRUE)
  /\ UNCHANGED <<object, timer, env, extras, seen>>

\* The update carries the version read, and is refused when the engine or
\* somebody else has changed the run since.  It replaces the whole run by one
\* without status, so that the engine starts it again.
UpdateRun ==
  /\ job.pc = "updateRun"
  /\ IF run = job.saw THEN run' = "Pending" /\ recordRun
     ELSE UNCHANGED run /\ Finish(job.obj, TRUE)
  /\ UNCHANGED <<object, timer, env, extras, seen>>

\* The deferred Status().Update.
StatusUpdate ==
  /\ job.pc = "status"
  /\ \/ Write(job.obj) /\ Return(job.again)
     \/ ~fresh /\ UNCHANGED <<wr, synced>> /\ Return(TRUE)
  /\ UNCHANGED <<cache, timer, env, plane, seen>>

-----------------------------------------------------------------------------
(* Finalization. *)

finalizeNeedsPlane ==
  /\ job.pc = "finalize"
  /\ IF ~cluster.workflow \/ ~cluster.plane
     THEN Return(FALSE)
     ELSE Goto("deleteResources", job.obj.resources) /\ UNCHANGED <<fresh, queued>>
  /\ UNCHANGED <<object, timer, env, plane, seen>>

\* Without the Workflow or its plane the finalizer is removed and nothing is
\* cleaned up.
finalize ==
  /\ job.pc = "finalize"
  /\ IF ~cluster.workflow \/ ~cluster.plane
     THEN /\ Goto("removeFinalizer", {})
          /\ seen' = [seen EXCEPT !.skipped = TRUE]
     ELSE /\ Goto("deleteResources", job.obj.resources)
          /\ UNCHANGED seen
  /\ UNCHANGED <<object, fresh, queued, timer, env, plane>>

DeleteExtrasOnly ==
  /\ job.pc = "deleteResources"
  /\ \/ \E e \in job.todo :
          /\ extras' = extras \ {e}
          /\ Goto("deleteResources", job.todo \ {e})
     \/ /\ job.todo = {}
        /\ Goto("removeFinalizer", {})
        /\ UNCHANGED extras
  /\ UNCHANGED <<object, fresh, queued, timer, env, run, seen>>

\* The recorded resources are deleted one after the other, then the run.
DeleteResources ==
  /\ job.pc = "deleteResources"
  /\ \/ \E e \in job.todo :
          /\ extras' = extras \ {e}
          /\ Goto("deleteResources", job.todo \ {e})
          /\ UNCHANGED run
     \/ /\ job.todo = {}
        /\ run' = IF job.obj.runReference THEN "none" ELSE run
        /\ Goto("removeFinalizer", {})
        /\ UNCHANGED extras
  /\ UNCHANGED <<object, fresh, queued, timer, env, seen>>

removeFinalizer ==
  /\ job.pc = "removeFinalizer"
  /\ \/ Write([job.obj EXCEPT !.finalizer = FALSE, !.phase = "gone"]) /\ Return(FALSE)
     \/ ~fresh /\ UNCHANGED <<wr, synced>> /\ Return(TRUE)
  /\ UNCHANGED <<cache, timer, env, plane, seen>>

Reconcile ==
  \/ Start \/ ensureFinalizer \/ checkTTLExpiration \/ TTLRequeue
  \/ validateComponentWorkflowRun \/ Resolve \/ syncWorkflowRunStatus \/ copyTTL
  \/ applyRenderedResources \/ GetRun \/ CreateRun \/ UpdateRun \/ StatusUpdate
  \/ finalize \/ DeleteResources \/ removeFinalizer

-----------------------------------------------------------------------------
(* The clock, the workflow engine and the users. *)

\* The TTL runs out some time after CompletedAt was recorded.
Tick ==
  /\ wr.completedAt /\ now = "before"
  /\ now' = "after"
  /\ UNCHANGED <<control, cluster, plane, faults, seen>>

\* The delayed requeue is delivered once its time has come.
TimerFires ==
  /\ timer /\ now = "after"
  /\ timer' = FALSE /\ queued' = TRUE
  /\ UNCHANGED <<object, fresh, job, env, plane, seen>>

RunStarts ==
  /\ run = "Pending"
  /\ run' = "Running"
  /\ UNCHANGED <<control, env, extras, seen>>

RunEnds(result) ==
  /\ run = "Running"
  /\ run' = result
  /\ seen' = [seen EXCEPT !.ended = @ \cup {result}]
  /\ UNCHANGED <<control, env, extras>>

\* The plane CR is registered again.
PlaneReturns ==
  /\ ~cluster.plane
  /\ cluster' = [cluster EXCEPT !.plane = TRUE]
  /\ UNCHANGED <<control, now, plane, faults, seen>>

Fault ==
  /\ faults < MaxFaults
  /\ faults' = faults + 1

\* A user deletes the WorkflowRun.
Delete ==
  /\ wr.phase = "live"
  /\ wr' = Deleted(wr) /\ synced' = FALSE /\ fresh' = FALSE
  /\ UNCHANGED <<cache, job, queued, timer, env, plane, seen>>

\* Someone else writes the object (a label, an annotation).
Touch ==
  /\ Fault /\ wr.phase # "gone"
  /\ synced' = FALSE /\ fresh' = FALSE
  /\ UNCHANGED <<wr, cache, job, queued, timer, now, cluster, plane, seen>>

\* The Workflow is deleted, the plane CR is deleted, or the component stops
\* allowing the workflow.
ClusterChanges ==
  /\ Fault
  /\ \E what \in DOMAIN cluster : cluster[what] /\ cluster' = [cluster EXCEPT ![what] = FALSE]
  /\ UNCHANGED <<control, now, plane, seen>>

\* The run disappears from the plane: the engine's own clean-up of ended runs,
\* or an operator.
RunRemoved ==
  /\ Fault /\ run # "none"
  /\ run' = "none"
  /\ UNCHANGED <<control, now, cluster, extras, seen>>

\* A call of the reconcile fails with an error that is not one of the branches
\* above; the deferred status update still runs when the status was changed.
\* Errors of resolving and of rendering are entered in the status.
CallFails ==
  /\ Fault
  /\ \/ /\ job.pc = "resolve" \/ (job.pc = "apply" /\ job.todo = Extras)
        /\ Finish(setWaitingCondition(job.obj, "error"), TRUE)
     \/ job.pc \in {"getRun", "createRun", "updateRun"} /\ Finish(job.obj, TRUE)
     \/ /\ job.pc \notin {"idle", "ttlAgain", "getRun", "createRun", "updateRun"}
        /\ Return(TRUE)
  /\ UNCHANGED <<object, timer, now, cluster, plane, seen>>

\* The controller process restarts: what it held in memory is lost, and the new
\* process lists the object and enqueues it.
Crash ==
  /\ Fault
  /\ job' = NoJob /\ fresh' = TRUE /\ timer' = FALSE
  /\ cache' = wr /\ synced' = TRUE /\ queued' = TRUE
  /\ UNCHANGED <<wr, now, cluster, plane, seen>>

Environment ==
  \/ Tick \/ TimerFires \/ RunStarts \/ (\E r \in Finished : RunEnds(r)) \/ PlaneReturns

Next ==
  \/ Sync \/ Reconcile \/ Environment
  \/ Delete \/ Touch \/ ClusterChanges \/ RunRemoved \/ CallFails \/ Crash

Spec == Init /\ [][Next]_vars

\* The workqueue, the informer, the clock and the engine make progress; users
\* and faults owe nothing.
Fairness ==
  /\ WF_vars(Sync) /\ WF_vars(Reconcile)
  /\ WF_vars(Tick) /\ WF_vars(TimerFires)
  /\ WF_vars(RunStarts) /\ WF_vars(\E r \in Finished : RunEnds(r))
  /\ WF_vars(PlaneReturns)

FairSpec == Spec /\ Fairness

-----------------------------------------------------------------------------
(* Properties. *)

\* A published outcome stands: it is that of the last execution, and no
\* reconcile starts the run again after it, however old the copy it works on.
\* Before, the run may be started again by a reconcile that read the object
\* without the reference (applyRenderedRunResource); outcomes that the
\* controller decided by itself are excepted.
OutcomeStands ==
  isWorkflowCompleted(wr) /\ wr.runReference /\ ~seen.excuse => run \in {wr.outcome, "none"}

\* The outcome that is published is the one the engine reached: Succeeded only
\* for a run that succeeded, Failed only for one that failed, was refused by
\* the validation, or whose Workflow or run was missing (Reconcile,
\* syncWorkflowRunStatus).
OutcomeIsTrue ==
  /\ wr.outcome = "Succeeded" => "Succeeded" \in seen.ended
  /\ wr.outcome = "Failed" => "Failed" \in seen.ended \/ seen.excuse

\* A published outcome and its CompletedAt are never taken back or replaced by
\* a later reconcile, whatever it read (isWorkflowCompleted and the conflict
\* check of Status().Update).
OutcomeIsFinal ==
  [][isWorkflowCompleted(wr) =>
       /\ wr'.outcome = wr.outcome
       /\ wr.completedAt => wr'.completedAt]_vars

\* When the object is gone, whatever its status recorded has been deleted from
\* the workflow plane, unless the Workflow or its plane was missing when it was
\* finalized (finalize).
RecordedIsCleanedUp ==
  wr.phase = "gone" /\ ~seen.skipped =>
    /\ wr.runReference => run = "none"
    /\ extras \cap wr.resources = {}

\* Every WorkflowRun that is not deleted ends with a published outcome and a
\* completion time, through any bounded number of faults (Reconcile).
Completes == <>(wr.phase # "live" \/ (isWorkflowCompleted(wr) /\ wr.completedAt))

\* A deleted WorkflowRun goes away (finalize).
DeletionEnds == [](wr.phase = "deleting" => <>(wr.phase = "gone"))

\* A completed WorkflowRun with a TTL is deleted, provided that no TTL check had
\* the expiration fall between its two readings of the clock
\* (checkTTLExpiration).
Expires == [](wr.completedAt /\ wr.ttl => <>(wr.phase # "live" \/ seen.straddled))
-----------------------------------------------------------------------------
(* Why the invariants hold: the strengthening that is inductive.            *)

Finalizing == {"finalize", "deleteResources", "removeFinalizer"}

\* From here a reconcile may reach the workflow plane and create.
Working == {"validate", "resolve", "sync", "copyTTL", "apply", "getRun", "createRun", "updateRun"}

MayCreate == cache.phase = "live" \/ job.pc \in Working

\* What is recorded is recorded under the finalizer.
UnderFinalizer(w) ==
  /\ w.phase = "deleting" => w.finalizer
  /\ w.phase = "live" /\ ~w.finalizer => ~w.runReference /\ w.resources = {}

\* OutcomeIsTrue, of any copy.
Honest(w) ==
  /\ w.outcome = "Succeeded" => "Succeeded" \in seen.ended
  /\ w.outcome = "Failed" => "Failed" \in seen.ended \/ seen.excuse

CopiesFit ==
  /\ \A w \in {wr, cache, job.obj} : UnderFinalizer(w) /\ Honest(w)
  /\ run \in Finished => run \in seen.ended
  /\ synced => cache = wr
  /\ wr.phase = "live" => cache.phase = "live"

\* A copy that is the latest version keeps the outcome it was read with.
Current ==
  /\ job.obj.phase = wr.phase
  /\ isWorkflowCompleted(wr) => /\ job.obj.outcome = wr.outcome
                                /\ wr.completedAt => job.obj.completedAt

JobFits ==
  job.pc # "idle" =>
    /\ job.obj.phase = IF job.pc \in Finalizing THEN "deleting" ELSE "live"
    /\ job.pc # "addFinalizer" => job.obj.finalizer
    /\ job.pc \in Working => job.obj.outcome \in Waiting
    /\ job.pc \in Finalizing => cache.phase # "live"
    /\ fresh => Current

Cleaned(w) == (w.runReference => run = "none") /\ extras \cap w.resources = {}

\* The finalizer cleans up what its copy records, and nothing is created after.
CleansUp ==
  /\ ~seen.skipped =>
       /\ job.pc = "deleteResources" => extras \cap job.obj.resources \subseteq job.todo
       /\ job.pc = "removeFinalizer" => Cleaned(job.obj)
       /\ wr.phase = "gone" => Cleaned(wr)
  /\ wr.phase = "gone" /\ MayCreate => ~wr.runReference /\ wr.resources = {}

WorkflowInv == TypeOK /\ CopiesFit /\ JobFits /\ CleansUp

\* OutcomeStands, of any copy.
Published(w) == isWorkflowCompleted(w) /\ w.runReference /\ ~seen.excuse

\* The reconcile is on its way to create or update the run.
Applying == job.pc \in Working /\ ~job.obj.runReference

\* Who publishes the outcome of a run has read the reference from the cache,
\* which does not forget it: no later reconcile applies the run.
RunStands ==
  /\ \A w \in {wr, cache, job.obj} : Published(w) => run \in {w.outcome, "none"}
  /\ Published(wr) => cache.runReference
  /\ Published(wr) \/ Published(cache) => ~Applying
  /\ job.pc = "sync" => job.obj.runReference
  /\ job.pc \in {"copyTTL", "apply", "getRun", "createRun", "updateRun"} =>
       ~job.obj.runReference
  /\ job.obj.runReference /\ (job.pc \in Working \/ isWorkflowCompleted(job.obj)) =>
       cache.runReference
  /\ cache.runReference => wr.runReference
  /\ job.pc # "idle" /\ fresh /\ wr.runReference => job.obj.runReference
=============================================================================
