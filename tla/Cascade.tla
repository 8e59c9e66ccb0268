------------------------------- MODULE Cascade -------------------------------
(***************************************************************************)
(* The deletion of a tenant: what happens after a Project, an Environment, *)
(* a DataPlane, a DeploymentPipeline, a Component, a Resource or a binding  *)
(* is deleted, in whatever order and at whatever moment.  Each kind has a   *)
(* controller of its own, and each controller holds its object back with a  *)
(* finalizer while it deletes, or waits for, other objects:                 *)
(*                                                                         *)
(*   Project     -> Components, Resources, ProjectReleaseBindings, then     *)
(*                  ProjectReleases, then the namespaces on the plane;      *)
(*   Component   -> ComponentReleases, ReleaseBindings (and Workloads and   *)
(*                  WorkflowRuns, which behave as one more leaf each);      *)
(*   Resource    -> ResourceReleaseBindings, then ResourceReleases;         *)
(*   a binding   -> the RenderedRelease it emitted;                         *)
(*   RenderedRelease -> its objects on the plane, reached through the       *)
(*                  Environment and its DataPlane;                          *)
(*   Environment -> blocked by a pipeline; ReleaseBindings and              *)
(*                  ProjectReleaseBindings, then the namespaces;            *)
(*   DeploymentPipeline -> blocked by Projects;                             *)
(*   DataPlane   -> blocked by Environments.                                *)
(*                                                                         *)
(* A reconcile reads (and deletes) in one step and removes the finalizer in *)
(* another, so that other controllers run in between; a binding reads its   *)
(* environment in one step and writes its RenderedRelease in another.       *)
(* Lists are read from caches that are taken to be up to date.              *)
(***************************************************************************)
EXTENDS Naturals, FiniteSets

CONSTANTS
    Envs,           \* the environments
    Bindings,       \* the bindings
    Tenants,        \* the bindings a tenant starts with, and what people delete
    KindOf,         \* a binding's kind
    EnvOf,          \* spec.environment of a binding
    Retained,       \* ResourceReleaseBindings whose snapshot says Retain
    SharedCluster,  \* the control plane and the data plane are one cluster
    MaxFaults       \* bound on failed calls, restarts and edits of a policy

ReleaseBinding == "ReleaseBinding"
ProjectReleaseBinding == "ProjectReleaseBinding"
ResourceReleaseBinding == "ResourceReleaseBinding"

Kinds == {ReleaseBinding, ProjectReleaseBinding, ResourceReleaseBinding}

Owners == {"Project", "DeploymentPipeline", "Component", "Resource", "DataPlane"}

Leaves == {"ComponentRelease", "ProjectRelease", "ResourceRelease"}

Objects == Owners \cup Leaves \cup Envs \cup Bindings

ASSUME CascadeAssumption ==
    /\ Envs \cap Bindings = {}
    /\ (Owners \cup Leaves) \cap (Envs \cup Bindings) = {}
    /\ KindOf \in [Bindings -> Kinds]
    /\ EnvOf \in [Bindings -> Envs]
    /\ Retained \subseteq {b \in Bindings : KindOf[b] = ResourceReleaseBinding}
    /\ Tenants \subseteq [bindings : SUBSET Bindings, deletes : SUBSET Objects]
    /\ SharedCluster \in BOOLEAN
    /\ MaxFaults \in Nat

VARIABLES
    obj,        \* the objects in the API server, and their reconciles
    rr,         \* per binding: the RenderedRelease it emits
    dp,         \* per binding: what its RenderedRelease applied on the plane
    deletes,    \* what people may delete themselves, not through the cascade
    promoted,   \* the environments the pipeline's promotion paths name
    policy,     \* per binding: spec.retainPolicy, "" when it is not set
    byHand,     \* history: releases people deleted, holds people cleared
    faults      \* failed calls, restarts and edits of a policy so far

\* What only people change.
people == <<deletes, promoted, policy, byHand>>

vars == <<obj, rr, dp, people, faults>>

-----------------------------------------------------------------------------
(* Objects. "bare" exists without a finalizer, "live" exists with one.  Of  *)
(* the condition only the question the first pass asks is kept.             *)

Object ==
    [st : {"none", "bare", "live", "deleting", "gone"},
     finalizing : BOOLEAN,   \* the condition is the one the first pass sets
     queued : BOOLEAN,
     job : {"idle", "render", "remove"}]

Fresh(st) == [st |-> st, finalizing |-> FALSE, queued |-> FALSE, job |-> "idle"]

Exists(x) == x.st \in {"bare", "live", "deleting"}

Alive(x) == x.st \in {"bare", "live"}

\* r.Delete: without a finalizer the object goes at once.
Deleted(x) ==
    CASE x.st = "bare" -> Fresh("gone")
      [] x.st = "live" -> [x EXCEPT !.st = "deleting", !.queued = TRUE]
      [] OTHER -> x

\* A status update, whose event brings the object back into the queue.
UpdateStatusConditions(x, f) == [x EXCEPT !.finalizing = f, !.queued = TRUE]

NoRequeue(x) == [x EXCEPT !.queued = FALSE]

RequeueAfter(x) == [x EXCEPT !.queued = TRUE]

\* Everything is gone: what is left of the reconcile is the update that
\* removes the finalizer.
AllGone(x) == [x EXCEPT !.job = "remove", !.queued = FALSE]

BindingsOf(kind) == {b \in Bindings : KindOf[b] = kind}

NotYetDeleted(S) == {o \in S : Alive(obj[o])}

Present(S) == {o \in S : Exists(obj[o])}

\* The cell namespace of an environment is what its ProjectReleaseBinding
\* applies.
Cell(e) == {b \in BindingsOf(ProjectReleaseBinding) : EnvOf[b] = e}

Owner(b) ==
    CASE KindOf[b] = ReleaseBinding -> "Component"
      [] KindOf[b] = ProjectReleaseBinding -> "Project"
      [] KindOf[b] = ResourceReleaseBinding -> "Resource"

Pinned(b) ==
    CASE KindOf[b] = ReleaseBinding -> "ComponentRelease"
      [] KindOf[b] = ProjectReleaseBinding -> "ProjectRelease"
      [] KindOf[b] = ResourceReleaseBinding -> "ResourceRelease"

-----------------------------------------------------------------------------
(* Init: a tenant with its releases cut and bound, and nothing rendered     *)
(* yet.  It has a component, or a resource, if it has a binding for one.    *)
(* An environment may name a data plane that does not exist.                *)

Policies == {"", "Retain", "Delete"}

Uses(T) == {Owner(b) : b \in T} \cup {Pinned(b) : b \in T}

Init ==
    /\ \E t \in Tenants, plane \in {"live", "none"} :
         LET T == t.bindings
         IN  /\ deletes = t.deletes
             /\ obj = [o \in Objects |->
                  CASE o = "DataPlane" -> Fresh(plane)
                    [] o \in {"Component", "Resource"} \ Uses(T) -> Fresh("none")
                    [] o \in Leaves -> Fresh(IF o \in Uses(T) THEN "bare" ELSE "none")
                    [] o \in Bindings -> IF o \in T THEN RequeueAfter(Fresh("live")) ELSE Fresh("none")
                    [] OTHER -> Fresh("live")]
    /\ rr = [b \in Bindings |-> Fresh("none")]
    /\ dp = [b \in Bindings |-> "none"]
    /\ promoted = Envs
    /\ policy = [b \in Bindings |-> ""]
    /\ byHand = {}
    /\ faults = 0

-----------------------------------------------------------------------------
(* Finalizers.                                                             *)

Finalizes(o) ==
    /\ obj[o].st = "deleting"
    /\ obj[o].queued
    /\ obj[o].job = "idle"

Becomes(o, x) ==
    /\ obj' = [obj EXCEPT ![o] = x]
    /\ UNCHANGED <<rr, dp, people, faults>>

\* Deletes every object of S that is not yet being deleted and leaves o as
\* `after'. A delete that fails ends the reconcile with an error, after some
\* of the others were made.
Cascades(o, S, after) ==
    \E done \in SUBSET {c \in S : Alive(obj[c])} :
        LET failed == \E c \in S : Alive(obj[c]) /\ c \notin done
        IN  /\ failed => faults < MaxFaults
            /\ obj' = [c \in Objects |->
                         CASE c = o -> IF failed THEN RequeueAfter(obj[o]) ELSE after
                           [] c \in done -> Deleted(obj[c])
                           [] OTHER -> obj[c]]
            /\ faults' = IF failed THEN faults + 1 ELSE faults
            /\ UNCHANGED <<rr, dp, people>>

\* The first pass only records that the object is being finalized.
MarkFinalizing(o) ==
    /\ ~obj[o].finalizing
    /\ Becomes(o, UpdateStatusConditions(obj[o], TRUE))

componentFinalize ==
    LET owned == Present({"ComponentRelease"} \cup BindingsOf(ReleaseBinding))
    IN  /\ Finalizes("Component")
        /\ \/ MarkFinalizing("Component")
           \/ /\ obj["Component"].finalizing
              /\ IF owned # {}
                 THEN Cascades("Component", owned, RequeueAfter(obj["Component"]))
                 ELSE Becomes("Component", AllGone(obj["Component"]))

\* The binding's own policy, else the one of the snapshot, which says nothing
\* once it is gone, else Delete.
effectiveRetainPolicy(b) ==
    CASE policy[b] # "" -> policy[b]
      [] policy[b] = "" /\ b \in Retained /\ Exists(obj[Pinned(b)]) -> "Retain"
      [] OTHER -> "Delete"

resourceFinalizeAtOnce ==
    LET owned == Present({"ResourceRelease"} \cup BindingsOf(ResourceReleaseBinding))
        doomed == {o \in owned : o \in Bindings => effectiveRetainPolicy(o) = "Delete"}
    IN  /\ Finalizes("Resource")
        /\ \/ MarkFinalizing("Resource")
           \/ /\ obj["Resource"].finalizing
              /\ IF owned # {}
                 THEN Cascades("Resource", doomed, RequeueAfter(obj["Resource"]))
                 ELSE Becomes("Resource", AllGone(obj["Resource"]))

resourceFinalize ==
    LET bound == Present(BindingsOf(ResourceReleaseBinding))
        doomed == {b \in bound : effectiveRetainPolicy(b) = "Delete"}
    IN  /\ Finalizes("Resource")
        /\ \/ MarkFinalizing("Resource")
           \/ /\ obj["Resource"].finalizing
              /\ CASE bound # {} ->
                        Cascades("Resource", doomed, RequeueAfter(obj["Resource"]))
                   [] bound = {} /\ Exists(obj["ResourceRelease"]) ->
                        Cascades("Resource", {"ResourceRelease"}, RequeueAfter(obj["Resource"]))
                   [] OTHER ->
                        Becomes("Resource", AllGone(obj["Resource"]))

\* The namespaces a project looks for: those of the environments its pipeline
\* names, in the cluster of the control plane.
ProjectNamespaces ==
    IF SharedCluster /\ Exists(obj["DeploymentPipeline"])
    THEN {b \in UNION {Cell(e) : e \in promoted} : dp[b] # "none"}
    ELSE {}

\* namespaceHandler.Delete stops at the first namespace it finds.
deleteExternalResourcesAndWait ==
    IF ProjectNamespaces = {}
    THEN Becomes("Project", AllGone(obj["Project"]))
    ELSE /\ \E b \in ProjectNamespaces : dp' = [dp EXCEPT ![b] = "terminating"]
         /\ obj' = [obj EXCEPT !["Project"] = RequeueAfter(@)]
         /\ UNCHANGED <<rr, people, faults>>

\* ProjectReleases are deleted in the first pass that finds no binding.
projectFinalize ==
    LET bound == Present(BindingsOf(ProjectReleaseBinding))
        owned == Present({"Component", "Resource"}) \cup bound
        children == IF bound = {} THEN owned \cup Present({"ProjectRelease"}) ELSE owned
    IN  /\ Finalizes("Project")
        /\ \/ MarkFinalizing("Project")
           \/ /\ obj["Project"].finalizing
              /\ IF children # {}
                 THEN Cascades("Project", children, RequeueAfter(obj["Project"]))
                 ELSE deleteExternalResourcesAndWait

\* A pipeline has no condition of its own for finalizing.
pipelineFinalize ==
    /\ Finalizes("DeploymentPipeline")
    /\ Becomes("DeploymentPipeline",
               IF Exists(obj["Project"])
               THEN RequeueAfter(obj["DeploymentPipeline"])
               ELSE AllGone(obj["DeploymentPipeline"]))

dataPlaneFinalize ==
    /\ Finalizes("DataPlane")
    /\ IF Present(Envs) # {}
       THEN Becomes("DataPlane", UpdateStatusConditions(obj["DataPlane"], FALSE))
       ELSE \/ MarkFinalizing("DataPlane")
            \/ /\ obj["DataPlane"].finalizing
               /\ Becomes("DataPlane", AllGone(obj["DataPlane"]))

CountedReleaseBindings(e) == {b \in BindingsOf(ReleaseBinding) : EnvOf[b] = e}

\* The bindings an environment deletes and waits for.
Counted(e) ==
    {b \in BindingsOf(ReleaseBinding) \cup BindingsOf(ProjectReleaseBinding) : EnvOf[b] = e}

findLivePipeline(e) == Alive(obj["DeploymentPipeline"]) /\ e \in promoted

findReferencingPipeline(e) == Exists(obj["DeploymentPipeline"]) /\ e \in promoted

\* The namespaces with the environment's labels; without a data plane there
\* is nothing to clean up.
deleteNamespaces(e) ==
    LET cells == {b \in Cell(e) : dp[b] # "none"}
    IN  IF ~Exists(obj["DataPlane"]) \/ cells = {}
        THEN Becomes(e, AllGone(obj[e]))
        ELSE /\ dp' = [b \in Bindings |-> IF b \in cells THEN "terminating" ELSE dp[b]]
             /\ obj' = [obj EXCEPT ![e] = RequeueAfter(@)]
             /\ UNCHANGED <<rr, people, faults>>

\* A blocked or waiting pass records its reason in the condition the first
\* pass looks at, so that every other pass sets it back.
environmentFinalize(e) ==
    LET pending == Present(Counted(e))
    IN  /\ Finalizes(e)
        /\ CASE findReferencingPipeline(e) ->
                  Becomes(e, UpdateStatusConditions(obj[e], FALSE))
             [] ~findReferencingPipeline(e) /\ ~obj[e].finalizing ->
                  MarkFinalizing(e)
             [] ~findReferencingPipeline(e) /\ obj[e].finalizing /\ pending # {} ->
                  Cascades(e, pending, UpdateStatusConditions(obj[e], FALSE))
             [] OTHER -> deleteNamespaces(e)

\* The three kinds of binding delete the RenderedRelease and wait for it.
hasOwnedReleases(b) ==
    IF Exists(rr[b])
    THEN /\ rr' = [rr EXCEPT ![b] = Deleted(@)]
         /\ obj' = [obj EXCEPT ![b] = RequeueAfter(@)]
         /\ UNCHANGED <<dp, people, faults>>
    ELSE Becomes(b, AllGone(obj[b]))

\* Only a ResourceReleaseBinding has a retain policy, and looks at it first.
RetainHold(b) ==
    KindOf[b] = ResourceReleaseBinding /\ effectiveRetainPolicy(b) = "Retain"

bindingFinalize(b) ==
    /\ Finalizes(b)
    /\ CASE ~obj[b].finalizing -> MarkFinalizing(b)
         [] obj[b].finalizing /\ RetainHold(b) ->
              Becomes(b, UpdateStatusConditions(obj[b], FALSE))
         [] OTHER -> hasOwnedReleases(b)

removeFinalizer(o) ==
    /\ obj[o].job = "remove"
    /\ Becomes(o, Fresh("gone"))

-----------------------------------------------------------------------------
(* Bindings that are not being deleted.                                     *)

\* Everything the rendering needs is there.
Resolved(b) ==
    /\ Exists(obj[Pinned(b)])
    /\ Exists(obj[EnvOf[b]])
    /\ Exists(obj["DataPlane"])
    /\ Exists(obj[Owner(b)])
    /\ Exists(obj["Project"])

reconcile(b) ==
    /\ obj[b].st = "live"
    /\ obj[b].queued
    /\ obj[b].job = "idle"
    /\ Becomes(b, IF Resolved(b)
                  THEN [obj[b] EXCEPT !.job = "render", !.queued = FALSE]
                  ELSE [obj[b] EXCEPT !.queued = FALSE])

\* CreateOrUpdate of the RenderedRelease; the binding may be under deletion
\* by now.
renderAndEmit(b) ==
    /\ obj[b].job = "render"
    /\ obj' = [obj EXCEPT ![b].job = "idle"]
    /\ rr' = [rr EXCEPT ![b] = IF Exists(@) THEN @ ELSE Fresh("bare")]
    /\ UNCHANGED <<dp, people, faults>>

-----------------------------------------------------------------------------
(* RenderedReleases, seen from here: the details are in RenderedRelease.    *)

RRBecomes(b, x) ==
    /\ rr' = [rr EXCEPT ![b] = x]
    /\ UNCHANGED <<obj, dp, people, faults>>

getDPClient(b) == Exists(obj[EnvOf[b]]) /\ Exists(obj["DataPlane"])

releaseEnsureFinalizer(b) ==
    /\ rr[b].st = "bare"
    /\ RRBecomes(b, Fresh("live"))

\* Nothing is applied outside a namespace, and only the project's own release
\* brings one.
releaseApply(b) ==
    /\ rr[b].st = "live"
    /\ getDPClient(b)
    /\ dp[b] = "none"
    /\ b \in Cell(EnvOf[b]) \/ \E c \in Cell(EnvOf[b]) : dp[c] = "there"
    /\ dp' = [dp EXCEPT ![b] = "there"]
    /\ UNCHANGED <<obj, rr, people, faults>>

\* Without a client the finalizer fails, and is retried; with one it deletes
\* what is on the plane and goes when nothing is left.
releaseFinalize(b) ==
    /\ rr[b].st = "deleting"
    /\ getDPClient(b)
    /\ IF dp[b] # "none"
       THEN /\ dp' = [dp EXCEPT ![b] = "terminating"]
            /\ UNCHANGED <<obj, rr, people, faults>>
       ELSE RRBecomes(b, Fresh("none"))

\* The plane finishes a deletion; a namespace takes its contents with it.
PlaneRemoves(b) ==
    /\ dp[b] = "terminating"
    /\ dp' = [c \in Bindings |->
                IF c = b \/ (b \in Cell(EnvOf[b]) /\ EnvOf[c] = EnvOf[b])
                THEN "none" ELSE dp[c]]
    /\ UNCHANGED <<obj, rr, people, faults>>

\* The garbage collector deletes a RenderedRelease whose owner is gone.
Collect(b) ==
    /\ ~Exists(obj[b])
    /\ Alive(rr[b])
    /\ RRBecomes(b, Deleted(rr[b]))

-----------------------------------------------------------------------------
(* People, and faults.                                                     *)

\* A release has no finalizer: it goes whatever is bound to it.
Delete(o) ==
    /\ o \in deletes
    /\ Alive(obj[o])
    /\ obj' = [obj EXCEPT ![o] = Deleted(@)]
    /\ byHand' = byHand \cup ({o} \cap Leaves)
    /\ UNCHANGED <<rr, dp, deletes, promoted, policy, faults>>

\* The pipeline no longer promotes to e.
Unpromote(e) ==
    /\ e \in promoted
    /\ Exists(obj["DeploymentPipeline"])
    /\ promoted' = promoted \ {e}
    /\ UNCHANGED <<obj, rr, dp, deletes, policy, byHand, faults>>

\* Someone reclaims what a retained resource left and clears the finalizer.
ClearHold(b) ==
    /\ obj[b].st = "deleting"
    /\ RetainHold(b)
    /\ obj' = [obj EXCEPT ![b] = Fresh("gone")]
    /\ byHand' = byHand \cup {b}
    /\ UNCHANGED <<rr, dp, deletes, promoted, policy, faults>>

\* The override is set, flipped or taken back. The new generation makes the
\* condition stale, and an update of the finalizers made from the old object
\* is refused.
SetRetainPolicy(b, p) ==
    /\ KindOf[b] = ResourceReleaseBinding
    /\ Exists(obj[b])
    /\ policy[b] # p
    /\ faults < MaxFaults
    /\ faults' = faults + 1
    /\ policy' = [policy EXCEPT ![b] = p]
    /\ obj' = [obj EXCEPT ![b] =
                 [@ EXCEPT !.finalizing = FALSE, !.queued = TRUE,
                           !.job = IF obj[b].job = "remove" THEN "idle" ELSE obj[b].job]]
    /\ UNCHANGED <<rr, dp, deletes, promoted, byHand>>

\* The call a reconcile has outstanding fails; the error brings the object
\* back with a back-off.
CallFails(o) ==
    /\ obj[o].job # "idle"
    /\ faults < MaxFaults
    /\ faults' = faults + 1
    /\ obj' = [obj EXCEPT ![o].job = "idle", ![o].queued = TRUE]
    /\ UNCHANGED <<rr, dp, people>>

\* The manager restarts: jobs are lost, and every object is listed and queued
\* again (for the ones without a job that changes nothing).
Restart ==
    /\ faults < MaxFaults
    /\ faults' = faults + 1
    /\ obj' = [o \in Objects |->
                 IF obj[o].job = "idle" THEN obj[o]
                 ELSE [obj[o] EXCEPT !.job = "idle", !.queued = TRUE]]
    /\ UNCHANGED <<rr, dp, people>>

-----------------------------------------------------------------------------

BindingStep(b) ==
    \/ bindingFinalize(b)
    \/ reconcile(b)
    \/ renderAndEmit(b)

ReleaseStep(b) ==
    \/ releaseEnsureFinalizer(b)
    \/ releaseApply(b)
    \/ releaseFinalize(b)

Next ==
    \/ componentFinalize
    \/ resourceFinalize
    \/ projectFinalize
    \/ pipelineFinalize
    \/ dataPlaneFinalize
    \/ \E e \in Envs : environmentFinalize(e) \/ Unpromote(e)
    \/ \E o \in Objects : removeFinalizer(o) \/ Delete(o) \/ CallFails(o)
    \/ \E b \in Bindings : BindingStep(b) \/ ReleaseStep(b)
    \/ \E b \in Bindings : PlaneRemoves(b) \/ Collect(b) \/ ClearHold(b)
    \/ \E b \in Bindings, p \in Policies : SetRetainPolicy(b, p)
    \/ Restart

Spec == Init /\ [][Next]_vars

\* Queued objects are reconciled, calls return, the plane and the garbage
\* collector do their work.
Fairness ==
    /\ WF_vars(componentFinalize \/ removeFinalizer("Component"))
    /\ WF_vars(resourceFinalize \/ removeFinalizer("Resource"))
    /\ WF_vars(projectFinalize \/ removeFinalizer("Project"))
    /\ WF_vars(pipelineFinalize \/ removeFinalizer("DeploymentPipeline"))
    /\ WF_vars(dataPlaneFinalize \/ removeFinalizer("DataPlane"))
    /\ \A e \in Envs : WF_vars(environmentFinalize(e) \/ removeFinalizer(e))
    /\ \A b \in Bindings : WF_vars(BindingStep(b) \/ removeFinalizer(b))
    /\ \A b \in Bindings : WF_vars(ReleaseStep(b))
    /\ \A b \in Bindings : WF_vars(PlaneRemoves(b)) /\ WF_vars(Collect(b))

FairSpec == Spec /\ Fairness

-----------------------------------------------------------------------------
(* Properties.                                                             *)

\* Objects, releases and what is on the plane are in one of the states their
\* controllers know.
TypeOK ==
    /\ obj \in [Objects -> Object]
    /\ rr \in [Bindings -> Object]
    /\ dp \in [Bindings -> {"none", "there", "terminating"}]
    /\ deletes \subseteq Objects
    /\ promoted \subseteq Envs
    /\ policy \in [Bindings -> Policies]
    /\ byHand \subseteq Leaves \cup BindingsOf(ResourceReleaseBinding)
    /\ faults \in 0..MaxFaults

\* A RenderedRelease reaches the plane through its environment and that
\* environment's data plane, also to clean up. The environment's finalizer
\* waits for the ReleaseBindings and ProjectReleaseBindings, these for their
\* RenderedRelease, and the data plane's for the environments: whatever is
\* deleted, in whatever order, neither goes before the release it serves.
EnvironmentOutlivesReleases ==
    \A b \in BindingsOf(ReleaseBinding) \cup BindingsOf(ProjectReleaseBinding) :
        Exists(rr[b]) => Exists(obj[EnvOf[b]]) /\ Exists(obj["DataPlane"])

\* When an environment or the project is gone, so is everything it had on the
\* plane, and a project that is gone has left no component, resource, binding
\* or release behind (the RenderedRelease of a resource binding whose hold was
\* cleared by hand excepted, which is left to the garbage collector).
NothingLeftBehind ==
    /\ \A b \in Bindings :
         ~Exists(obj[EnvOf[b]]) \/ ~Exists(obj["Project"]) => dp[b] = "none"
    /\ ~Exists(obj["Project"]) =>
         /\ \A o \in {"Component", "Resource"} \cup Leaves \cup Bindings : ~Exists(obj[o])
         /\ \A b \in Bindings : Exists(rr[b]) => b \in byHand

\* What is named by something that still needs it is not removed: a pipeline
\* outlives its project, an environment the pipeline that promotes to it, a
\* component, project or resource its bindings, and the release of a project or
\* a resource every binding that pins it, unless people delete that release
\* themselves, which nothing prevents. ComponentReleases are left out: a
\* component deletes them together with its ReleaseBindings.
ReferencedStays ==
    /\ Exists(obj["Project"]) => Exists(obj["DeploymentPipeline"])
    /\ Exists(obj["DeploymentPipeline"]) => \A e \in promoted : Exists(obj[e])
    /\ \A b \in Bindings : Exists(obj[b]) => Exists(obj[Owner(b)])
    /\ \A b \in Bindings \ BindingsOf(ReleaseBinding) :
         Exists(obj[b]) => Exists(obj[Pinned(b)]) \/ Pinned(b) \in byHand

\* A resource is to be kept while its binding says Retain, or says nothing and
\* pins a release that does and that people have not deleted.
Kept(b) ==
    \/ policy[b] = "Retain"
    \/ policy[b] = "" /\ b \in Retained /\ Pinned(b) \notin byHand

\* The cascade deletes neither the RenderedRelease of a resource that is to be
\* kept nor, through its Resource or its Project, the binding: only people
\* delete that one. The policy may be read from the ResourceRelease, which the
\* Resource therefore has to delete last.
RetainHolds ==
    [][\A b \in BindingsOf(ResourceReleaseBinding) :
         Exists(obj[b]) /\ Kept(b) =>
            /\ rr'[b].st = "deleting" => rr[b].st = "deleting"
            /\ Alive(obj[b]) => Alive(obj'[b]) \/ Delete(b)]_vars

\* A resource binding that is being deleted and is on hold before and after a
\* step keeps what it has on the plane.
RetainedStateStays ==
    [][\A b \in Bindings :
         /\ obj[b].st = "deleting" /\ RetainHold(b)
         /\ obj'[b].st = "deleting" /\ RetainHold(b)'
         /\ dp[b] = "there"
         => dp'[b] = "there"]_vars

\* Stranded: a resource's RenderedRelease has lost its environment. It, or a
\* retained binding whose finalizer nobody clears, holds the project.
Stranded(b) == KindOf[b] = ResourceReleaseBinding /\ Exists(rr[b]) /\ ~getDPClient(b)

ResourceHeld ==
    \E b \in BindingsOf(ResourceReleaseBinding) :
        Exists(obj[b]) /\ (RetainHold(b) \/ Stranded(b))

PipelineHeld == Alive(obj["Project"]) \/ ResourceHeld

EnvironmentHeld(e) ==
    findReferencingPipeline(e) /\ (Alive(obj["DeploymentPipeline"]) \/ PipelineHeld)

Held(o) ==
    CASE o \in {"Project", "Resource"} \cup BindingsOf(ResourceReleaseBinding) -> ResourceHeld
      [] o = "DeploymentPipeline" -> PipelineHeld
      [] o \in Envs -> EnvironmentHeld(o)
      [] o = "DataPlane" -> \E e \in Envs : Alive(obj[e]) \/ EnvironmentHeld(e)
      [] OTHER -> FALSE

\* Every deletion ends although the controllers wait for one another: in the
\* end nothing is left half deleted, except what something else that stays
\* still refers to, or what a retained or stranded resource holds.
DeletionEnds ==
    <>[](/\ \A o \in Objects : obj[o].st = "deleting" => Held(o)
         /\ \A b \in Bindings : rr[b].st = "deleting" => Stranded(b))

-----------------------------------------------------------------------------
(* Why the invariants hold: the strengthening that is inductive.            *)

\* What is gone, or about to go.
Leaving(x) == ~Exists(x) \/ x.job = "remove"

\* Only a deleted object is about to go, only a binding renders, and only what
\* the cascade leaves to the API server is without a finalizer.
WellFormed(o, x) ==
    /\ x \in Object
    /\ x.job = "remove" => x.st = "deleting"
    /\ x.job = "render" => o \in Bindings /\ x.st \in {"live", "deleting"}
    /\ o \in Leaves => x.st \in {"none", "bare", "gone"}
    /\ o \notin Leaves => x.st # "bare"

\* The objects that have to be gone before o goes.
WaitsFor(o) ==
    CASE o = "Project" ->
           {"Component", "Resource", "ProjectRelease"} \cup BindingsOf(ProjectReleaseBinding)
      [] o = "Component" -> {"ComponentRelease"} \cup BindingsOf(ReleaseBinding)
      [] o = "Resource" -> {"ResourceRelease"} \cup BindingsOf(ResourceReleaseBinding)
      [] o = "ProjectRelease" -> BindingsOf(ProjectReleaseBinding)
      [] o = "ResourceRelease" -> BindingsOf(ResourceReleaseBinding)
      [] o = "DeploymentPipeline" -> {"Project"}
      [] o = "DataPlane" -> Envs
      [] o \in Envs -> {b \in Bindings : EnvOf[b] = o /\ KindOf[b] # ResourceReleaseBinding}
      [] OTHER -> {}

\* A data plane that never was there did not wait for anything, and neither did
\* a release that people deleted.
InOrder ==
    \A o \in Objects \ byHand :
        Leaving(obj[o]) /\ (o = "DataPlane" => obj[o].st # "none") =>
            \A c \in WaitsFor(o) : ~Exists(obj[c])

Unreferenced ==
    \A e \in Envs :
        Leaving(obj[e]) => ~(Exists(obj["DeploymentPipeline"]) /\ e \in promoted)

\* A binding goes after its RenderedRelease, unless its finalizer is cleared by
\* hand.
ReleasesFirst ==
    \A b \in Bindings \ byHand : Leaving(obj[b]) => ~Exists(rr[b])

NoPlaneNoRelease ==
    obj["DataPlane"].st = "none" =>
        \A b \in Bindings : ~Exists(rr[b]) /\ obj[b].job # "render"

\* What is on the plane is in a cell namespace, which is there as long as its
\* RenderedRelease has it.
InCells ==
    /\ \A b \in Bindings : dp[b] # "none" => \E c \in Cell(EnvOf[b]) : dp[c] # "none"
    /\ \A b \in BindingsOf(ProjectReleaseBinding) :
         dp[b] # "none" => rr[b].st \in {"live", "deleting"}

CascadeInv ==
    /\ TypeOK
    /\ \A o \in Objects : WellFormed(o, obj[o])
    /\ InOrder
    /\ Unreferenced
    /\ ReleasesFirst
    /\ NoPlaneNoRelease
    /\ InCells

=============================================================================
