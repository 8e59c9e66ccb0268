--------------------------- MODULE CascadeProofs ---------------------------
(***************************************************************************)
(* Proofs about Cascade, for any environments, bindings and tenants.  What *)
(* a step does to the objects is one of few things (ObjectsKeep,           *)
(* LeavingKeeps and the lemmas after them); the finalizers are put         *)
(* together from these.                                                    *)
(***************************************************************************)
EXTENDS Cascade, TLAPS

(* The kinds and the objects are told apart. *)
LEMMA Distinct ==
  /\ Envs \cap Bindings = {}
  /\ \A o \in Envs \cup Bindings : o \notin Owners /\ o \notin Leaves
  /\ Owners \cap Leaves = {}
  /\ Objects = Owners \cup Leaves \cup Envs \cup Bindings
BY CascadeAssumption DEF Objects, Owners, Leaves

(* What is done to an object (UpdateStatusConditions, a requeue, the removal of
   the finalizer). *)
LEMMA ObjectFacts ==
  ASSUME NEW x \in Object
  PROVE  /\ \A f \in BOOLEAN : /\ UpdateStatusConditions(x, f) \in Object
                              /\ UpdateStatusConditions(x, f).st = x.st
                              /\ UpdateStatusConditions(x, f).job = x.job
         /\ RequeueAfter(x) \in Object /\ RequeueAfter(x).st = x.st /\ RequeueAfter(x).job = x.job
         /\ AllGone(x) \in Object /\ AllGone(x).st = x.st /\ AllGone(x).job = "remove"
BY DEF Object, UpdateStatusConditions, RequeueAfter, AllGone

(* A new object, or one that is gone, has no reconcile under way. *)
LEMMA FreshFacts ==
  ASSUME NEW st \in {"none", "bare", "live", "deleting", "gone"}
  PROVE  Fresh(st) \in Object /\ Fresh(st).st = st /\ Fresh(st).job = "idle"
BY DEF Object, Fresh

(* A delete call removes an object without finalizer and marks one that has it
   (r.Delete). *)
LEMMA DeletedFacts ==
  ASSUME NEW x \in Object
  PROVE  /\ Deleted(x) \in Object
         /\ x.st = "bare" => Deleted(x).st = "gone" /\ Deleted(x).job = "idle"
         /\ x.st = "live" => Deleted(x).st = "deleting" /\ Deleted(x).job = x.job
         /\ x.st \notin {"bare", "live"} => Deleted(x) = x
<1>1. CASE x.st = "bare"
  BY <1>1, FreshFacts DEF Deleted
<1>2. CASE x.st = "live"
  BY <1>2 DEF Deleted, Object
<1>3. CASE x.st \notin {"bare", "live"}
  BY <1>3 DEF Deleted
<1>4. QED
  BY <1>1, <1>2, <1>3

(* What people may do besides deleting objects: a pipeline promotes to fewer
   environments, a policy is edited, a hold is cleared. *)
PeopleKeep ==
  /\ deletes' = deletes
  /\ promoted' \subseteq promoted
  /\ policy' \in [Bindings -> Policies]
  /\ byHand \subseteq byHand'
  /\ byHand' \subseteq Leaves \cup BindingsOf(ResourceReleaseBinding)

(* Controllers leave what people decide alone. *)
LEMMA PeopleRest ==
  ASSUME CascadeInv, UNCHANGED people
  PROVE  PeopleKeep
BY DEF CascadeInv, TypeOK, people, PeopleKeep

(* Deleting objects, recording conditions, requeueing and losing a reconcile keep
   the order, as long as only people delete a release to which something is bound.
   That is all the finalizers do until they have nothing left to wait for. *)
LEMMA ObjectsKeep ==
  ASSUME CascadeInv,
         NEW D \in SUBSET Objects,
         obj' \in [Objects -> Object],
         \A c \in D : obj'[c] = Deleted(obj[c]),
         \A c \in Objects \ D : /\ obj'[c].st = obj[c].st
                                /\ obj'[c].job = obj[c].job \/ obj'[c].job = "idle",
         \A c \in D \cap Leaves : c \in byHand' \/ \A x \in WaitsFor(c) : ~Exists(obj[x]),
         rr' = rr,
         dp' \in [Bindings -> {"none", "there", "terminating"}],
         \A b \in Bindings : (dp'[b] = "none") = (dp[b] = "none"),
         PeopleKeep,
         faults' \in 0 .. MaxFaults
  PROVE  CascadeInv'
<1>1. \A o \in Objects : obj[o] \in Object /\ obj'[o] \in Object /\ WellFormed(o, obj[o])
  BY DEF CascadeInv, TypeOK
<1>2. \A o \in Objects :
        /\ Exists(obj'[o]) => Exists(obj[o])
        /\ (obj'[o].st = "none") = (obj[o].st = "none")
        /\ obj'[o].job = "render" => obj[o].job = "render"
        /\ o \notin Leaves /\ Leaving(obj'[o]) => Leaving(obj[o])
        /\ Leaving(obj'[o]) => Leaving(obj[o]) \/ o \in D
        /\ WellFormed(o, obj'[o])
  <2> TAKE o \in Objects
  <2>1. CASE o \in D
    BY <1>1, <2>1, DeletedFacts DEF Exists, Leaving, WellFormed
  <2>2. CASE o \notin D
    BY <1>1, <2>2 DEF Exists, Leaving, WellFormed
  <2>3. QED
    BY <2>1, <2>2
<1>3. TypeOK'
  BY DEF CascadeInv, TypeOK, PeopleKeep, BindingsOf
<1>4. InOrder'
  <2> SUFFICES ASSUME NEW o \in Objects \ byHand', Leaving(obj'[o]),
                      o = "DataPlane" => obj'[o].st # "none",
                      NEW c \in WaitsFor(o)
               PROVE  ~Exists(obj'[c])
    BY DEF InOrder
  <2>1. o \notin byHand
    BY DEF PeopleKeep
  <2>2. ~Exists(obj[c])
    BY <1>2, <2>1 DEF CascadeInv, InOrder
  <2>3. c \in Objects
    BY Distinct DEF WaitsFor, BindingsOf, Owners, Leaves
  <2>4. QED
    BY <1>2, <2>2, <2>3
<1>5. Unreferenced'
  <2>1. "DeploymentPipeline" \in Objects /\ Envs \subseteq Objects /\ Envs \cap Leaves = {}
    BY Distinct DEF Owners
  <2>2. QED
    BY <1>2, <2>1 DEF CascadeInv, Unreferenced, PeopleKeep
<1>6. Bindings \subseteq Objects /\ Bindings \cap Leaves = {} /\ "DataPlane" \in Objects
  BY Distinct DEF Owners
<1>7. ReleasesFirst'
  BY <1>2, <1>6 DEF CascadeInv, ReleasesFirst, PeopleKeep
<1>8. NoPlaneNoRelease'
  BY <1>2, <1>6 DEF CascadeInv, NoPlaneNoRelease
<1>10. InCells'
  BY DEF CascadeInv, InCells, Cell, BindingsOf
<1>11. QED
  BY <1>2, <1>3, <1>4, <1>5, <1>7, <1>8, <1>10 DEF CascadeInv

(* An object starts to go when all it waits for is gone, and an environment when
   in addition no pipeline refers to it (the last pass of each finalizer). *)
LEMMA LeavingKeeps ==
  ASSUME CascadeInv,
         NEW o \in Objects, obj[o].st = "deleting",
         Becomes(o, AllGone(obj[o])),
         \A c \in WaitsFor(o) : ~Exists(obj[c]),
         o \in Envs => ~(Exists(obj["DeploymentPipeline"]) /\ o \in promoted),
         o \in Bindings => ~Exists(rr[o])
  PROVE  CascadeInv'
<1>1. /\ obj' \in [Objects -> Object]
      /\ obj'[o].st = "deleting" /\ obj'[o].job = "remove"
      /\ \A c \in Objects : c # o => obj'[c] = obj[c]
      /\ UNCHANGED <<rr, dp, people, faults>>
  BY ObjectFacts DEF Becomes, CascadeInv, TypeOK
<1>2. \A c \in Objects :
        /\ Exists(obj'[c]) = Exists(obj[c])
        /\ (obj'[c].st = "none") = (obj[c].st = "none")
        /\ obj'[c].job = "render" => obj[c].job = "render"
        /\ c # o /\ Leaving(obj'[c]) => Leaving(obj[c])
        /\ WellFormed(c, obj'[c])
  <2> TAKE c \in Objects
  <2>1. CASE c = o
    BY <1>1, <2>1 DEF Exists, WellFormed, CascadeInv, Object
  <2>2. CASE c # o
    BY <1>1, <2>2 DEF CascadeInv
  <2>3. QED
    BY <2>1, <2>2
<1>3. TypeOK'
  BY <1>1 DEF CascadeInv, TypeOK, people, BindingsOf
<1>4. InOrder'
  <2> SUFFICES ASSUME NEW p \in Objects \ byHand, Leaving(obj'[p]),
                      p = "DataPlane" => obj'[p].st # "none",
                      NEW c \in WaitsFor(p)
               PROVE  ~Exists(obj'[c])
    BY <1>1 DEF InOrder, people
  <2>1. ~Exists(obj[c])
    BY <1>2 DEF CascadeInv, InOrder
  <2>2. c \in Objects
    BY Distinct DEF WaitsFor, BindingsOf, Owners, Leaves
  <2>3. QED
    BY <1>2, <2>1, <2>2
<1>5. /\ "DeploymentPipeline" \in Objects /\ Envs \subseteq Objects
      /\ Bindings \subseteq Objects /\ "DataPlane" \in Objects
  BY Distinct DEF Owners
<1>6. Unreferenced'
  BY <1>1, <1>2, <1>5 DEF CascadeInv, Unreferenced, people
<1>7. ReleasesFirst'
  BY <1>1, <1>2, <1>5 DEF CascadeInv, ReleasesFirst, people
<1>8. NoPlaneNoRelease'
  BY <1>1, <1>2, <1>5 DEF CascadeInv, NoPlaneNoRelease
<1>10. InCells'
  BY <1>1 DEF CascadeInv, InCells, Cell, BindingsOf
<1>11. QED
  BY <1>2, <1>3, <1>4, <1>6, <1>7, <1>8, <1>10 DEF CascadeInv

(* What is about to go goes, and a binding that is on hold goes when people clear
   its finalizer (removeFinalizer, and a hold that is cleared by hand). *)
LEMMA GoneKeeps ==
  ASSUME CascadeInv, NEW o \in Objects,
         removeFinalizer(o) \/ (o \in Bindings /\ ClearHold(o))
  PROVE  CascadeInv'
<1>1. /\ obj[o].st = "deleting"
      /\ obj[o].job = "remove" \/ o \in byHand'
      /\ obj' = [obj EXCEPT ![o] = Fresh("gone")]
      /\ UNCHANGED <<rr, dp, faults>>
      /\ PeopleKeep
  <2>1. CASE removeFinalizer(o)
    BY <2>1, PeopleRest DEF removeFinalizer, Becomes, CascadeInv, WellFormed
  <2>2. CASE o \in Bindings /\ ClearHold(o)
    BY <2>2 DEF ClearHold, RetainHold, PeopleKeep, CascadeInv, TypeOK, BindingsOf
  <2>3. QED
    BY <2>1, <2>2
<1>2. /\ obj' \in [Objects -> Object]
      /\ obj'[o].st = "gone" /\ obj'[o].job = "idle"
      /\ \A c \in Objects : c # o => obj'[c] = obj[c]
      /\ UNCHANGED <<rr, dp, faults>>
  BY <1>1, FreshFacts DEF CascadeInv, TypeOK
<1>3. /\ "DeploymentPipeline" \in Objects /\ Envs \subseteq Objects
      /\ Bindings \subseteq Objects /\ "DataPlane" \in Objects
      /\ o \in Leaves \/ o \notin byHand' \/ o \in Bindings
      /\ \A b \in Bindings : WaitsFor(b) = {} /\ b \notin Envs /\ b \notin Leaves
  BY <1>1, Distinct, CascadeAssumption DEF Owners, WaitsFor, Leaves, PeopleKeep, BindingsOf
<1>4. o \notin Leaves
  BY <1>1 DEF CascadeInv, WellFormed
<1>5. \A c \in Objects :
        /\ Exists(obj'[c]) => Exists(obj[c])
        /\ (obj'[c].st = "none") = (obj[c].st = "none")
        /\ obj'[c].job = "render" => obj[c].job = "render"
        /\ Leaving(obj'[c]) => Leaving(obj[c]) \/ (c = o /\ o \in byHand')
        /\ WellFormed(c, obj'[c])
  <2> TAKE c \in Objects
  <2>1. CASE c = o
    BY <1>1, <1>2, <1>4, <2>1 DEF Exists, WellFormed, Leaving
  <2>2. CASE c # o
    BY <1>2, <2>2 DEF CascadeInv
  <2>3. QED
    BY <2>1, <2>2
<1>6. TypeOK'
  BY <1>1, <1>2 DEF CascadeInv, TypeOK, PeopleKeep, BindingsOf
<1>7. InOrder'
  <2> SUFFICES ASSUME NEW p \in Objects \ byHand', Leaving(obj'[p]),
                      p = "DataPlane" => obj'[p].st # "none",
                      NEW c \in WaitsFor(p)
               PROVE  ~Exists(obj'[c])
    BY DEF InOrder
  <2>1. Leaving(obj[p]) /\ p \notin byHand
    BY <1>1, <1>5 DEF PeopleKeep
  <2>2. ~Exists(obj[c])
    BY <1>5, <2>1 DEF CascadeInv, InOrder
  <2>3. c \in Objects
    BY Distinct DEF WaitsFor, BindingsOf, Owners, Leaves
  <2>4. QED
    BY <1>5, <2>2, <2>3
<1>8. Unreferenced'
  BY <1>1, <1>2, <1>3, <1>4, <1>5 DEF CascadeInv, Unreferenced, PeopleKeep
<1>9. ReleasesFirst'
  BY <1>1, <1>2, <1>3, <1>5 DEF CascadeInv, ReleasesFirst, PeopleKeep
<1>10. NoPlaneNoRelease'
  BY <1>2, <1>3, <1>5 DEF CascadeInv, NoPlaneNoRelease
<1>12. InCells'
  BY <1>2 DEF CascadeInv, InCells, Cell, BindingsOf
<1>13. QED
  BY <1>5, <1>6, <1>7, <1>8, <1>9, <1>10, <1>12 DEF CascadeInv

(* Deleting what is to be deleted, in whole or in part (deleteComponentsAndWait and
   its like). *)
LEMMA CascadesKeeps ==
  ASSUME CascadeInv, NEW o \in Objects, NEW S \in SUBSET Objects, o \notin S,
         NEW after \in Object, after.st = obj[o].st, after.job = obj[o].job,
         \A c \in S \cap Leaves : \A x \in WaitsFor(c) : ~Exists(obj[x]),
         Cascades(o, S, after)
  PROVE  CascadeInv'
<1>1. PICK done \in SUBSET {c \in S : Alive(obj[c])} :
        LET failed == \E c \in S : Alive(obj[c]) /\ c \notin done
        IN  /\ failed => faults < MaxFaults
            /\ obj' = [c \in Objects |->
                         CASE c = o -> IF failed THEN RequeueAfter(obj[o]) ELSE after
                           [] c \in done -> Deleted(obj[c])
                           [] OTHER -> obj[c]]
            /\ faults' = IF failed THEN faults + 1 ELSE faults
            /\ UNCHANGED <<rr, dp, people>>
  BY Zenon DEF Cascades
<1>2. PICK failed \in BOOLEAN :
        /\ failed => faults < MaxFaults
        /\ obj' = [c \in Objects |->
                     CASE c = o -> IF failed THEN RequeueAfter(obj[o]) ELSE after
                       [] c \in done -> Deleted(obj[c])
                       [] OTHER -> obj[c]]
        /\ faults' = IF failed THEN faults + 1 ELSE faults
        /\ UNCHANGED <<rr, dp, people>>
  BY <1>1
<1>3. done \in SUBSET Objects /\ o \notin done /\ done \cap Leaves \subseteq S \cap Leaves
  BY <1>1
<1>4. /\ \A c \in done : obj'[c] = Deleted(obj[c])
      /\ obj'[o] = IF failed THEN RequeueAfter(obj[o]) ELSE after
      /\ \A c \in Objects \ done : c # o => obj'[c] = obj[c]
  BY <1>2, <1>3
<1>5. \A c \in Objects : obj[c] \in Object
  BY DEF CascadeInv, TypeOK
<1>6. obj'[o] \in Object /\ obj'[o].st = obj[o].st /\ obj'[o].job = obj[o].job
  BY <1>4, <1>5, ObjectFacts
<1>7. obj' \in [Objects -> Object]
  <2>1. \A c \in Objects : obj'[c] \in Object
    BY <1>3, <1>4, <1>5, <1>6, DeletedFacts
  <2>2. QED
    BY <1>2, <2>1
<1>8. faults' \in 0 .. MaxFaults /\ dp \in [Bindings -> {"none", "there", "terminating"}]
  BY <1>2, CascadeAssumption DEF CascadeInv, TypeOK
<1>9. PeopleKeep
  BY <1>2, PeopleRest
<1>10. QED
  BY <1>2, <1>3, <1>4, <1>6, <1>7, <1>8, <1>9, ObjectsKeep

(* A condition that is recorded and a requeue change nothing that matters
   (MarkFinalizing and the waiting passes). *)
LEMMA RecordKeeps ==
  ASSUME CascadeInv, NEW o \in Objects, NEW x \in Object,
         x.st = obj[o].st, x.job = obj[o].job,
         Becomes(o, x)
  PROVE  CascadeInv'
<1>1. /\ obj' \in [Objects -> Object]
      /\ \A c \in Objects : obj'[c].st = obj[c].st /\ obj'[c].job = obj[c].job
      /\ UNCHANGED <<rr, dp, people, faults>>
  BY DEF Becomes, CascadeInv, TypeOK
<1>2. faults' \in 0 .. MaxFaults /\ dp' \in [Bindings -> {"none", "there", "terminating"}]
  BY <1>1 DEF CascadeInv, TypeOK
<1>3. {} \in SUBSET Objects /\ Objects \ {} = Objects /\ {} \cap Leaves = {}
  OBVIOUS
<1>4. QED
  BY <1>1, <1>2, <1>3, PeopleRest, ObjectsKeep

(* The first pass of every finalizer. *)
LEMMA MarkKeeps ==
  ASSUME CascadeInv, NEW o \in Objects, MarkFinalizing(o)
  PROVE  CascadeInv'
<1>1. obj[o] \in Object
  BY DEF CascadeInv, TypeOK
<1>2. QED
  BY <1>1, ObjectFacts, RecordKeeps DEF MarkFinalizing

(* A finalizer that finds namespaces deletes them and comes back
   (deleteExternalResourcesAndWait, deleteNamespaces). *)
LEMMA NamespacesKeep ==
  ASSUME CascadeInv, NEW o \in Objects,
         obj' = [obj EXCEPT ![o] = RequeueAfter(@)],
         dp' \in [Bindings -> {"none", "there", "terminating"}],
         \A b \in Bindings : (dp'[b] = "none") = (dp[b] = "none"),
         UNCHANGED <<rr, people, faults>>
  PROVE  CascadeInv'
<1>1. /\ obj' \in [Objects -> Object]
      /\ \A c \in Objects : obj'[c].st = obj[c].st /\ obj'[c].job = obj[c].job
  <2>1. obj[o] \in Object /\ obj \in [Objects -> Object]
    BY DEF CascadeInv, TypeOK
  <2>2. QED
    BY <2>1, ObjectFacts
<1>2. faults' \in 0 .. MaxFaults
  BY DEF CascadeInv, TypeOK
<1>3. {} \in SUBSET Objects /\ Objects \ {} = Objects /\ {} \cap Leaves = {}
  OBVIOUS
<1>4. QED
  BY <1>1, <1>2, <1>3, PeopleRest, ObjectsKeep

(* A RenderedRelease is deleted, goes, gets its finalizer, or is created by the
   reconcile of a binding that is not about to go. *)
LEMMA ReleaseKeeps ==
  ASSUME CascadeInv, NEW b \in Bindings,
         obj' \in [Objects -> Object],
         \A c \in Objects : /\ obj'[c].st = obj[c].st
                            /\ obj'[c].job = obj[c].job \/ obj'[c].job = "idle",
         rr' \in [Bindings -> Object],
         \A c \in Bindings : c # b => rr'[c] = rr[c],
         Exists(rr'[b]) => Exists(rr[b]) \/ obj[b].job = "render",
         KindOf[b] = ProjectReleaseBinding /\ dp[b] # "none" => rr'[b].st \in {"live", "deleting"},
         UNCHANGED <<dp, people, faults>>
  PROVE  CascadeInv'
<1>1. \A o \in Objects :
        /\ Exists(obj'[o]) = Exists(obj[o])
        /\ Leaving(obj'[o]) => Leaving(obj[o])
        /\ WellFormed(o, obj'[o])
  BY DEF CascadeInv, WellFormed, Exists, Leaving
<1>2. /\ "DeploymentPipeline" \in Objects /\ Envs \subseteq Objects
      /\ Bindings \subseteq Objects /\ "DataPlane" \in Objects
  BY Distinct DEF Owners
<1>3. TypeOK'
  BY DEF CascadeInv, TypeOK, people, BindingsOf
<1>4. InOrder'
  <2> SUFFICES ASSUME NEW o \in Objects \ byHand, Leaving(obj'[o]),
                      o = "DataPlane" => obj'[o].st # "none",
                      NEW c \in WaitsFor(o)
               PROVE  ~Exists(obj'[c])
    BY DEF InOrder, people
  <2>1. ~Exists(obj[c])
    BY <1>1 DEF CascadeInv, InOrder
  <2>2. c \in Objects
    BY Distinct DEF WaitsFor, BindingsOf, Owners, Leaves
  <2>3. QED
    BY <1>1, <2>1, <2>2
<1>5. Unreferenced'
  BY <1>1, <1>2 DEF CascadeInv, Unreferenced, people
<1>6. ReleasesFirst'
  <2> SUFFICES ASSUME NEW c \in Bindings \ byHand, Leaving(obj'[c])
               PROVE  ~Exists(rr'[c])
    BY DEF ReleasesFirst, people
  <2>1. Leaving(obj[c]) /\ ~Exists(rr[c])
    BY <1>1, <1>2 DEF CascadeInv, ReleasesFirst
  <2>2. obj[c].job # "render"
    BY <1>2, <2>1 DEF Leaving, CascadeInv, WellFormed, Exists
  <2>3. QED
    BY <2>1, <2>2
<1>7. NoPlaneNoRelease'
  BY <1>2 DEF CascadeInv, NoPlaneNoRelease
<1>9. InCells'
  BY DEF CascadeInv, InCells, Cell, BindingsOf
<1>10. QED
  BY <1>1, <1>3, <1>4, <1>5, <1>6, <1>7, <1>9 DEF CascadeInv

(* What happens on the plane only matters for what is in which namespace. *)
LEMMA PlaneKeeps ==
  ASSUME CascadeInv,
         dp' \in [Bindings -> {"none", "there", "terminating"}],
         InCells',
         UNCHANGED <<obj, rr, people, faults>>
  PROVE  CascadeInv'
<1>1. TypeOK'
  BY DEF CascadeInv, TypeOK, people, BindingsOf
<1>2. InOrder' /\ Unreferenced' /\ ReleasesFirst' /\ NoPlaneNoRelease'
  BY DEF CascadeInv, InOrder, Unreferenced, ReleasesFirst, NoPlaneNoRelease, people
<1>3. QED
  BY <1>1, <1>2 DEF CascadeInv

(* What each object waits for, by name. *)
LEMMA WaitsForFacts ==
  /\ WaitsFor("Project") =
       {"Component", "Resource", "ProjectRelease"} \cup BindingsOf(ProjectReleaseBinding)
  /\ WaitsFor("Component") = {"ComponentRelease"} \cup BindingsOf(ReleaseBinding)
  /\ WaitsFor("Resource") = {"ResourceRelease"} \cup BindingsOf(ResourceReleaseBinding)
  /\ WaitsFor("ComponentRelease") = {}
  /\ WaitsFor("ProjectRelease") = BindingsOf(ProjectReleaseBinding)
  /\ WaitsFor("ResourceRelease") = BindingsOf(ResourceReleaseBinding)
  /\ WaitsFor("DeploymentPipeline") = {"Project"}
  /\ WaitsFor("DataPlane") = Envs
  /\ \A e \in Envs : WaitsFor(e) = {b \in Bindings : EnvOf[b] = e /\ KindOf[b] # ResourceReleaseBinding}
  /\ \A b \in Bindings : WaitsFor(b) = {}
<1>1. \A o \in Envs \cup Bindings : o \notin Owners /\ o \notin Leaves
  BY Distinct
<1>2. \A b \in Bindings : b \notin Envs
  BY Distinct
<1>3. QED
  BY <1>1, <1>2 DEF WaitsFor, Owners, Leaves

(* The objects that are named, and that bindings are neither owners nor leaves. *)
LEMMA NamedObjects ==
  /\ {"Project", "DeploymentPipeline", "Component", "Resource", "DataPlane"} \subseteq Objects
  /\ {"ComponentRelease", "ProjectRelease", "ResourceRelease"} \subseteq Objects
  /\ Envs \subseteq Objects /\ Bindings \subseteq Objects
  /\ \A k \in Kinds : BindingsOf(k) \subseteq Bindings
  /\ \A o \in Owners : o \notin Leaves /\ o \notin Envs /\ o \notin Bindings
  /\ \A b \in Bindings : b \notin Leaves /\ b \notin Owners /\ b \notin Envs
  /\ \A e \in Envs : e \notin Leaves /\ e \notin Owners /\ e \notin Bindings
BY Distinct DEF Owners, Leaves, BindingsOf

(* The component controller's finalizer keeps the order. *)
LEMMA componentFinalizeKeeps ==
  ASSUME CascadeInv, componentFinalize
  PROVE  CascadeInv'
<1> DEFINE owned == Present({"ComponentRelease"} \cup BindingsOf(ReleaseBinding))
<1>1. "Component" \in Objects /\ obj["Component"] \in Object /\ "Component" \notin owned
      /\ owned \in SUBSET Objects /\ owned \cap Leaves \subseteq {"ComponentRelease"}
  BY NamedObjects DEF CascadeInv, TypeOK, Present, Owners, Kinds
<1>2. CASE MarkFinalizing("Component")
  BY <1>1, <1>2, MarkKeeps
<1>3. CASE Cascades("Component", owned, RequeueAfter(obj["Component"]))
  <2>1. \A c \in owned \cap Leaves : \A x \in WaitsFor(c) : ~Exists(obj[x])
    BY <1>1, WaitsForFacts
  <2>2. QED
    BY <1>1, <1>3, <2>1, ObjectFacts, CascadesKeeps
<1>4. CASE owned = {} /\ Becomes("Component", AllGone(obj["Component"]))
  <2>1. obj["Component"].st = "deleting"
    BY DEF componentFinalize, Finalizes
  <2>2. \A c \in WaitsFor("Component") : ~Exists(obj[c])
    BY <1>4, WaitsForFacts DEF Present
  <2>3. "Component" \notin Envs /\ "Component" \notin Bindings
    BY NamedObjects DEF Owners
  <2>4. QED
    BY <1>1, <1>4, <2>1, <2>2, <2>3, LeavingKeeps
<1>5. QED
  BY <1>2, <1>3, <1>4 DEF componentFinalize

(* The resource controller's finalizer deletes its releases only when no binding
   is left, and so keeps the order. *)
LEMMA resourceFinalizeKeeps ==
  ASSUME CascadeInv, resourceFinalize
  PROVE  CascadeInv'
<1> DEFINE bound == Present(BindingsOf(ResourceReleaseBinding))
           doomed == {b \in bound : effectiveRetainPolicy(b) = "Delete"}
<1>1. "Resource" \in Objects /\ obj["Resource"] \in Object
      /\ "Resource" \notin doomed /\ "Resource" \notin {"ResourceRelease"}
      /\ doomed \in SUBSET Objects /\ doomed \cap Leaves = {}
      /\ {"ResourceRelease"} \in SUBSET Objects
  BY NamedObjects DEF CascadeInv, TypeOK, Present, Owners, Kinds
<1>2. CASE MarkFinalizing("Resource")
  BY <1>1, <1>2, MarkKeeps
<1>3. CASE Cascades("Resource", doomed, RequeueAfter(obj["Resource"]))
  BY <1>1, <1>3, ObjectFacts, CascadesKeeps
<1>4. CASE bound = {} /\ Cascades("Resource", {"ResourceRelease"}, RequeueAfter(obj["Resource"]))
  <2>1. \A c \in {"ResourceRelease"} \cap Leaves : \A x \in WaitsFor(c) : ~Exists(obj[x])
    BY <1>4, WaitsForFacts DEF Present
  <2>2. QED
    BY <1>1, <1>4, <2>1, ObjectFacts, CascadesKeeps
<1>5. CASE /\ bound = {} /\ ~Exists(obj["ResourceRelease"])
           /\ Becomes("Resource", AllGone(obj["Resource"]))
  <2>1. obj["Resource"].st = "deleting"
    BY DEF resourceFinalize, Finalizes
  <2>2. \A c \in WaitsFor("Resource") : ~Exists(obj[c])
    BY <1>5, WaitsForFacts DEF Present
  <2>3. "Resource" \notin Envs /\ "Resource" \notin Bindings
    BY NamedObjects DEF Owners
  <2>4. QED
    BY <1>1, <1>5, <2>1, <2>2, <2>3, LeavingKeeps
<1>6. QED
  BY <1>2, <1>3, <1>4, <1>5 DEF resourceFinalize

(* The project controller's finalizer keeps the order: it deletes its releases
   when no binding is left, and goes when neither objects nor namespaces are. *)
LEMMA projectFinalizeKeeps ==
  ASSUME CascadeInv, projectFinalize
  PROVE  CascadeInv'
<1> DEFINE bound == Present(BindingsOf(ProjectReleaseBinding))
           owned == Present({"Component", "Resource"}) \cup bound
           children == IF bound = {} THEN owned \cup Present({"ProjectRelease"}) ELSE owned
<1>1. "Project" \in Objects /\ obj["Project"] \in Object /\ "Project" \notin children
      /\ children \in SUBSET Objects
  BY NamedObjects DEF CascadeInv, TypeOK, Present, Owners, Kinds
<1>2. CASE MarkFinalizing("Project")
  BY <1>1, <1>2, MarkKeeps
<1>3. CASE Cascades("Project", children, RequeueAfter(obj["Project"]))
  <2>1. \A c \in children \cap Leaves : c = "ProjectRelease" /\ bound = {}
    BY NamedObjects DEF Present, Owners, Kinds
  <2>2. \A c \in children \cap Leaves : \A x \in WaitsFor(c) : ~Exists(obj[x])
    BY <2>1, WaitsForFacts DEF Present
  <2>3. QED
    BY <1>1, <1>3, <2>2, ObjectFacts, CascadesKeeps
<1>4. CASE children = {} /\ Becomes("Project", AllGone(obj["Project"]))
  <2>1. obj["Project"].st = "deleting"
    BY DEF projectFinalize, Finalizes
  <2>2. \A c \in WaitsFor("Project") : ~Exists(obj[c])
    BY <1>4, WaitsForFacts DEF Present
  <2>3. "Project" \notin Envs /\ "Project" \notin Bindings
    BY NamedObjects DEF Owners
  <2>4. QED
    BY <1>1, <1>4, <2>1, <2>2, <2>3, LeavingKeeps
<1>5. CASE /\ \E b \in ProjectNamespaces : dp' = [dp EXCEPT ![b] = "terminating"]
           /\ obj' = [obj EXCEPT !["Project"] = RequeueAfter(@)]
           /\ UNCHANGED <<rr, people, faults>>
  <2>1. PICK b \in Bindings : dp[b] # "none" /\ dp' = [dp EXCEPT ![b] = "terminating"]
    BY <1>5 DEF ProjectNamespaces, Cell, BindingsOf
  <2>2. /\ dp' \in [Bindings -> {"none", "there", "terminating"}]
        /\ \A c \in Bindings : (dp'[c] = "none") = (dp[c] = "none")
    BY <2>1 DEF CascadeInv, TypeOK
  <2>3. QED
    BY <1>1, <1>5, <2>2, NamespacesKeep
<1>6. QED
  BY <1>2, <1>3, <1>4, <1>5 DEF projectFinalize, deleteExternalResourcesAndWait

(* The pipeline's and the data plane's finalizers go when no project, and no
   environment, is left. *)
LEMMA blockedFinalizersKeep ==
  ASSUME CascadeInv, pipelineFinalize \/ dataPlaneFinalize
  PROVE  CascadeInv'
<1>1. /\ "DeploymentPipeline" \in Objects /\ "DataPlane" \in Objects
      /\ "DeploymentPipeline" \notin Envs \cup Bindings /\ "DataPlane" \notin Envs \cup Bindings
      /\ obj["DeploymentPipeline"] \in Object /\ obj["DataPlane"] \in Object
  BY NamedObjects DEF CascadeInv, TypeOK, Owners
<1>2. CASE Becomes("DeploymentPipeline", RequeueAfter(obj["DeploymentPipeline"]))
  BY <1>1, <1>2, ObjectFacts, RecordKeeps
<1>3. CASE /\ Finalizes("DeploymentPipeline") /\ ~Exists(obj["Project"])
           /\ Becomes("DeploymentPipeline", AllGone(obj["DeploymentPipeline"]))
  <2>1. \A c \in WaitsFor("DeploymentPipeline") : ~Exists(obj[c])
    BY <1>3, WaitsForFacts
  <2>2. QED
    BY <1>1, <1>3, <2>1, LeavingKeeps DEF Finalizes
<1>4. CASE Becomes("DataPlane", UpdateStatusConditions(obj["DataPlane"], FALSE))
  BY <1>1, <1>4, ObjectFacts, RecordKeeps
<1>5. CASE MarkFinalizing("DataPlane")
  BY <1>1, <1>5, MarkKeeps
<1>6. CASE /\ Finalizes("DataPlane") /\ Present(Envs) = {}
           /\ Becomes("DataPlane", AllGone(obj["DataPlane"]))
  <2>1. \A c \in WaitsFor("DataPlane") : ~Exists(obj[c])
    BY <1>6, WaitsForFacts DEF Present
  <2>2. QED
    BY <1>1, <1>6, <2>1, LeavingKeeps DEF Finalizes
<1>7. QED
  BY <1>2, <1>3, <1>4, <1>5, <1>6 DEF pipelineFinalize, dataPlaneFinalize

(* The environment controller's finalizer goes when no pipeline names the
   environment and the bindings it counts, and its namespaces, are gone. *)
LEMMA environmentFinalizeKeeps ==
  ASSUME CascadeInv, NEW e \in Envs, environmentFinalize(e)
  PROVE  CascadeInv'
<1> DEFINE pending == Present(Counted(e))
           cells == {b \in Cell(e) : dp[b] # "none"}
<1>1. e \in Objects /\ obj[e] \in Object /\ e \notin Bindings /\ e \notin pending
      /\ pending \in SUBSET Objects /\ pending \cap Leaves = {}
  BY NamedObjects DEF CascadeInv, TypeOK, Present, Counted, BindingsOf
<1>2. CASE Becomes(e, UpdateStatusConditions(obj[e], FALSE))
  BY <1>1, <1>2, ObjectFacts, RecordKeeps
<1>3. CASE MarkFinalizing(e)
  BY <1>1, <1>3, MarkKeeps
<1>4. CASE Cascades(e, pending, UpdateStatusConditions(obj[e], FALSE))
  BY <1>1, <1>4, ObjectFacts, CascadesKeeps
<1>5. CASE ~findReferencingPipeline(e) /\ pending = {} /\ deleteNamespaces(e)
  <2>1. CASE Becomes(e, AllGone(obj[e]))
    <3>1. obj[e].st = "deleting"
      BY DEF environmentFinalize, Finalizes
    <3>2. \A c \in WaitsFor(e) : c \in Counted(e)
      BY WaitsForFacts, CascadeAssumption DEF Counted, BindingsOf, Kinds
    <3>3. \A c \in WaitsFor(e) : ~Exists(obj[c])
      BY <1>5, <3>2 DEF Present
    <3>4. QED
      BY <1>1, <1>5, <2>1, <3>1, <3>3, LeavingKeeps DEF findReferencingPipeline
  <2>2. CASE /\ dp' = [b \in Bindings |-> IF b \in cells THEN "terminating" ELSE dp[b]]
             /\ obj' = [obj EXCEPT ![e] = RequeueAfter(@)]
             /\ UNCHANGED <<rr, people, faults>>
    <3>1. /\ dp' \in [Bindings -> {"none", "there", "terminating"}]
          /\ \A c \in Bindings : (dp'[c] = "none") = (dp[c] = "none")
      BY <2>2 DEF CascadeInv, TypeOK
    <3>2. QED
      BY <1>1, <2>2, <3>1, NamespacesKeep
  <2>3. QED
    BY <1>5, <2>1, <2>2 DEF deleteNamespaces
<1>6. QED
  BY <1>2, <1>3, <1>4, <1>5 DEF environmentFinalize

(* The policy of a resource that is to be kept is read as Retain: the snapshot it
   may be read from outlives the binding unless people delete it
   (effectiveRetainPolicy). *)
LEMMA KeptIsRetained ==
  ASSUME CascadeInv, NEW b \in BindingsOf(ResourceReleaseBinding), Exists(obj[b]), Kept(b)
  PROVE  effectiveRetainPolicy(b) = "Retain" /\ RetainHold(b)
<1>1. b \in Bindings /\ KindOf[b] = ResourceReleaseBinding
  BY DEF BindingsOf
<1>2. Pinned(b) = "ResourceRelease"
  BY <1>1 DEF Pinned, ReleaseBinding, ProjectReleaseBinding, ResourceReleaseBinding
<1>3. b \in WaitsFor("ResourceRelease") /\ "ResourceRelease" \in Objects
  BY WaitsForFacts, NamedObjects
<1>4. Pinned(b) \notin byHand => Exists(obj["ResourceRelease"])
  BY <1>2, <1>3 DEF CascadeInv, InOrder, Leaving
<1>5. effectiveRetainPolicy(b) = "Retain"
  BY <1>2, <1>4 DEF effectiveRetainPolicy, Kept
<1>6. QED
  BY <1>1, <1>5 DEF RetainHold

(* A binding goes after its RenderedRelease (hasOwnedReleases). *)
LEMMA bindingFinalizeKeeps ==
  ASSUME CascadeInv, NEW b \in Bindings, bindingFinalize(b)
  PROVE  CascadeInv'
<1>1. b \in Objects /\ b \notin Envs /\ obj[b] \in Object /\ rr[b] \in Object
      /\ obj \in [Objects -> Object] /\ rr \in [Bindings -> Object]
  BY NamedObjects DEF CascadeInv, TypeOK
<1>2. obj[b].st = "deleting"
  BY DEF bindingFinalize, Finalizes
<1>3. CASE MarkFinalizing(b)
  BY <1>1, <1>3, MarkKeeps
<1>4. CASE Becomes(b, UpdateStatusConditions(obj[b], FALSE))
  BY <1>1, <1>4, ObjectFacts, RecordKeeps
<1>5. CASE ~Exists(rr[b]) /\ Becomes(b, AllGone(obj[b]))
  BY <1>1, <1>2, <1>5, WaitsForFacts, LeavingKeeps
<1>6. CASE /\ Exists(rr[b])
           /\ rr' = [rr EXCEPT ![b] = Deleted(@)]
           /\ obj' = [obj EXCEPT ![b] = RequeueAfter(@)]
           /\ UNCHANGED <<dp, people, faults>>
  <2>2. /\ obj' \in [Objects -> Object]
        /\ \A c \in Objects : obj'[c].st = obj[c].st /\ obj'[c].job = obj[c].job
    BY <1>1, <1>6, ObjectFacts
  <2>3. /\ rr' \in [Bindings -> Object] /\ rr'[b] = Deleted(rr[b])
        /\ \A c \in Bindings : c # b => rr'[c] = rr[c]
    BY <1>1, <1>6, DeletedFacts
  <2>4. rr[b].st \in {"live", "deleting"} => rr'[b].st \in {"live", "deleting"}
    BY <1>1, <2>3, DeletedFacts
  <2>5. KindOf[b] = ProjectReleaseBinding /\ dp[b] # "none" => rr'[b].st \in {"live", "deleting"}
    BY <2>4 DEF CascadeInv, InCells, BindingsOf
  <2>6. QED
    BY <1>6, <2>2, <2>3, <2>5, ReleaseKeeps
<1>7. QED
  BY <1>3, <1>4, <1>5, <1>6, Zenon DEF bindingFinalize, hasOwnedReleases

(* A binding that is not being deleted renders only when its data plane is there,
   and emits its RenderedRelease even if it is being deleted by then. *)
LEMMA renderKeeps ==
  ASSUME CascadeInv, NEW b \in Bindings, reconcile(b) \/ renderAndEmit(b)
  PROVE  CascadeInv'
<1>1. b \in Objects /\ b \notin Leaves /\ obj[b] \in Object /\ rr[b] \in Object
      /\ obj \in [Objects -> Object] /\ rr \in [Bindings -> Object]
      /\ WellFormed(b, obj[b])
  BY NamedObjects DEF CascadeInv, TypeOK
<1>2. CASE reconcile(b) /\ ~Resolved(b)
  <2>1. [obj[b] EXCEPT !.queued = FALSE] \in Object
    BY <1>1 DEF Object
  <2>2. /\ [obj[b] EXCEPT !.queued = FALSE].st = obj[b].st
        /\ [obj[b] EXCEPT !.queued = FALSE].job = obj[b].job
    BY <1>1 DEF Object
  <2>3. QED
    BY <1>1, <1>2, <2>1, <2>2, RecordKeeps DEF reconcile
<1>3. CASE reconcile(b) /\ Resolved(b)
  <2>1. /\ obj' = [obj EXCEPT ![b] = [obj[b] EXCEPT !.job = "render", !.queued = FALSE]]
        /\ UNCHANGED <<rr, dp, people, faults>>
        /\ obj[b].st = "live" /\ obj[b].job = "idle"
        /\ obj["DataPlane"].st # "none"
    BY <1>3 DEF reconcile, Becomes, Resolved, Exists
  <2>2. /\ obj' \in [Objects -> Object]
        /\ obj'[b].st = "live" /\ obj'[b].job = "render"
        /\ \A c \in Objects : c # b => obj'[c] = obj[c]
    BY <1>1, <2>1 DEF Object
  <2>3. \A c \in Objects :
          /\ Exists(obj'[c]) = Exists(obj[c])
          /\ Leaving(obj'[c]) = Leaving(obj[c])
          /\ (obj'[c].st = "none") = (obj[c].st = "none")
          /\ WellFormed(c, obj'[c])
    <3> TAKE c \in Objects
    <3>1. CASE c = b
      BY <1>1, <2>1, <2>2, <3>1 DEF Exists, Leaving, WellFormed
    <3>2. CASE c # b
      BY <2>2, <3>2 DEF CascadeInv
    <3>3. QED
      BY <3>1, <3>2
  <2>4. TypeOK'
    BY <2>1, <2>2 DEF CascadeInv, TypeOK, people, BindingsOf
  <2>5. InOrder'
    <3> SUFFICES ASSUME NEW o \in Objects \ byHand, Leaving(obj'[o]),
                        o = "DataPlane" => obj'[o].st # "none",
                        NEW c \in WaitsFor(o)
                 PROVE  ~Exists(obj'[c])
      BY <2>1 DEF InOrder, people
    <3>1. ~Exists(obj[c])
      BY <2>3 DEF CascadeInv, InOrder
    <3>2. c \in Objects
      BY Distinct DEF WaitsFor, BindingsOf, Owners, Leaves
    <3>3. QED
      BY <2>3, <3>1, <3>2
  <2>6. Unreferenced'
    BY <2>1, <2>3, NamedObjects DEF CascadeInv, Unreferenced, people
  <2>7. ReleasesFirst'
    BY <2>1, <2>3, NamedObjects DEF CascadeInv, ReleasesFirst, people
  <2>8. NoPlaneNoRelease'
    BY <2>1, <2>3, NamedObjects DEF NoPlaneNoRelease
  <2>10. InCells'
    BY <2>1 DEF CascadeInv, InCells, Cell, BindingsOf
  <2>11. QED
    BY <2>3, <2>4, <2>5, <2>6, <2>7, <2>8, <2>10 DEF CascadeInv
<1>4. CASE renderAndEmit(b)
  <2>1. /\ obj[b].job = "render"
        /\ obj' = [obj EXCEPT ![b].job = "idle"]
        /\ rr' = [rr EXCEPT ![b] = IF Exists(rr[b]) THEN rr[b] ELSE Fresh("bare")]
        /\ UNCHANGED <<dp, people, faults>>
    BY <1>4 DEF renderAndEmit
  <2>2. /\ obj' \in [Objects -> Object]
        /\ \A c \in Objects : /\ obj'[c].st = obj[c].st
                              /\ obj'[c].job = obj[c].job \/ obj'[c].job = "idle"
    BY <1>1, <2>1 DEF Object
  <2>3. /\ rr' \in [Bindings -> Object]
        /\ rr'[b] = IF Exists(rr[b]) THEN rr[b] ELSE Fresh("bare")
        /\ \A c \in Bindings : c # b => rr'[c] = rr[c]
    BY <1>1, <2>1, FreshFacts
  <2>5. KindOf[b] = ProjectReleaseBinding /\ dp[b] # "none" => rr'[b].st \in {"live", "deleting"}
    BY <2>3 DEF CascadeInv, InCells, BindingsOf, Exists
  <2>6. QED
    BY <2>1, <2>2, <2>3, <2>5, ReleaseKeeps
<1>5. QED
  BY <1>2, <1>3, <1>4

(* What the RenderedRelease controller does, the plane and the garbage collector
   keep the order too: an owner that is gone has left no RenderedRelease, unless
   its hold was cleared. *)
LEMMA releaseKeeps ==
  ASSUME CascadeInv, NEW b \in Bindings,
         ReleaseStep(b) \/ PlaneRemoves(b) \/ Collect(b)
  PROVE  CascadeInv'
<1>1. b \in Objects /\ rr[b] \in Object
      /\ obj \in [Objects -> Object] /\ rr \in [Bindings -> Object]
      /\ dp \in [Bindings -> {"none", "there", "terminating"}]
      /\ EnvOf \in [Bindings -> Envs]
  BY NamedObjects, CascadeAssumption DEF CascadeInv, TypeOK
<1>2. KindOf[b] = ProjectReleaseBinding /\ dp[b] # "none" => rr[b].st \in {"live", "deleting"}
  BY DEF CascadeInv, InCells, BindingsOf
<1>3. ASSUME NEW x \in Object, RRBecomes(b, x),
             Exists(x) => Exists(rr[b]),
             KindOf[b] = ProjectReleaseBinding /\ dp[b] # "none" => x.st \in {"live", "deleting"}
      PROVE  CascadeInv'
  <2>1. /\ rr' \in [Bindings -> Object] /\ rr'[b] = x
        /\ \A c \in Bindings : c # b => rr'[c] = rr[c]
        /\ UNCHANGED <<obj, dp, people, faults>>
    BY <1>1, <1>3 DEF RRBecomes
  <2>2. QED
    BY <1>1, <1>3, <2>1, ReleaseKeeps
<1>4. CASE releaseEnsureFinalizer(b)
  BY <1>2, <1>3, <1>4, FreshFacts DEF releaseEnsureFinalizer, Exists
<1>5. CASE releaseApply(b)
  <2>1. dp' = [dp EXCEPT ![b] = "there"] /\ UNCHANGED <<obj, rr, people, faults>>
    BY <1>5 DEF releaseApply
  <2>2. dp'[b] = "there" /\ \A c \in Bindings : c # b => dp'[c] = dp[c]
    BY <1>1, <2>1
  <2>3. \E c \in Cell(EnvOf[b]) : dp'[c] # "none"
    BY <1>5, <2>2 DEF releaseApply, Cell, BindingsOf
  <2>4. \A c \in Bindings : dp[c] # "none" => dp'[c] # "none"
    BY <2>2
  <2>5. \A c \in Bindings : dp'[c] # "none" => \E d \in Cell(EnvOf[c]) : dp'[d] # "none"
    BY <2>2, <2>3, <2>4 DEF CascadeInv, InCells, Cell, BindingsOf
  <2>6. \A c \in BindingsOf(ProjectReleaseBinding) : dp'[c] # "none" => rr'[c].st \in {"live", "deleting"}
    BY <1>5, <2>1, <2>2 DEF CascadeInv, InCells, BindingsOf, releaseApply
  <2>7. InCells'
    BY <2>5, <2>6 DEF InCells, Cell, BindingsOf
  <2>8. dp' \in [Bindings -> {"none", "there", "terminating"}]
    BY <1>1, <2>1
  <2>9. QED
    BY <2>1, <2>7, <2>8, PlaneKeeps
<1>6. CASE releaseFinalize(b) /\ dp[b] # "none"
  <2>1. dp' = [dp EXCEPT ![b] = "terminating"] /\ UNCHANGED <<obj, rr, people, faults>>
    BY <1>6 DEF releaseFinalize
  <2>2. \A c \in Bindings : (dp'[c] = "none") = (dp[c] = "none")
    BY <1>1, <1>6, <2>1
  <2>3. InCells'
    BY <2>1, <2>2 DEF CascadeInv, InCells, Cell, BindingsOf
  <2>4. dp' \in [Bindings -> {"none", "there", "terminating"}]
    BY <1>1, <2>1
  <2>5. QED
    BY <2>1, <2>3, <2>4, PlaneKeeps
<1>7. CASE releaseFinalize(b) /\ dp[b] = "none"
  BY <1>3, <1>7, FreshFacts DEF releaseFinalize, Exists
<1>8. CASE PlaneRemoves(b)
  <2> DEFINE whole == b \in Cell(EnvOf[b])
  <2>1. /\ \A c \in Bindings : dp'[c] = IF c = b \/ (whole /\ EnvOf[c] = EnvOf[b])
                                        THEN "none" ELSE dp[c]
        /\ dp' \in [Bindings -> {"none", "there", "terminating"}]
        /\ UNCHANGED <<obj, rr, people, faults>>
    BY <1>1, <1>8 DEF PlaneRemoves
  <2>2. ASSUME NEW c \in Bindings, dp'[c] # "none"
        PROVE  \E d \in Cell(EnvOf[c]) : dp'[d] # "none"
    <3>1. dp[c] # "none" /\ ~(whole /\ EnvOf[c] = EnvOf[b])
      BY <2>1, <2>2
    <3>2. PICK d \in Cell(EnvOf[c]) : dp[d] # "none"
      BY <3>1 DEF CascadeInv, InCells
    <3>3. d \in Bindings /\ EnvOf[d] = EnvOf[c] /\ (d = b => whole)
      BY <3>2 DEF Cell, BindingsOf
    <3>4. dp'[d] = dp[d]
      BY <2>1, <3>1, <3>3
    <3>5. QED
      BY <3>2, <3>4
  <2>3. \A c \in BindingsOf(ProjectReleaseBinding) : dp'[c] # "none" => rr'[c].st \in {"live", "deleting"}
    BY <2>1 DEF CascadeInv, InCells, BindingsOf
  <2>4. InCells'
    BY <2>2, <2>3 DEF InCells, Cell, BindingsOf
  <2>5. QED
    BY <2>1, <2>4, PlaneKeeps
<1>9. CASE Collect(b)
  <2>1. Deleted(rr[b]) \in Object /\ (Exists(Deleted(rr[b])) => Exists(rr[b]))
    BY <1>1, DeletedFacts DEF Exists
  <2>2. rr[b].st \in {"live", "deleting"} => Deleted(rr[b]).st \in {"live", "deleting"}
    BY <1>1, DeletedFacts
  <2>3. QED
    BY <1>2, <1>3, <1>9, <2>1, <2>2 DEF Collect
<1>10. QED
  BY <1>4, <1>5, <1>6, <1>7, <1>8, <1>9 DEF ReleaseStep

(* What people do, calls that fail and restarts keep the order. *)
LEMMA othersKeep ==
  ASSUME CascadeInv,
         \/ \E o \in Objects : Delete(o) \/ CallFails(o)
         \/ \E e \in Envs : Unpromote(e)
         \/ \E b \in Bindings, p \in Policies : SetRetainPolicy(b, p)
         \/ Restart
  PROVE  CascadeInv'
<1>1. /\ obj \in [Objects -> Object] /\ faults \in 0 .. MaxFaults
      /\ dp \in [Bindings -> {"none", "there", "terminating"}]
  BY DEF CascadeInv, TypeOK
<1>2. MaxFaults \in Nat
  BY CascadeAssumption
<1>3. {} \in SUBSET Objects /\ Objects \ {} = Objects /\ {} \cap Leaves = {}
  OBVIOUS
<1>4. ASSUME NEW o \in Objects, Delete(o) PROVE CascadeInv'
  <2>1. /\ obj' = [obj EXCEPT ![o] = Deleted(obj[o])]
        /\ byHand' = byHand \cup ({o} \cap Leaves)
        /\ UNCHANGED <<rr, dp, deletes, promoted, policy, faults>>
    BY <1>4 DEF Delete
  <2>2. /\ obj' \in [Objects -> Object] /\ obj'[o] = Deleted(obj[o])
        /\ \A c \in Objects \ {o} : obj'[c] = obj[c]
    BY <1>1, <2>1, DeletedFacts
  <2>3. {o} \in SUBSET Objects /\ \A c \in {o} \cap Leaves : c \in byHand'
    BY <2>1
  <2>4. PeopleKeep
    BY <2>1 DEF PeopleKeep, CascadeInv, TypeOK
  <2>5. QED
    BY <1>1, <2>1, <2>2, <2>3, <2>4, ObjectsKeep
<1>5. ASSUME NEW o \in Objects, CallFails(o) PROVE CascadeInv'
  <2>1. /\ faults < MaxFaults /\ faults' = faults + 1
        /\ obj' = [obj EXCEPT ![o].job = "idle", ![o].queued = TRUE]
        /\ UNCHANGED <<rr, dp, people>>
    BY <1>5 DEF CallFails
  <2>2. /\ obj' \in [Objects -> Object]
        /\ \A c \in Objects : obj'[c].st = obj[c].st
        /\ \A c \in Objects : obj'[c].job = obj[c].job \/ obj'[c].job = "idle"
    <3>1. obj[o] \in Object /\ \A c \in Objects \ {o} : obj'[c] = obj[c]
      BY <1>1, <2>1
    <3>2. obj'[o] \in Object /\ obj'[o].st = obj[o].st /\ obj'[o].job = "idle"
      BY <1>1, <2>1, <3>1 DEF Object
    <3>3. DOMAIN obj' = Objects /\ obj' = [c \in Objects |-> obj'[c]]
      BY <1>1, <2>1
    <3>4. QED
      BY <1>1, <3>1, <3>2, <3>3
  <2>3. faults' \in 0 .. MaxFaults
    BY <1>1, <1>2, <2>1
  <2>4. QED
    BY <1>1, <1>3, <2>1, <2>2, <2>3, PeopleRest, ObjectsKeep
<1>6. CASE Restart
  <2>1. /\ faults < MaxFaults /\ faults' = faults + 1
        /\ obj' = [o \in Objects |->
                     IF obj[o].job = "idle" THEN obj[o]
                     ELSE [obj[o] EXCEPT !.job = "idle", !.queued = TRUE]]
        /\ UNCHANGED <<rr, dp, people>>
    BY <1>6 DEF Restart
  <2>2. /\ obj' \in [Objects -> Object]
        /\ \A c \in Objects : obj'[c].st = obj[c].st
        /\ \A c \in Objects : obj'[c].job = obj[c].job \/ obj'[c].job = "idle"
    <3>1. ASSUME NEW c \in Objects
          PROVE  /\ obj'[c] \in Object /\ obj'[c].st = obj[c].st
                 /\ obj'[c].job = obj[c].job \/ obj'[c].job = "idle"
      <4>1. obj[c] \in Object
        BY <1>1
      <4>2. CASE obj[c].job = "idle"
        BY <2>1, <4>1, <4>2
      <4>3. CASE obj[c].job # "idle"
        <5>1. obj'[c] = [obj[c] EXCEPT !.job = "idle", !.queued = TRUE]
          BY <2>1, <4>3
        <5>2. QED
          BY <4>1, <5>1 DEF Object
      <4>4. QED
        BY <4>2, <4>3
    <3>2. obj' = [c \in Objects |-> obj'[c]]
      BY <2>1
    <3>3. QED
      BY <3>1, <3>2
  <2>3. faults' \in 0 .. MaxFaults
    <3>1. faults \in 0 .. MaxFaults /\ faults < MaxFaults /\ faults' = faults + 1
      BY <1>1, <2>1
    <3>2. QED
      BY <1>2, <3>1
  <2>4. QED
    BY <1>1, <1>3, <2>1, <2>2, <2>3, PeopleRest, ObjectsKeep
<1>7. ASSUME NEW e \in Envs, Unpromote(e) PROVE CascadeInv'
  <2>1. PeopleKeep /\ UNCHANGED <<obj, rr, dp, faults>>
    BY <1>7 DEF Unpromote, PeopleKeep, CascadeInv, TypeOK
  <2>2. QED
    BY <1>1, <1>3, <2>1, ObjectsKeep
<1>8. ASSUME NEW b \in Bindings, NEW p \in Policies, SetRetainPolicy(b, p) PROVE CascadeInv'
  <2> DEFINE x == [obj[b] EXCEPT !.finalizing = FALSE, !.queued = TRUE,
                                 !.job = IF obj[b].job = "remove" THEN "idle" ELSE obj[b].job]
  <2>1. /\ faults < MaxFaults /\ faults' = faults + 1
        /\ obj' = [obj EXCEPT ![b] = x]
        /\ UNCHANGED <<rr, dp>>
    BY <1>8 DEF SetRetainPolicy
  <2>2. b \in Objects /\ obj[b] \in Object
    BY <1>1, NamedObjects
  <2>3. x \in Object /\ x.st = obj[b].st /\ (x.job = obj[b].job \/ x.job = "idle")
    BY <2>2 DEF Object
  <2> HIDE DEF x
  <2>4. /\ obj' \in [Objects -> Object]
        /\ \A c \in Objects : obj'[c].st = obj[c].st
        /\ \A c \in Objects : obj'[c].job = obj[c].job \/ obj'[c].job = "idle"
    BY <1>1, <2>1, <2>2, <2>3
  <2>5. faults' \in 0 .. MaxFaults
    BY <1>1, <1>2, <2>1
  <2>6. PeopleKeep
    BY <1>8 DEF SetRetainPolicy, PeopleKeep, CascadeInv, TypeOK
  <2>7. QED
    BY <1>1, <1>3, <2>1, <2>4, <2>5, <2>6, ObjectsKeep
<1>9. QED
  BY <1>4, <1>5, <1>6, <1>7, <1>8

(* A tenant starts with everything in place and nothing on the plane. *)
LEMMA InitKeeps ==
  ASSUME Init
  PROVE  CascadeInv
<1>1. PICK t \in Tenants, plane \in {"live", "none"} :
        /\ deletes = t.deletes
        /\ obj = [o \in Objects |->
                 CASE o = "DataPlane" -> Fresh(plane)
                   [] o \in {"Component", "Resource"} \ Uses(t.bindings) -> Fresh("none")
                   [] o \in Leaves -> Fresh(IF o \in Uses(t.bindings) THEN "bare" ELSE "none")
                   [] o \in Bindings -> IF o \in t.bindings THEN RequeueAfter(Fresh("live")) ELSE Fresh("none")
                   [] OTHER -> Fresh("live")]
  BY Zenon DEF Init
<1> DEFINE T == t.bindings
<1>0. T \subseteq Bindings /\ t.deletes \subseteq Objects
  BY CascadeAssumption
<1> HIDE DEF T
<1>2. /\ rr = [b \in Bindings |-> Fresh("none")]
      /\ dp = [b \in Bindings |-> "none"]
      /\ promoted = Envs
      /\ policy = [b \in Bindings |-> ""]
      /\ byHand = {}
      /\ faults = 0
  BY DEF Init
<1>3. /\ RequeueAfter(Fresh("live")) \in Object
      /\ RequeueAfter(Fresh("live")).st = "live"
      /\ RequeueAfter(Fresh("live")).job = "idle"
  BY FreshFacts, ObjectFacts
<1>4. ASSUME NEW o \in Objects
      PROVE  /\ obj[o] \in Object
             /\ obj[o].job = "idle"
             /\ o = "DataPlane" => obj[o].st \in {"live", "none"}
             /\ o \in {"Component", "Resource"} => obj[o].st = IF o \in Uses(T) THEN "live" ELSE "none"
             /\ o \in Leaves => obj[o].st = IF o \in Uses(T) THEN "bare" ELSE "none"
             /\ o \in Bindings => obj[o].st = IF o \in T THEN "live" ELSE "none"
             /\ o \in Envs \cup {"Project", "DeploymentPipeline"} => obj[o].st = "live"
  <2>1. CASE o = "DataPlane"
    BY <1>1, <2>1, FreshFacts, NamedObjects DEF Owners, T
  <2>2. CASE o \in {"Component", "Resource"}
    <3>1. o \in Owners /\ o # "DataPlane" /\ o \notin {"Project", "DeploymentPipeline"}
      BY <2>2 DEF Owners
    <3>2. obj[o] = Fresh(IF o \in Uses(T) THEN "live" ELSE "none")
      BY <1>1, <2>2, <3>1, NamedObjects DEF T
    <3>3. QED
      BY <2>2, <3>1, <3>2, FreshFacts, NamedObjects
  <2>3. CASE o \in Leaves
    <3>1. o \notin Owners /\ o \notin Envs /\ o \notin Bindings
      BY <2>3, NamedObjects
    <3>2. obj[o] = Fresh(IF o \in Uses(T) THEN "bare" ELSE "none")
      BY <1>1, <2>3, <3>1 DEF Owners, T
    <3>3. QED
      BY <2>3, <3>1, <3>2, FreshFacts DEF Owners
  <2>4. CASE o \in Bindings
    <3>1. o \notin Owners /\ o \notin Envs /\ o \notin Leaves
      BY <2>4, NamedObjects
    <3>2. obj[o] = IF o \in T THEN RequeueAfter(Fresh("live")) ELSE Fresh("none")
      BY <1>1, <2>4, <3>1 DEF Owners, T
    <3>3. QED
      BY <1>3, <2>4, <3>1, <3>2, FreshFacts DEF Owners
  <2>5. CASE o \in Envs \cup {"Project", "DeploymentPipeline"}
    <3>1. o \notin {"Component", "Resource", "DataPlane"} /\ o \notin Bindings /\ o \notin Leaves
      BY <2>5, NamedObjects DEF Owners
    <3>2. obj[o] = Fresh("live")
      BY <1>1, <3>1
    <3>3. QED
      BY <2>5, <3>1, <3>2, FreshFacts
  <2>6. QED
    BY <2>1, <2>2, <2>3, <2>4, <2>5 DEF Objects, Owners
<1>5. TypeOK
  <2>1. obj \in [Objects -> Object]
    BY <1>1, <1>4
  <2>2. rr \in [Bindings -> Object] /\ dp \in [Bindings -> {"none", "there", "terminating"}]
    BY <1>2, FreshFacts
  <2>3. policy \in [Bindings -> Policies]
    BY <1>2 DEF Policies
  <2>4. deletes \subseteq Objects /\ promoted \subseteq Envs /\ byHand = {}
    BY <1>0, <1>1, <1>2, Zenon
  <2>5. faults \in 0 .. MaxFaults
    <3>1. MaxFaults \in Nat
      BY CascadeAssumption
    <3>2. faults = 0
      BY DEF Init
    <3>3. QED
      BY <3>1, <3>2
  <2>6. QED
    BY <2>1, <2>2, <2>3, <2>4, <2>5 DEF TypeOK
<1>6. ASSUME NEW o \in Objects PROVE WellFormed(o, obj[o])
  <2>1. obj[o] \in Object /\ obj[o].job = "idle"
    BY <1>4
  <2>2. o \in Leaves => obj[o].st \in {"none", "bare", "gone"}
    BY <1>4
  <2>3. o \notin Leaves => obj[o].st # "bare"
    BY <1>4 DEF Objects, Owners
  <2>4. QED
    BY <2>1, <2>2, <2>3 DEF WellFormed
<1>7. InOrder
  <2> SUFFICES ASSUME NEW o \in Objects \ byHand, Leaving(obj[o]),
                      o = "DataPlane" => obj[o].st # "none",
                      NEW c \in WaitsFor(o)
               PROVE  ~Exists(obj[c])
    BY DEF InOrder
  <2>1. obj[o].job = "idle" /\ ~Exists(obj[o])
    BY <1>4 DEF Leaving
  <2>2. o \in {"Component", "Resource"} \cup Leaves \cup Bindings /\ o \notin Uses(T) \cup T
    <3>1. obj[o].st # "live" /\ obj[o].st # "bare"
      BY <2>1 DEF Exists
    <3>2. o # "DataPlane" /\ o \notin Envs \cup {"Project", "DeploymentPipeline"}
      BY <1>4, <3>1
    <3>3. o \in {"Component", "Resource"} \cup Leaves \cup Bindings
      BY <3>2 DEF Objects, Owners
    <3>4. /\ o \in {"Component", "Resource"} \cup Leaves => o \notin Uses(T)
          /\ o \in Bindings => o \notin T
      BY <1>4, <3>1
    <3>5. T \subseteq Bindings /\ \A b \in T : Owner(b) \in Owners /\ Pinned(b) \in Leaves
      BY <1>0, CascadeAssumption DEF Kinds, Owner, Pinned, Owners, Leaves
    <3>6. Uses(T) \cap Bindings = {} /\ T \cap (Owners \cup Leaves) = {}
      BY <3>5, NamedObjects DEF Uses
    <3>7. QED
      BY <3>3, <3>4, <3>6 DEF Owners
  <2>3. \A b \in T : b \in Bindings /\ KindOf[b] \in Kinds /\ Owner(b) # o /\ Pinned(b) # o
    BY <1>0, <2>2, CascadeAssumption DEF Uses
  <2>4. ASSUME NEW k \in Kinds, \A b \in T : KindOf[b] # k, NEW b \in BindingsOf(k)
        PROVE  ~Exists(obj[b])
    BY <1>4, <2>4, NamedObjects DEF Exists, BindingsOf
  <2>5. CASE o = "Component"
    <3>1. \A b \in T : KindOf[b] # ReleaseBinding
      BY <2>3, <2>5 DEF Owner, ReleaseBinding, ProjectReleaseBinding, ResourceReleaseBinding
    <3>2. "ComponentRelease" \notin Uses(T)
      BY <2>3, <3>1 DEF Uses, Owner, Pinned, Kinds
    <3>3. ~Exists(obj["ComponentRelease"])
      BY <1>4, <3>2, NamedObjects DEF Exists, Leaves
    <3>4. QED
      BY <2>4, <2>5, <3>1, <3>3, WaitsForFacts DEF Kinds
  <2>6. CASE o = "Resource"
    <3>1. \A b \in T : KindOf[b] # ResourceReleaseBinding
      BY <2>3, <2>6 DEF Owner, ReleaseBinding, ProjectReleaseBinding, ResourceReleaseBinding
    <3>2. "ResourceRelease" \notin Uses(T)
      BY <2>3, <3>1 DEF Uses, Owner, Pinned, Kinds
    <3>3. ~Exists(obj["ResourceRelease"])
      BY <1>4, <3>2, NamedObjects DEF Exists, Leaves
    <3>4. QED
      BY <2>4, <2>6, <3>1, <3>3, WaitsForFacts DEF Kinds
  <2>7. CASE o = "ProjectRelease"
    <3>1. \A b \in T : KindOf[b] # ProjectReleaseBinding
      BY <2>3, <2>7 DEF Pinned, ReleaseBinding, ProjectReleaseBinding, ResourceReleaseBinding
    <3>2. QED
      BY <2>4, <2>7, <3>1, WaitsForFacts DEF Kinds
  <2>8. CASE o = "ResourceRelease"
    <3>1. \A b \in T : KindOf[b] # ResourceReleaseBinding
      BY <2>3, <2>8 DEF Pinned, ReleaseBinding, ProjectReleaseBinding, ResourceReleaseBinding
    <3>2. QED
      BY <2>4, <2>8, <3>1, WaitsForFacts DEF Kinds
  <2>9. CASE o = "ComponentRelease" \/ o \in Bindings
    BY <2>9, WaitsForFacts
  <2>10. QED
    BY <2>2, <2>5, <2>6, <2>7, <2>8, <2>9 DEF Leaves
<1>8. Unreferenced
  BY <1>4, NamedObjects DEF Unreferenced, Leaving, Exists
<1>9. ReleasesFirst /\ InCells
  BY <1>2, FreshFacts, CascadeAssumption DEF ReleasesFirst, InCells, Exists, BindingsOf
<1>10. NoPlaneNoRelease
  BY <1>2, <1>4, FreshFacts, NamedObjects DEF NoPlaneNoRelease, Exists
<1>11. QED
  BY <1>5, <1>6, <1>7, <1>8, <1>9, <1>10 DEF CascadeInv

-----------------------------------------------------------------------------

(* Every controller of the cascade keeps the order in which the finalizers let
   objects go, for any tenant, any environments and any number of faults. *)
THEOREM CascadeInvariant == Spec => []CascadeInv
<1>1. Init => CascadeInv
  BY InitKeeps
<1>2. ASSUME CascadeInv, [Next]_vars PROVE CascadeInv'
  <2>1. CASE componentFinalize
    BY <1>2, <2>1, componentFinalizeKeeps
  <2>2. CASE resourceFinalize
    BY <1>2, <2>2, resourceFinalizeKeeps
  <2>3. CASE projectFinalize
    BY <1>2, <2>3, projectFinalizeKeeps
  <2>4. CASE pipelineFinalize \/ dataPlaneFinalize
    BY <1>2, <2>4, blockedFinalizersKeep
  <2>5. ASSUME NEW e \in Envs, environmentFinalize(e) PROVE CascadeInv'
    BY <1>2, <2>5, environmentFinalizeKeeps
  <2>6. ASSUME NEW o \in Objects, removeFinalizer(o) PROVE CascadeInv'
    BY <1>2, <2>6, GoneKeeps
  <2>7. ASSUME NEW b \in Bindings, ClearHold(b) PROVE CascadeInv'
    BY <1>2, <2>7, GoneKeeps, NamedObjects
  <2>8. ASSUME NEW b \in Bindings, BindingStep(b) PROVE CascadeInv'
    BY <1>2, <2>8, bindingFinalizeKeeps, renderKeeps DEF BindingStep
  <2>9. ASSUME NEW b \in Bindings, ReleaseStep(b) \/ PlaneRemoves(b) \/ Collect(b)
        PROVE  CascadeInv'
    BY <1>2, <2>9, releaseKeeps
  <2>10. CASE \/ \E o \in Objects : Delete(o) \/ CallFails(o)
              \/ \E e \in Envs : Unpromote(e)
              \/ \E b \in Bindings, p \in Policies : SetRetainPolicy(b, p)
              \/ Restart
    BY <1>2, <2>10, othersKeep
  <2>11. CASE UNCHANGED vars
    <3>1. UNCHANGED <<obj, rr, people, faults>> /\ dp' = dp
      BY <2>11 DEF vars
    <3>2. dp' \in [Bindings -> {"none", "there", "terminating"}] /\ InCells'
      BY <1>2, <3>1 DEF CascadeInv, TypeOK, InCells, Cell, BindingsOf
    <3>3. QED
      BY <1>2, <3>1, <3>2, PlaneKeeps
  <2>12. QED
    BY <1>2, <2>1, <2>2, <2>3, <2>4, <2>5, <2>6, <2>7, <2>8, <2>9, <2>10, <2>11 DEF Next
<1>3. QED
  BY <1>1, <1>2, PTL DEF Spec

(* Objects, releases and the plane are always in a state their controllers
   know. *)
THEOREM TypeCorrect == Spec => []TypeOK
<1>1. CascadeInv => TypeOK
  BY DEF CascadeInv
<1>2. QED
  BY <1>1, CascadeInvariant, PTL

(* What has to wait for an object is there, and not about to go, while the object
   is (the finalizers' checks for what is left). *)
LEMMA WaitingStays ==
  ASSUME CascadeInv, NEW o \in Objects \ byHand, NEW c \in WaitsFor(o), Exists(obj[c]),
         o = "DataPlane" => obj[o].st # "none"
  PROVE  Exists(obj[o]) /\ ~Leaving(obj[o])
BY DEF CascadeInv, InOrder, Leaving

(* Only releases and resource bindings go by hand (Delete of a release, ClearHold). *)
LEMMA ByHandFacts ==
  ASSUME CascadeInv
  PROVE  /\ \A o \in Owners \cup Envs : o \notin byHand
         /\ \A b \in Bindings : KindOf[b] # ResourceReleaseBinding => b \notin byHand
<1>1. byHand \subseteq Leaves \cup BindingsOf(ResourceReleaseBinding)
  BY DEF CascadeInv, TypeOK
<1>2. QED
  BY <1>1, NamedObjects DEF BindingsOf

(* Whatever is deleted, in whatever order, a RenderedRelease of a component or a
   project keeps the environment and the data plane through which its finalizer
   cleans up (the environment's wait for its bindings, the data plane's for its
   environments). *)
THEOREM ReleasesReachTheirPlane == Spec => []EnvironmentOutlivesReleases
<1>1. ASSUME CascadeInv PROVE EnvironmentOutlivesReleases
  <2> SUFFICES ASSUME NEW b \in BindingsOf(ReleaseBinding) \cup BindingsOf(ProjectReleaseBinding),
                      Exists(rr[b])
               PROVE  Exists(obj[EnvOf[b]]) /\ Exists(obj["DataPlane"])
    BY DEF EnvironmentOutlivesReleases
  <2>1. /\ b \in Bindings /\ KindOf[b] # ResourceReleaseBinding
        /\ b \notin byHand /\ EnvOf[b] \in Envs
    BY <1>1, ByHandFacts, CascadeAssumption
       DEF BindingsOf, ReleaseBinding, ProjectReleaseBinding, ResourceReleaseBinding
  <2>2. Exists(obj[b])
    BY <1>1, <2>1 DEF CascadeInv, ReleasesFirst, Leaving
  <2>3. b \in WaitsFor(EnvOf[b]) /\ EnvOf[b] \in Objects \ byHand /\ EnvOf[b] # "DataPlane"
    <3>1. b \in WaitsFor(EnvOf[b])
      BY <2>1, WaitsForFacts
    <3>2. EnvOf[b] \in Objects /\ EnvOf[b] \notin byHand
      BY <1>1, <2>1, NamedObjects, ByHandFacts, Zenon
    <3>3. EnvOf[b] # "DataPlane"
      BY <2>1, NamedObjects DEF Owners
    <3>4. QED
      BY <3>1, <3>2, <3>3
  <2>4. Exists(obj[EnvOf[b]])
    BY <1>1, <2>2, <2>3, WaitingStays
  <2>5. obj["DataPlane"].st # "none"
    BY <1>1, <2>1 DEF CascadeInv, NoPlaneNoRelease
  <2>6. "DataPlane" \in Objects \ byHand /\ EnvOf[b] \in WaitsFor("DataPlane")
    BY <1>1, <2>1, WaitsForFacts, NamedObjects, ByHandFacts DEF Owners
  <2>7. QED
    BY <1>1, <2>4, <2>5, <2>6, WaitingStays
<1>2. QED
  BY <1>1, CascadeInvariant, PTL

(* An environment or a project that is gone has nothing left on the plane, and a
   project that is gone left no object behind (projectFinalize and
   environmentFinalize wait for all of it). *)
THEOREM CascadeLeavesNothing == Spec => []NothingLeftBehind
<1>1. ASSUME CascadeInv PROVE NothingLeftBehind
  <2>1. ASSUME NEW b \in Bindings, dp[b] # "none"
        PROVE  Exists(obj[EnvOf[b]]) /\ Exists(obj["Project"])
    <3>1. PICK c \in Cell(EnvOf[b]) : dp[c] # "none"
      BY <1>1, <2>1 DEF CascadeInv, InCells
    <3>2. /\ c \in Bindings /\ KindOf[c] = ProjectReleaseBinding /\ EnvOf[c] = EnvOf[b]
          /\ c \notin byHand /\ EnvOf[b] \in Envs
      BY <1>1, <3>1, ByHandFacts, CascadeAssumption DEF Cell, BindingsOf, ProjectReleaseBinding, ResourceReleaseBinding
    <3>3. Exists(rr[c])
      BY <1>1, <3>1, <3>2 DEF CascadeInv, InCells, BindingsOf, Exists
    <3>4. Exists(obj[c])
      BY <1>1, <3>2, <3>3 DEF CascadeInv, ReleasesFirst, Leaving
    <3>5. /\ c \in WaitsFor(EnvOf[b]) /\ EnvOf[b] \in Objects \ byHand /\ EnvOf[b] # "DataPlane"
          /\ c \in WaitsFor("Project") /\ "Project" \in Objects \ byHand
      <4>1. c \in WaitsFor(EnvOf[b]) /\ c \in WaitsFor("Project")
        BY <3>2, WaitsForFacts
           DEF BindingsOf, ProjectReleaseBinding, ResourceReleaseBinding
      <4>2. EnvOf[b] \in Objects /\ EnvOf[b] \notin byHand
        BY <1>1, <3>2, NamedObjects, ByHandFacts, Zenon
      <4>3. EnvOf[b] # "DataPlane"
        BY <3>2, NamedObjects DEF Owners
      <4>4. "Project" \in Objects /\ "Project" \notin byHand
        BY <1>1, NamedObjects, ByHandFacts DEF Owners
      <4>5. QED
        BY <4>1, <4>2, <4>3, <4>4
    <3>6. QED
      BY <1>1, <3>4, <3>5, WaitingStays
  <2>2. ASSUME ~Exists(obj["Project"])
        PROVE  \A o \in {"Component", "Resource"} \cup Leaves \cup Bindings : ~Exists(obj[o])
    <3>1. {"Project", "Component", "Resource"} \subseteq Objects \ byHand
      BY <1>1, NamedObjects, ByHandFacts DEF Owners
    <3>2. \A c \in WaitsFor("Project") : ~Exists(obj[c])
      BY <1>1, <2>2, <3>1, WaitingStays
    <3>3. ~Exists(obj["Component"]) /\ ~Exists(obj["Resource"]) /\ ~Exists(obj["ProjectRelease"])
      BY <3>2, WaitsForFacts
    <3>4. \A c \in WaitsFor("Component") \cup WaitsFor("Resource") : ~Exists(obj[c])
      BY <1>1, <3>1, <3>3, WaitingStays
    <3>5. ~Exists(obj["ComponentRelease"]) /\ ~Exists(obj["ResourceRelease"])
      BY <3>4, WaitsForFacts
    <3>6. \A b \in Bindings : b \in WaitsFor("Project") \cup WaitsFor("Component") \cup WaitsFor("Resource")
      BY WaitsForFacts, CascadeAssumption DEF BindingsOf, Kinds
    <3>7. \A b \in Bindings : ~Exists(obj[b])
      BY <3>2, <3>4, <3>6
    <3>8. QED
      BY <3>3, <3>5, <3>7 DEF Leaves
  <2>3. ASSUME ~Exists(obj["Project"]), NEW b \in Bindings, Exists(rr[b])
        PROVE  b \in byHand
    BY <1>1, <2>2, <2>3 DEF CascadeInv, ReleasesFirst, Leaving
  <2>4. QED
    BY <2>1, <2>2, <2>3 DEF NothingLeftBehind
<1>2. QED
  BY <1>1, CascadeInvariant, PTL

(* What something that exists refers to exists: the pipeline of a project, the
   environments of a pipeline, the owner of a binding and the release of a project
   or resource binding, unless people deleted that one (the checks that block a
   finalizer, and the order in which a Resource and a Project delete). *)
THEOREM ReferencesResolve == Spec => []ReferencedStays
<1>1. ASSUME CascadeInv PROVE ReferencedStays
  <2>0. /\ {"DeploymentPipeline", "Component", "Project", "Resource"} \subseteq Objects \ byHand
        /\ "ProjectRelease" \in Objects /\ "ResourceRelease" \in Objects
    BY <1>1, NamedObjects, ByHandFacts DEF Owners
  <2>1. Exists(obj["Project"]) => Exists(obj["DeploymentPipeline"])
    BY <1>1, <2>0, WaitsForFacts, WaitingStays
  <2>2. Exists(obj["DeploymentPipeline"]) => \A e \in promoted : Exists(obj[e])
    BY <1>1 DEF CascadeInv, TypeOK, Unreferenced, Leaving
  <2>3. ASSUME NEW b \in Bindings, Exists(obj[b])
        PROVE  /\ Exists(obj[Owner(b)])
               /\ b \notin BindingsOf(ReleaseBinding) =>
                    Exists(obj[Pinned(b)]) \/ Pinned(b) \in byHand
    <3>1. CASE KindOf[b] = ProjectReleaseBinding
      <4>1. Pinned(b) = "ProjectRelease" /\ Owner(b) = "Project"
        BY <3>1 DEF Pinned, Owner, ReleaseBinding, ProjectReleaseBinding, ResourceReleaseBinding
      <4>2. b \in WaitsFor("ProjectRelease") /\ b \in WaitsFor("Project")
        BY <3>1, WaitsForFacts DEF BindingsOf
      <4>3. QED
        BY <1>1, <2>0, <2>3, <4>1, <4>2, WaitingStays
    <3>2. CASE KindOf[b] = ResourceReleaseBinding
      <4>1. Pinned(b) = "ResourceRelease" /\ Owner(b) = "Resource"
        BY <3>2 DEF Pinned, Owner, ReleaseBinding, ProjectReleaseBinding, ResourceReleaseBinding
      <4>2. b \in WaitsFor("ResourceRelease") /\ b \in WaitsFor("Resource")
        BY <3>2, WaitsForFacts DEF BindingsOf
      <4>3. QED
        BY <1>1, <2>0, <2>3, <4>1, <4>2, WaitingStays
    <3>3. CASE KindOf[b] = ReleaseBinding
      <4>1. Owner(b) = "Component" /\ b \in BindingsOf(ReleaseBinding)
        BY <3>3
           DEF Owner, BindingsOf, ReleaseBinding, ProjectReleaseBinding, ResourceReleaseBinding
      <4>2. b \in WaitsFor("Component")
        BY <4>1, WaitsForFacts
      <4>3. QED
        BY <1>1, <2>0, <2>3, <4>1, <4>2, WaitingStays
    <3>4. QED
      BY <3>1, <3>2, <3>3, CascadeAssumption DEF Kinds
  <2>4. QED
    BY <2>1, <2>2, <2>3 DEF ReferencedStays
<1>2. QED
  BY <1>1, CascadeInvariant, PTL

(* A finalizer that deletes other objects leaves alone what it does not name. *)
LEMMA CascadesSpares ==
  ASSUME NEW o \in Objects, NEW S, NEW after, Cascades(o, S, after),
         NEW b \in Objects, b # o, b \notin S
  PROVE  obj'[b] = obj[b] /\ rr' = rr
<1>1. PICK done \in SUBSET {c \in S : Alive(obj[c])} :
        /\ obj' = [c \in Objects |->
                     CASE c = o -> IF \E d \in S : Alive(obj[d]) /\ d \notin done
                                   THEN RequeueAfter(obj[o]) ELSE after
                       [] c \in done -> Deleted(obj[c])
                       [] OTHER -> obj[c]]
        /\ rr' = rr
  BY Zenon DEF Cascades
<1>2. b \notin done
  BY <1>1
<1>3. QED
  BY <1>1, <1>2

(* What the cascade may do to a resource that is to be kept: nothing that deletes
   its RenderedRelease or its binding. *)
Spared(b) ==
  /\ rr'[b].st = "deleting" => rr[b].st = "deleting"
  /\ Alive(obj[b]) => Alive(obj'[b]) \/ Delete(b)

(* The finalizers of owners, pipelines, planes and environments spare it. *)
LEMMA OwnersSpare ==
  ASSUME CascadeInv, NEW b \in BindingsOf(ResourceReleaseBinding), Exists(obj[b]), Kept(b),
         \/ componentFinalize \/ resourceFinalize \/ projectFinalize
         \/ pipelineFinalize \/ dataPlaneFinalize
         \/ \E e \in Envs : environmentFinalize(e)
  PROVE  Spared(b)
<1>1. /\ b \in Bindings /\ b \in Objects /\ b \notin Owners /\ b \notin Envs /\ b \notin Leaves
      /\ KindOf[b] = ResourceReleaseBinding
      /\ b \notin BindingsOf(ReleaseBinding) /\ b \notin BindingsOf(ProjectReleaseBinding)
      /\ Owners \subseteq Objects /\ Envs \subseteq Objects
  BY NamedObjects, Distinct
     DEF BindingsOf, ReleaseBinding, ProjectReleaseBinding, ResourceReleaseBinding
<1>2. ASSUME NEW o \in Owners \cup Envs, NEW x, Becomes(o, x)
      PROVE  Spared(b)
  BY <1>1, <1>2 DEF Becomes, Spared, CascadeInv, TypeOK
<1>3. ASSUME NEW o \in Owners \cup Envs, NEW x, NEW S, Cascades(o, S, x), b \notin S
      PROVE  Spared(b)
  <2>1. obj'[b] = obj[b] /\ rr' = rr
    BY <1>1, <1>3, CascadesSpares
  <2>2. QED
    BY <2>1, Zenon DEF Spared
<1>4. ASSUME NEW o \in Owners \cup Envs, obj' = [obj EXCEPT ![o] = RequeueAfter(@)], rr' = rr
      PROVE  Spared(b)
  BY <1>1, <1>4 DEF Spared, CascadeInv, TypeOK
<1>5. CASE componentFinalize
  <2>1. "Component" \in Owners
        /\ b \notin Present({"ComponentRelease"} \cup BindingsOf(ReleaseBinding))
    BY <1>1 DEF Owners, Leaves, Present
  <2>2. QED
    BY <1>2, <1>3, <1>5, <2>1, Zenon DEF componentFinalize, MarkFinalizing
<1>6. CASE resourceFinalize
  <2> DEFINE doomed == {c \in Present(BindingsOf(ResourceReleaseBinding)) :
                          effectiveRetainPolicy(c) = "Delete"}
  <2>1. "Resource" \in Owners /\ b \notin doomed /\ b \notin {"ResourceRelease"}
    BY <1>1, KeptIsRetained DEF Owners, Leaves
  <2>2. \/ MarkFinalizing("Resource")
        \/ Cascades("Resource", doomed, RequeueAfter(obj["Resource"]))
        \/ Cascades("Resource", {"ResourceRelease"}, RequeueAfter(obj["Resource"]))
        \/ Becomes("Resource", AllGone(obj["Resource"]))
    BY <1>6 DEF resourceFinalize
  <2>3. QED
    BY <1>2, <1>3, <2>1, <2>2, Zenon DEF MarkFinalizing
<1>7. CASE projectFinalize
  <2> DEFINE bound == Present(BindingsOf(ProjectReleaseBinding))
             owned == Present({"Component", "Resource"}) \cup bound
             children == IF bound = {} THEN owned \cup Present({"ProjectRelease"}) ELSE owned
  <2>1. "Project" \in Owners /\ b \notin children
    BY <1>1 DEF Owners, Leaves, Present
  <2>2. \/ MarkFinalizing("Project")
        \/ Cascades("Project", children, RequeueAfter(obj["Project"]))
        \/ deleteExternalResourcesAndWait
    BY <1>7 DEF projectFinalize
  <2>3. CASE deleteExternalResourcesAndWait
    BY <1>2, <1>4, <2>1, <2>3 DEF deleteExternalResourcesAndWait
  <2>4. QED
    BY <1>2, <1>3, <2>1, <2>2, <2>3, Zenon DEF MarkFinalizing
<1>8. CASE pipelineFinalize
  <2>1. "DeploymentPipeline" \in Owners
    BY DEF Owners
  <2>2. QED
    BY <1>2, <1>8, <2>1, Zenon DEF pipelineFinalize
<1>9. CASE dataPlaneFinalize
  <2>1. "DataPlane" \in Owners
    BY DEF Owners
  <2>2. QED
    BY <1>2, <1>9, <2>1, Zenon DEF dataPlaneFinalize, MarkFinalizing
<1>10. ASSUME NEW e \in Envs, environmentFinalize(e) PROVE Spared(b)
  <2> DEFINE pending == Present(Counted(e))
  <2>1. e \in Owners \cup Envs /\ b \notin pending
    BY <1>1 DEF Present, Counted
  <2>2. \/ Becomes(e, UpdateStatusConditions(obj[e], FALSE))
        \/ MarkFinalizing(e)
        \/ Cascades(e, pending, UpdateStatusConditions(obj[e], FALSE))
        \/ deleteNamespaces(e)
    BY <1>10, Zenon DEF environmentFinalize
  <2>3. CASE deleteNamespaces(e)
    BY <1>2, <1>4, <2>1, <2>3 DEF deleteNamespaces
  <2>4. QED
    BY <1>2, <1>3, <2>1, <2>2, <2>3, Zenon DEF MarkFinalizing
<1>11. QED
  BY <1>5, <1>6, <1>7, <1>8, <1>9, <1>10

(* So do the bindings, its own included (bindingFinalize asks for the policy), the
   RenderedRelease controller and the garbage collector. *)
LEMMA BindingsSpare ==
  ASSUME CascadeInv, NEW b \in BindingsOf(ResourceReleaseBinding), Exists(obj[b]), Kept(b),
         NEW c \in Bindings, BindingStep(c) \/ ReleaseStep(c) \/ PlaneRemoves(c) \/ Collect(c)
  PROVE  Spared(b)
<1>1. /\ b \in Bindings /\ b \in Objects /\ c \in Objects
      /\ obj \in [Objects -> Object] /\ rr \in [Bindings -> Object]
  BY NamedObjects DEF CascadeInv, TypeOK, BindingsOf
<1>2. ASSUME NEW x, obj' = [obj EXCEPT ![c] = x], x.st = obj[c].st, rr' = rr
      PROVE  Spared(b)
  BY <1>1, <1>2 DEF Spared, Alive
<1>3. ASSUME NEW x, rr' = [rr EXCEPT ![c] = x], obj' = obj,
             c = b => (x.st = "deleting" => rr[c].st = "deleting")
      PROVE  Spared(b)
  BY <1>1, <1>3 DEF Spared
<1>4. CASE bindingFinalize(c)
  <2>1. obj[c].st = "deleting"
    BY <1>4 DEF bindingFinalize, Finalizes
  <2>2. CASE MarkFinalizing(c) \/ Becomes(c, UpdateStatusConditions(obj[c], FALSE))
    BY <1>1, <1>2, <2>2, ObjectFacts DEF MarkFinalizing, Becomes
  <2>3. CASE ~RetainHold(c) /\ hasOwnedReleases(c)
    <3>1. c # b
      BY <2>3, KeptIsRetained
    <3>2. obj'[b] = obj[b] /\ rr'[b] = rr[b]
      BY <1>1, <2>3, <3>1 DEF hasOwnedReleases, Becomes
    <3>3. QED
      BY <3>2 DEF Spared
  <2>4. QED
    BY <1>4, <2>2, <2>3, Zenon DEF bindingFinalize
<1>5. CASE reconcile(c)
  <2>1. /\ [obj[c] EXCEPT !.job = "render", !.queued = FALSE].st = obj[c].st
        /\ [obj[c] EXCEPT !.queued = FALSE].st = obj[c].st
    BY <1>1 DEF Object
  <2>2. QED
    BY <1>2, <1>5, <2>1 DEF reconcile, Becomes
<1>6. CASE renderAndEmit(c)
  <2>1. obj'[b].st = obj[b].st
    BY <1>1, <1>6 DEF renderAndEmit, Object
  <2>2. rr'[b] = rr[b] \/ rr'[b] = Fresh("bare")
    BY <1>1, <1>6 DEF renderAndEmit
  <2>3. QED
    BY <2>1, <2>2, FreshFacts DEF Spared, Alive
<1>7. CASE releaseEnsureFinalizer(c)
  BY <1>3, <1>7, FreshFacts DEF releaseEnsureFinalizer, RRBecomes
<1>8. CASE releaseApply(c) \/ PlaneRemoves(c)
  BY <1>8 DEF releaseApply, PlaneRemoves, Spared
<1>9. CASE releaseFinalize(c)
  BY <1>3, <1>9 DEF releaseFinalize, RRBecomes, Spared
<1>10. CASE Collect(c)
  BY <1>3, <1>10 DEF Collect, RRBecomes
<1>11. QED
  BY <1>4, <1>5, <1>6, <1>7, <1>8, <1>9, <1>10 DEF BindingStep, ReleaseStep

(* And so do people who do not delete the binding, faults and restarts. *)
LEMMA OthersSpare ==
  ASSUME CascadeInv, NEW b \in BindingsOf(ResourceReleaseBinding),
         \/ \E o \in Objects : removeFinalizer(o) \/ Delete(o) \/ CallFails(o)
         \/ \E e \in Envs : Unpromote(e)
         \/ \E c \in Bindings : ClearHold(c)
         \/ \E c \in Bindings, p \in Policies : SetRetainPolicy(c, p)
         \/ Restart
  PROVE  Spared(b)
<1>1. b \in Bindings /\ b \in Objects /\ Bindings \subseteq Objects
      /\ obj \in [Objects -> Object] /\ rr \in [Bindings -> Object]
  BY NamedObjects DEF CascadeInv, TypeOK, BindingsOf
<1>2. ASSUME NEW o \in Objects, NEW x, obj' = [obj EXCEPT ![o] = x], rr' = rr,
             x.st = obj[o].st \/ obj[o].st = "deleting"
      PROVE  Spared(b)
  BY <1>1, <1>2 DEF Spared, Alive
<1>3. ASSUME NEW o \in Objects, removeFinalizer(o) PROVE Spared(b)
  BY <1>2, <1>3 DEF removeFinalizer, Becomes, CascadeInv, WellFormed
<1>4. ASSUME NEW o \in Objects, Delete(o) PROVE Spared(b)
  <2>1. CASE o = b
    BY <1>4, <2>1 DEF Spared, Delete
  <2>2. CASE o # b
    BY <1>1, <1>4, <2>2 DEF Spared, Delete
  <2>3. QED
    BY <2>1, <2>2
<1>5. ASSUME NEW o \in Objects, CallFails(o) PROVE Spared(b)
  <2>1. obj'[b].st = obj[b].st /\ rr' = rr
    BY <1>1, <1>5 DEF CallFails, Object
  <2>2. QED
    BY <2>1 DEF Spared, Alive
<1>6. CASE \E e \in Envs : Unpromote(e)
  BY <1>6 DEF Unpromote, Spared
<1>7. ASSUME NEW c \in Bindings, ClearHold(c) PROVE Spared(b)
  BY <1>1, <1>2, <1>7 DEF ClearHold
<1>8. ASSUME NEW c \in Bindings, NEW p \in Policies, SetRetainPolicy(c, p) PROVE Spared(b)
  <2> DEFINE x == [obj[c] EXCEPT !.finalizing = FALSE, !.queued = TRUE,
                                 !.job = IF obj[c].job = "remove" THEN "idle" ELSE obj[c].job]
  <2>1. obj' = [obj EXCEPT ![c] = x] /\ rr' = rr
    BY <1>8 DEF SetRetainPolicy
  <2>2. x.st = obj[c].st
    BY <1>1 DEF Object
  <2> HIDE DEF x
  <2>3. QED
    BY <1>1, <1>2, <2>1, <2>2
<1>9. CASE Restart
  <2>1. obj'[b].st = obj[b].st /\ rr' = rr
    BY <1>1, <1>9 DEF Restart, Object
  <2>2. QED
    BY <2>1 DEF Spared, Alive
<1>10. QED
  BY <1>3, <1>4, <1>5, <1>6, <1>7, <1>8, <1>9

(* The cascade never deletes the RenderedRelease or the binding of a resource that
   is to be kept, whether the binding says so itself or the release it pins: that
   release goes after the binding unless people delete it (resourceFinalize,
   bindingFinalize, effectiveRetainPolicy). *)
THEOREM RetainIsHonoured == Spec => RetainHolds
<1>1. ASSUME CascadeInv, [Next]_vars
      PROVE  [\A b \in BindingsOf(ResourceReleaseBinding) :
                Exists(obj[b]) /\ Kept(b) =>
                   /\ rr'[b].st = "deleting" => rr[b].st = "deleting"
                   /\ Alive(obj[b]) => Alive(obj'[b]) \/ Delete(b)]_vars
  <2> SUFFICES ASSUME Next, NEW b \in BindingsOf(ResourceReleaseBinding), Exists(obj[b]), Kept(b)
               PROVE  Spared(b)
    BY <1>1, Zenon DEF Spared
  <2>1. CASE \/ componentFinalize \/ resourceFinalize \/ projectFinalize
             \/ pipelineFinalize \/ dataPlaneFinalize
             \/ \E e \in Envs : environmentFinalize(e)
    BY <1>1, <2>1, OwnersSpare
  <2>2. CASE \E c \in Bindings : BindingStep(c) \/ ReleaseStep(c) \/ PlaneRemoves(c) \/ Collect(c)
    BY <1>1, <2>2, BindingsSpare
  <2>3. CASE \/ \E o \in Objects : removeFinalizer(o) \/ Delete(o) \/ CallFails(o)
             \/ \E e \in Envs : Unpromote(e)
             \/ \E c \in Bindings : ClearHold(c)
             \/ \E c \in Bindings, p \in Policies : SetRetainPolicy(c, p)
             \/ Restart
    BY <1>1, <2>3, OthersSpare
  <2>4. QED
    BY <2>1, <2>2, <2>3, Zenon DEF Next
<1>2. QED
  BY <1>1, CascadeInvariant, PTL DEF Spec, RetainHolds
=============================================================================
