----------------------------- MODULE Reconciler -----------------------------
(***************************************************************************)
(* ClawInstanceReconciler (internal/operator/controller.go): the worker    *)
(* that takes the key of a ClawInstance from the workqueue and runs        *)
(* Reconcile on it, one API call per step, against the cluster of          *)
(* Cluster.tla, whose users, informers, controllers and kubelet act        *)
(* between any two of these calls.                                         *)
(*                                                                         *)
(* A reconcile works on the copy "inst" it read from the cache.  A write   *)
(* of the resource carries inst's resourceVersion: it is refused when the  *)
(* resource has changed since.  Every error return puts the key back with  *)
(* a delay ("timer").                                                      *)
(***************************************************************************)
EXTENDS Cluster

VARIABLES
  pc,     \* the call Reconcile makes next; "idle" between reconciles
  inst,   \* Reconcile's local variable "instance"
  timer,  \* a delayed add of the key (backoff or RequeueAfter) is pending
  owed    \* history: entries into phase Running minus ready notifications

workerVars == <<pc, inst, timer, owed>>
vars == <<clusterVars, workerVars>>

-----------------------------------------------------------------------------
(* Control flow of Reconcile *)

\* The steps of a reconcile that found the resource being deleted, ...
DeletionSteps == {"terminating", "deleteNamespace", "release"}

\* ... and those of one that holds the finalizer and builds the instance.
BuildSteps == Kinds \cup {"pending", "creating", "check", "starting",
                          "running", "failed", "notify"}

Steps == {"idle", "adopt"} \cup DeletionSteps \cup BuildSteps

\* Mutant: every reconcile starts the phases over.
BuildFromStart(v) == "pending"

\* Where Reconcile goes with the object v, top to bottom through its tests.
BuildFrom(v) ==
  CASE v.phase = ""        -> "pending"
    [] v.phase = "Pending" -> "creating"
    [] OTHER               -> "ns"

\* Mutant: children are built before the finalizer is on.
EntryUnguarded(v) ==
  CASE ~v.live             -> "idle"
    [] v.live /\ v.del     -> IF v.fin THEN "terminating" ELSE "idle"
    [] v.live /\ ~v.del    -> BuildFrom(v)

\* Mutant: the namespace is deleted without first storing Terminating.
EntryUnfenced(v) ==
  CASE ~v.live             -> "idle"
    [] v.live /\ v.del     -> IF v.fin THEN "deleteNamespace" ELSE "idle"
    [] v.live /\ ~v.del    -> IF v.fin THEN BuildFrom(v) ELSE "adopt"

Entry(v) ==
  CASE ~v.live             -> "idle"      \* NotFound
    [] v.live /\ v.del     -> IF v.fin THEN "terminating" ELSE "idle"
    [] v.live /\ ~v.del    -> IF v.fin THEN BuildFrom(v) ELSE "adopt"

\* The children are reconciled in this order.
After(k) ==
  CASE k = "ns"     -> "pvc"
    [] k = "pvc"    -> "deploy"
    [] k = "deploy" -> "svc"
    [] k = "svc"    -> "np"
    [] k = "np"     -> "check"

NoInst == Gone(0, 0)

TypeOK ==
  /\ ClusterTypeOK
  /\ pc \in Steps
  /\ inst \in Version
  /\ timer \in BOOLEAN
  /\ owed \in Int

Init ==
  /\ ClusterInit
  /\ pc = "idle"
  /\ inst = NoInst
  /\ timer = FALSE
  /\ owed = 0

\* Reconcile goes on to step s with the object v, or returns (s = "idle").
Goto(s, v) == pc' = s /\ inst' = IF s = "idle" THEN NoInst ELSE v

\* return ctrl.Result{}, nil
Done == Goto("idle", inst) /\ UNCHANGED timer

\* Mutant: the error is swallowed.
RetryForgotten == Goto("idle", inst) /\ UNCHANGED timer

\* return ctrl.Result{}, err (or RequeueAfter): the key comes back later.
Retry == Goto("idle", inst) /\ timer' = TRUE

\* How the phase change of a stored version counts towards "owed".
Entered == IF cr.phase # "Running" /\ cr'.phase = "Running" THEN 1 ELSE 0

-----------------------------------------------------------------------------
(* Writing the resource *)

\* The write of v succeeds and the reply overwrites the local copy.  "again"
\* says that the return that follows asks for another reconcile.
Written(v, then, again) ==
  /\ UpToDate(inst)
  /\ Commit(v)
  /\ Goto(then, cr')
  /\ timer' = (timer \/ again)
  /\ owed' = owed + Entered
  /\ UNCHANGED budget

\* It is refused: Conflict or NotFound.
Refused ==
  /\ ~UpToDate(inst)
  /\ Retry
  /\ UNCHANGED <<cr, watch, owed, budget>>

\* It fails in transit, before or after the API server has stored it.
WriteLost(v) ==
  /\ Spend("fault")
  /\ Retry
  /\ \/ UNCHANGED <<cr, watch, owed>>
     \/ /\ UpToDate(inst)
        /\ Commit(v)
        /\ owed' = owed + Entered

Write(v, then, again) ==
  /\ \/ Written(v, then, again)
     \/ Refused
     \/ WriteLost(v)
  /\ UNCHANGED <<cache, obj, objCache, queued>>

\* Status().Update: phase p, and the generation a condition observes.
InPhase(p) == [cr EXCEPT !.phase = p]

\* Mutant: the generation is counted from one where it starts at zero.
ObservedEarly(p) == [InPhase(p) EXCEPT !.obs = inst.gen - 1]

Observed(p) == [InPhase(p) EXCEPT !.obs = inst.gen + 1]

-----------------------------------------------------------------------------
(* One action per call of Reconcile *)

\* The worker takes the key and reads the resource from its cache.
Begin ==
  /\ pc = "idle" /\ queued
  /\ queued' = FALSE
  /\ Goto(Entry(cache), cache)
  /\ UNCHANGED <<cr, cache, watch, obj, objCache, budget, timer, owed>>

AddFinalizer ==
  /\ pc = "adopt"
  /\ Write([cr EXCEPT !.fin = TRUE], BuildFrom(cr), FALSE)

SetPending ==
  /\ pc = "pending"
  /\ Write(InPhase("Pending"), "creating", FALSE)

SetCreating ==
  /\ pc = "creating"
  /\ Write(InPhase("Creating"), "ns", FALSE)

\* Mutant: the pod template is written when the deployment is created only.
DesiredOnce(k, o) ==
  [o EXCEPT !.state = IF @ = "absent" THEN "active" ELSE @,
            !.gen = IF k = "deploy" /\ o.state = "absent" THEN inst.gen ELSE @]

\* What the mutate function of kind k makes of the object o.
Desired(k, o) ==
  [o EXCEPT !.state = IF @ = "absent" THEN "active" ELSE @,
            !.gen = IF k = "deploy" THEN inst.gen ELSE @]

\* Kinds whose mutate function overwrites fields the API server defaults: the
\* cached object always differs from the desired one and is sent.  The others
\* are left alone once they exist.
Overwritten == {"deploy", "svc"}

Creatable(k) ==
  /\ obj[k].state = "absent"
  /\ k # "ns" => obj["ns"].state = "active"

Updatable(k) ==
  /\ obj[k].state # "absent"
  /\ obj[k].ver = objCache[k].ver

\* controllerutil.CreateOrUpdate calls the API server for k ...
Needed(k) == objCache[k].state = "absent" \/ k \in Overwritten

\* ... which accepts the call: a Create of an object that does not exist, in a
\* namespace that is there to stay, an Update of the version the cache holds.
Accepted(k) == IF objCache[k].state = "absent" THEN Creatable(k)
                                               ELSE Updatable(k)

Apply(k) ==
  IF Desired(k, obj[k]) = obj[k] THEN UNCHANGED <<obj, objCache>>
                                 ELSE Put(k, Desired(k, obj[k]))

ReconcileChild(k) ==
  /\ pc = k
  /\ \/ /\ ~Needed(k)
        /\ Goto(After(k), inst)
        /\ UNCHANGED <<obj, objCache, budget>>
     \/ /\ Needed(k) /\ Accepted(k)
        /\ Apply(k)
        /\ Goto(After(k), inst)
        /\ UNCHANGED budget
     \/ /\ Needed(k) /\ ~Accepted(k)
        /\ Goto("failed", inst)
        /\ UNCHANGED <<obj, objCache, budget>>
     \/ /\ Needed(k) /\ Spend("fault")
        /\ Goto("failed", inst)
        /\ UNCHANGED <<obj, objCache>> \/ (Accepted(k) /\ Apply(k))
  /\ UNCHANGED <<cr, cache, watch, queued, timer, owed>>

\* The stored phase is Failed already, but for another reason: the message of
\* the condition, which Version leaves out, makes a new version.
Reworded ==
  /\ UpToDate(inst) /\ Observed("Failed") = cr
  /\ Spend("reword")
  /\ Store(Observed("Failed"))
  /\ Retry
  /\ UNCHANGED <<cache, obj, objCache, queued, owed>>

\* setFailed: whatever becomes of the status update, Reconcile returns an
\* error.
SetFailed ==
  /\ pc = "failed"
  /\ Write(Observed("Failed"), "idle", TRUE) \/ Reworded

\* Reconcile reads the deployment from its cache and decides on its readiness.
CheckReady ==
  /\ pc = "check"
  /\ \/ /\ objCache["deploy"].state = "absent"
        /\ Retry
     \/ /\ objCache["deploy"].state # "absent"
        /\ Goto(IF objCache["deploy"].ready THEN "running" ELSE "starting", inst)
        /\ UNCHANGED timer
  /\ UNCHANGED <<clusterVars, owed>>

\* Mutant: no RequeueAfter.
SetStartingOnce ==
  /\ pc = "starting"
  /\ Write(Observed("Starting"), "idle", FALSE)

\* RequeueAfter: 5s.
SetStarting ==
  /\ pc = "starting"
  /\ Write(Observed("Starting"), "idle", TRUE)

\* Mutant: wasRunning is not looked at.
SetRunningLoud ==
  /\ pc = "running"
  /\ Write(Observed("Running"), "notify", FALSE)

\* wasRunning is read from the local copy.
SetRunning ==
  /\ pc = "running"
  /\ Write(Observed("Running"),
           IF inst.phase = "Running" THEN "idle" ELSE "notify", FALSE)

\* NotifyInstanceReady: best effort, its failure is logged and forgotten.
Notify ==
  /\ pc = "notify"
  /\ Done
  /\ owed' = owed - 1
  /\ UNCHANGED clusterVars

SetTerminating ==
  /\ pc = "terminating"
  /\ Write(InPhase("Terminating"), "deleteNamespace", FALSE)

\* The API server takes the deletion of a namespace.
MarkNamespace ==
  IF obj["ns"].state = "active"
    THEN Put("ns", [obj["ns"] EXCEPT !.state = "terminating"])
    ELSE UNCHANGED <<obj, objCache>>

\* deleteUserNamespace: nothing to do if the cache has no namespace, NotFound
\* if the API server no longer has it.
DeleteNamespace ==
  /\ pc = "deleteNamespace"
  /\ \/ /\ objCache["ns"].state = "absent"
        /\ Goto("release", inst)
        /\ UNCHANGED <<obj, objCache, timer, budget>>
     \/ /\ objCache["ns"].state # "absent" /\ obj["ns"].state # "absent"
        /\ MarkNamespace
        /\ Goto("release", inst)
        /\ UNCHANGED <<timer, budget>>
     \/ /\ objCache["ns"].state # "absent" /\ obj["ns"].state = "absent"
        /\ Retry
        /\ UNCHANGED <<obj, objCache, budget>>
     \/ /\ objCache["ns"].state # "absent"
        /\ Spend("fault")
        /\ UNCHANGED <<obj, objCache>> \/ MarkNamespace
        /\ Retry
  /\ UNCHANGED <<cr, cache, watch, queued, owed>>

RemoveFinalizer ==
  /\ pc = "release"
  /\ Write([cr EXCEPT !.fin = FALSE], "idle", FALSE)

-----------------------------------------------------------------------------
(* Queue timer, crash *)

TimerFires ==
  /\ timer
  /\ timer' = FALSE
  /\ queued' = TRUE
  /\ UNCHANGED <<cr, cache, watch, obj, objCache, budget, pc, inst, owed>>

\* The operator stops anywhere and a new process takes the lease: it lists
\* every kind before it works, and the list enqueues the resource.
CrashRestart ==
  /\ Spend("crash")
  /\ cache' = cr
  /\ watch' = << >>
  /\ objCache' = obj
  /\ queued' = cr.live
  /\ pc' = "idle" /\ inst' = NoInst /\ timer' = FALSE
  /\ UNCHANGED <<cr, obj, owed>>

Worker ==
  \/ Begin
  \/ AddFinalizer
  \/ SetPending
  \/ SetCreating
  \/ \E k \in Kinds : ReconcileChild(k)
  \/ SetFailed
  \/ CheckReady
  \/ SetStarting
  \/ SetRunning
  \/ Notify
  \/ SetTerminating
  \/ DeleteNamespace
  \/ RemoveFinalizer

Environment ==
  \/ CreateInstance /\ UNCHANGED workerVars
  \/ EditConfig /\ UNCHANGED workerVars
  \/ DeleteInstance /\ UNCHANGED workerVars
  \/ Deliver /\ UNCHANGED workerVars
  \/ \E k \in Kinds : SyncChild(k) /\ UNCHANGED workerVars
  \/ Resync /\ UNCHANGED workerVars
  \/ \E k \in Contents : Purge(k) /\ UNCHANGED workerVars
  \/ NamespaceGone /\ UNCHANGED workerVars
  \/ PodReady /\ UNCHANGED workerVars
  \/ PodUnready /\ UNCHANGED workerVars

Next ==
  \/ Worker
  \/ Environment
  \/ TimerFires
  \/ CrashRestart

Spec == Init /\ [][Next]_vars

-----------------------------------------------------------------------------
(* Safety *)

\* While a reconcile builds the instance, the resource it works for is in the
\* API server and carries the finalizer, however stale the copy is and
\* whatever users do meanwhile: nothing is created that a later deletion of
\* the resource would not come across (finalizer before children, line 95).
FinalizerHeld ==
  pc \in BuildSteps => cr.live /\ cr.fin /\ cr.uid = inst.uid

\* The notification the reconcile in progress is about to send.
Due == IF pc = "notify" THEN 1 ELSE 0

\* No crash and no failed call so far.
Undisturbed == \A d \in {"crash", "fault"} : budget[d] = Budget[d]

\* A notification announces an entry of the stored phase into Running, each
\* entry at most once; one is missing only after a crash or a failed call
\* (wasRunning, line 150, is read from a copy that may be stale).
NoticesExact == owed >= Due /\ (Undisturbed => owed = Due)

\* Nothing will make the worker look at the resource again.
AtRest == pc = "idle" /\ ~queued /\ ~timer /\ watch = << >>

\* An instance is left alone only when it is Running: one that is Pending,
\* Starting, Failed or being deleted always has a retry or an event coming.
LeftAloneOnlyRunning == AtRest /\ cr.live => cr.phase = "Running" /\ ~cr.del

\* An edit always reaches the pod template, also when it is made in the middle
\* of a reconcile.
EditsReachTemplate ==
  AtRest /\ cr.live /\ obj["deploy"].state = "active"
    => obj["deploy"].gen = cr.gen

\* The operator deletes the namespace only on behalf of the resource that is in
\* the API server, and only while that one is being deleted: a deletion read
\* from a stale cache never takes down the namespace of a re-created instance.
NamespaceDeletedOnRequest ==
  [][ obj["ns"].state = "active" /\ obj'["ns"].state = "terminating"
        => cr.live /\ cr.del /\ cr.uid = inst.uid ]_vars

-----------------------------------------------------------------------------
(* Refinement *)

Life ==
  CASE ~cr.live          -> "absent"
    [] cr.live /\ cr.del -> "deleting"
    [] OTHER             -> IF cr.fin THEN "held" ELSE "requested"

Lifecycle == INSTANCE InstanceLifecycle
  WITH life <- Life, phase <- cr.phase, due <- owed,
       built <- (obj["ns"].state = "active")

\* The operator keeps the promises of InstanceLifecycle: phases only move
\* forward along its diagram, a deletion cannot be undone or overwritten, the
\* resource goes away only as Terminating, the namespace comes and goes only
\* with the resource, and every announcement was due.
ImplementsLifecycle == Lifecycle!Spec

-----------------------------------------------------------------------------
(* What the documentation says and the code does not guarantee *)

\* docs/usage.md:94: "Deletion removes the Kubernetes namespace and all
\* associated resources": with the resource gone and nothing left to do, the
\* namespace is gone or going.
DeletionRemovesNamespace ==
  AtRest /\ objCache = obj /\ ~cr.live => obj["ns"].state # "active"

\* docs/usage.md:70: "Once an instance reaches the Running phase, two access
\* methods are available": a Running instance nobody is about to look at has
\* a deployment.
RunningIsBacked ==
  AtRest /\ cr.live /\ cr.phase = "Running" => obj["deploy"].state = "active"

-----------------------------------------------------------------------------
(* Liveness *)

\* Client-go workers, informers and timers are always running; the namespace
\* controller finishes; a pod that can start becomes ready.  Disturbances and
\* users are under no obligation.
Fairness ==
  /\ WF_vars(Worker)
  /\ WF_vars(Deliver /\ UNCHANGED workerVars)
  /\ \A k \in Kinds : WF_vars(SyncChild(k) /\ UNCHANGED workerVars)
  /\ \A k \in Contents : WF_vars(Purge(k) /\ UNCHANGED workerVars)
  /\ WF_vars(NamespaceGone /\ UNCHANGED workerVars)
  /\ WF_vars(PodReady /\ UNCHANGED workerVars)
  /\ WF_vars(TimerFires)

FairSpec == Spec /\ Fairness

\* A requested deletion is carried out: the finalizer never holds the resource
\* for ever.
DeletionCompletes == cr.live /\ cr.del ~> ~cr.live

\* An instance that is not deleted becomes Running.
BecomesRunning == cr.live ~> cr.phase = "Running" \/ cr.del \/ ~cr.live

=============================================================================
