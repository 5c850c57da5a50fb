------------------------------ MODULE Cluster ------------------------------
(***************************************************************************)
(* The Kubernetes cluster as the clawbake operator and the web server use  *)
(* it: one ClawInstance custom resource (api/v1alpha1/types.go) in the API *)
(* server, the five child objects the operator creates for it, and the     *)
(* informer caches through which the operator reads both                   *)
(* (cmd/operator/main.go passes mgr.GetClient() to the reconciler: reads   *)
(* come from the caches, writes go to the API server).                     *)
(*                                                                         *)
(* Covered: optimistic concurrency by resourceVersion, finalizers and      *)
(* deletionTimestamp, watch events delivered one by one, child caches that *)
(* lag, namespace termination object by object, pod readiness, and what    *)
(* users do to the resource through the server.                            *)
(*                                                                         *)
(* One ClawInstance name is modelled.  The operator's workqueue never runs *)
(* two reconciles of one key at once and no state is shared between keys,  *)
(* so instances of different names do not interact.                        *)
(*                                                                         *)
(* Not covered: the contents of specs other than ConfigGeneration, status  *)
(* conditions other than the generation they observed, RBAC.               *)
(***************************************************************************)
EXTENDS Integers, Sequences

CONSTANTS
  Lagging,  \* the kinds whose informer may be behind the API server
  Budget    \* how often each disturbance may happen in a behaviour

VARIABLES
  cr,        \* the ClawInstance in the API server, a Version
  cache,     \* the operator's informer copy of cr
  watch,     \* versions committed and not yet delivered to the informer
  obj,       \* [Kinds -> Object]: the child objects in the API server
  objCache,  \* [Kinds -> Object]: the operator's informer copies of obj
  queued,    \* the key is in the workqueue (or marked dirty while in work)
  budget     \* the disturbances still allowed

clusterVars == <<cr, cache, watch, obj, objCache, queued, budget>>

-----------------------------------------------------------------------------
(* Types *)

Phases == {"", "Pending", "Creating", "Starting", "Running", "Failed",
           "Terminating"}

\* The children, in the order Reconcile visits them.
Kinds == {"ns", "pvc", "deploy", "svc", "np"}
Contents == Kinds \ {"ns"}

\* One version of the custom resource.  "rv" is metadata.resourceVersion,
\* "uid" tells the incarnations of the name apart, "live" is FALSE in the
\* version that records the object's absence, "obs" is the generation the
\* status condition observed (0: no condition yet).
Version ==
  [rv: Nat, uid: Nat, live: BOOLEAN, fin: BOOLEAN, del: BOOLEAN,
   gen: Nat, phase: Phases, obs: Nat]

\* One version of a child.  "gen" is the ConfigGeneration in the pod
\* template and "ready" says ReadyReplicas >= 1 (both for "deploy" only).
Object ==
  [ver: Nat, state: {"absent", "active", "terminating"},
   gen: Nat, ready: BOOLEAN]

Disturbances ==
  {"create", "edit", "fault", "crash", "unready", "resync", "reword"}

ASSUME LaggingAssumption == Lagging \subseteq Kinds
ASSUME BudgetAssumption == Budget \in [Disturbances -> Nat]

ClusterTypeOK ==
  /\ cr \in Version
  /\ cache \in Version
  /\ watch \in Seq(Version)
  /\ obj \in [Kinds -> Object]
  /\ objCache \in [Kinds -> Object]
  /\ queued \in BOOLEAN
  /\ budget \in [Disturbances -> Nat]

-----------------------------------------------------------------------------
(* The API server *)

\* The absence of the object after incarnation u.
Gone(n, u) ==
  [rv |-> n, uid |-> u, live |-> FALSE, fin |-> FALSE, del |-> FALSE,
   gen |-> 0, phase |-> "", obs |-> 0]

NoObject == [ver |-> 0, state |-> "absent", gen |-> 0, ready |-> FALSE]

ClusterInit ==
  /\ cr = Gone(0, 0)
  /\ cache = cr
  /\ watch = << >>
  /\ obj = [k \in Kinds |-> NoObject]
  /\ objCache = obj
  /\ queued = FALSE
  /\ budget = Budget

Spend(d) == budget[d] > 0 /\ budget' = [budget EXCEPT ![d] = @ - 1]

\* The API server stores v as the next version and every watcher will hear of
\* it.  An update that changes nothing is not stored; an object that is being
\* deleted goes away with its last finalizer.
Stored(v) ==
  IF v.del /\ ~v.fin THEN Gone(cr.rv + 1, v.uid)
                     ELSE [v EXCEPT !.rv = cr.rv + 1]

Store(v) == cr' = Stored(v) /\ watch' = Append(watch, Stored(v))

Commit(v) ==
  \/ v = cr /\ UNCHANGED <<cr, watch>>
  \/ v # cr /\ Store(v)

\* A write that carries the version v is accepted only against that version.
UpToDate(v) == cr.live /\ v.rv = cr.rv

\* A child becomes o; the informer of a kind that does not lag sees it at once.
Put(k, o) ==
  /\ obj' = [obj EXCEPT ![k] = [o EXCEPT !.ver = obj[k].ver + 1]]
  /\ objCache' = IF k \in Lagging THEN objCache
                                  ELSE [objCache EXCEPT ![k] = obj'[k]]

-----------------------------------------------------------------------------
(* What users do through the web server or the bot *)

\* k8s.Client.CreateInstance: AlreadyExists unless the name is free.
CreateInstance ==
  /\ ~cr.live
  /\ Spend("create")
  /\ Commit([cr EXCEPT !.uid = @ + 1, !.live = TRUE])
  /\ UNCHANGED <<cache, obj, objCache, queued>>

\* PageUpdateInstanceConfig: a new config and ConfigGeneration + 1.  Nothing
\* in the handler keeps a user from editing an instance being deleted.
EditConfig ==
  /\ cr.live
  /\ Spend("edit")
  /\ Commit([cr EXCEPT !.gen = @ + 1])
  /\ UNCHANGED <<cache, obj, objCache, queued>>

\* k8s.Client.DeleteInstance: the finalizer turns the deletion into a request.
DeleteInstance ==
  /\ cr.live /\ ~cr.del
  /\ Commit([cr EXCEPT !.del = TRUE])
  /\ UNCHANGED <<cache, obj, objCache, queued, budget>>

-----------------------------------------------------------------------------
(* Informers and workqueue *)

\* SetupWithManager registers For(&ClawInstance{}) with no predicates: every
\* event of the resource, and of nothing else, enqueues its key.
Deliver ==
  /\ watch # << >>
  /\ cache' = Head(watch)
  /\ watch' = Tail(watch)
  /\ queued' = TRUE
  /\ UNCHANGED <<cr, obj, objCache, budget>>

\* A child informer catches up.  Nothing is enqueued: there is no Owns().
SyncChild(k) ==
  /\ objCache[k] # obj[k]
  /\ objCache' = [objCache EXCEPT ![k] = obj[k]]
  /\ UNCHANGED <<cr, cache, watch, obj, queued, budget>>

\* The periodic resync hands every cached resource to the queue again.
Resync ==
  /\ cache.live /\ ~queued
  /\ Spend("resync")
  /\ queued' = TRUE
  /\ UNCHANGED <<cr, cache, watch, obj, objCache>>

-----------------------------------------------------------------------------
(* The namespace controller and the kubelet *)

\* A terminating namespace loses its contents one object at a time ...
Purge(k) ==
  /\ obj["ns"].state = "terminating"
  /\ k \in Contents /\ obj[k].state = "active"
  /\ Put(k, NoObject)
  /\ UNCHANGED <<cr, cache, watch, queued, budget>>

\* ... and then goes away itself.
NamespaceGone ==
  /\ obj["ns"].state = "terminating"
  /\ \A k \in Contents : obj[k].state = "absent"
  /\ Put("ns", NoObject)
  /\ UNCHANGED <<cr, cache, watch, queued, budget>>

\* A pod starts only in an active namespace and with its volume claim.
PodReady ==
  /\ \A k \in {"ns", "pvc", "deploy"} : obj[k].state = "active"
  /\ ~obj["deploy"].ready
  /\ Put("deploy", [obj["deploy"] EXCEPT !.ready = TRUE])
  /\ UNCHANGED <<cr, cache, watch, queued, budget>>

\* The readiness probe fails, or the pod is evicted.
PodUnready ==
  /\ obj["deploy"].ready
  /\ Spend("unready")
  /\ Put("deploy", [obj["deploy"] EXCEPT !.ready = FALSE])
  /\ UNCHANGED <<cr, cache, watch, queued>>

=============================================================================
