---------------------------- MODULE MCReconciler ----------------------------
(* Instances of Reconciler for TLC.                                        *)
EXTENDS ReconcilerInv

Quiet == [d \in Disturbances |-> 0]

\* The name is used twice, a periodic resync happens somewhere, and a reconcile
\* fails again for another reason; the namespace informer lags.
RecreateBudget ==
  [Quiet EXCEPT !["create"] = 2, !["resync"] = 1, !["reword"] = 1]

\* One instance, its config edited once, with a failed call, a crash of the
\* operator and a pod that loses its readiness; the deployment informer lags.
DisturbedBudget ==
  [Quiet EXCEPT !["create"] = 1, !["edit"] = 1, !["fault"] = 1,
                !["crash"] = 1, !["unready"] = 1]

\* For liveness: every source of a retry once.
RetryBudget == [Quiet EXCEPT !["create"] = 1, !["edit"] = 1, !["fault"] = 1]

NamespaceLags == {"ns"}
DeploymentLags == {"deploy"}
NothingLags == {}
=============================================================================
