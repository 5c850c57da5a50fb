--------------------------- MODULE ReconcilerInv ---------------------------
(***************************************************************************)
(* The inductive invariant behind the safety properties of Reconciler.     *)
(*                                                                         *)
(* The properties speak of the resource in the API server and of the copy  *)
(* a reconcile works on.  What connects the two is what lies between: the  *)
(* versions the informer has delivered or has yet to deliver.  They form a *)
(* history, oldest first, from the cached version to the current one.      *)
(***************************************************************************)
EXTENDS Reconciler

\* The history: position 0 is the cache, the last position the API server.
Last == Len(watch)
V(i) == IF i = 0 THEN cache ELSE watch[i]

\* The incarnation is on its way out.
Dying(v) == v.del \/ ~v.live

\* w is a later version than v: a new incarnation, or the same one, and then
\* a deletion asked for in v is not taken back.
Ages(v, w) ==
  /\ v.rv < w.rv
  /\ v.uid <= w.uid
  /\ v.uid = w.uid /\ Dying(v) => Dying(w)

\* Each version makes sense on its own.
Sound(v) ==
  /\ ~v.live => v = Gone(v.rv, v.uid)
  /\ v.live /\ v.del => v.fin
  /\ v.live /\ ~v.del => v.phase # "Terminating"
  /\ v.live /\ ~v.fin => v.phase = ""

\* The version lets a reconcile build: it is held and not being deleted.
Builds(v) == v.live /\ v.fin /\ ~v.del

HistoryInv ==
  /\ \A i \in 0 .. Last : i = Last => V(i) = cr
  /\ \A i, j \in 0 .. Last : i < j => Ages(V(i), V(j))
  /\ \A i \in 0 .. Last : Sound(V(i))

\* Any version a reconcile may still read and build from is a version of the
\* incarnation in the API server, which has kept its finalizer.
HeldInv ==
  \A i \in 0 .. Last :
    Builds(V(i)) => cr.live /\ cr.fin /\ cr.uid = V(i).uid

\* The copy in work is no newer than the resource; with the same version it
\* is the resource.
CopyInv ==
  pc # "idle" =>
    inst.rv <= cr.rv /\ inst.uid <= cr.uid /\ (inst.rv = cr.rv => inst = cr)

\* What a reconcile knows of its copy at each step.
StepInv ==
  /\ pc = "adopt" => inst.live /\ ~inst.fin /\ ~inst.del
  /\ pc \in BuildSteps => Builds(inst) /\ inst.phase # "Terminating"
  /\ pc = "pending" => inst.phase = ""
  /\ pc = "creating" => inst.phase = "Pending"
  /\ pc \in BuildSteps \ {"pending", "creating"}
       => inst.phase \notin {"", "Pending"}
  /\ pc \in DeletionSteps => inst.live /\ inst.fin /\ inst.del

\* A reconcile that deletes has seen the deletion, so every version it may
\* read later of this incarnation shows it too ...
DeletionInv ==
  pc \in DeletionSteps =>
    \A i \in 0 .. Last : V(i).uid = inst.uid => Dying(V(i))

\* ... and once its first write, the phase Terminating, went through, it is
\* the resource in the API server that is being deleted.
FenceInv ==
  pc \in {"deleteNamespace", "release"} =>
    /\ cr.live /\ cr.del /\ cr.fin /\ cr.uid = inst.uid
    /\ inst.phase = "Terminating"

\* Users may still edit the resource then, but not its phase.
TerminatingInv ==
  pc \in {"deleteNamespace", "release"} => cr.phase = "Terminating"

NoticeInv ==
  /\ \A d \in Disturbances : budget[d] <= Budget[d]
  /\ NoticesExact

\* The worker is, or will be, at a step before its last.
Awake == queued \/ timer \/ watch # << >> \/ pc \notin {"idle", "notify"}

\* Somebody will look at a resource that is not settled.
WakeInv == cr.live /\ (cr.phase # "Running" \/ cr.del) => Awake

\* Past the deployment, the template is of the generation the reconcile works
\* for; nobody else writes it.
TemplateInv ==
  pc \in {"svc", "np", "check", "starting", "running"}
    /\ obj["deploy"].state = "active" => obj["deploy"].gen = inst.gen

\* Somebody will look at a resource whose edits the template does not have.
EditInv ==
  cr.live /\ obj["deploy"].state = "active" /\ obj["deploy"].gen # cr.gen => Awake

\* What a reconcile may rely on between two of its calls.
StayInv == FinalizerHeld /\ CopyInv /\ StepInv /\ DeletionInv /\ FenceInv

Base == TypeOK /\ HistoryInv /\ HeldInv /\ StayInv

\* The inductive invariant: each of the properties needs the others.
IInv ==
  /\ Base /\ TerminatingInv /\ NoticeInv /\ WakeInv
  /\ TemplateInv /\ EditInv

-----------------------------------------------------------------------------
(* When the documentation is right                                         *)

\* With a namespace informer that keeps up, the finalizer stays on for as long as
\* the namespace does: the worker that removes it has seen all there is to delete.
NamespaceInv ==
  /\ objCache["ns"] = obj["ns"]
  /\ obj["ns"].state = "active" => cr.live /\ cr.fin
  /\ pc = "release" => obj["ns"].state # "active"

\* While a name is in use for the first time, its namespace terminates for a
\* deletion of that one resource, and until then the deployment stays.
FirstUseInv ==
  cr.uid <= 1 =>
    /\ cr.live => cr.uid = 1
    /\ obj["deploy"].state # "terminating"
    /\ obj["ns"].state = "terminating" => cr.uid = 1 /\ (~cr.live \/ cr.del)
    /\ cr.live /\ ~cr.del
         /\ (pc \in {"svc", "np", "check", "starting", "running"} \/ cr.phase = "Running")
         => obj["deploy"].state = "active"

=============================================================================
