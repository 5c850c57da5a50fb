-------------------------- MODULE LifecycleProofs --------------------------
(* Reconciler implements InstanceLifecycle, for every Budget and every set  *)
(* Lagging: each step of the operator, of a user, of the namespace          *)
(* controller or of an informer is a step of the contract or leaves what    *)
(* the contract speaks of unchanged.                                        *)
EXTENDS ReconcilerProofs

LStep == [Lifecycle!Next]_(Lifecycle!vars)

Built == obj["ns"].state = "active"

-----------------------------------------------------------------------------
(* Steps of the contract, in terms of the refinement mapping *)

LEMMA LifeValue ==
  /\ ~cr.live => Life = "absent"
  /\ cr.live /\ cr.del => Life = "deleting"
  /\ cr.live /\ ~cr.del /\ cr.fin => Life = "held"
  /\ cr.live /\ ~cr.del /\ ~cr.fin => Life = "requested"
  BY DEF Life

LEMMA LifeStutter ==
  ASSUME UNCHANGED <<cr, owed>>, Built' = Built
  PROVE  LStep
<1>1. Life' = Life
  BY DEF Life
<1> QED
  BY <1>1 DEF LStep, Lifecycle!vars, Built

\* A change of the resource's phase, or of nothing the contract speaks of.
LEMMA LifeProgress ==
  ASSUME Life = "held", Life' = "held", Built' = Built,
         owed' = owed + Entered,
         cr'.phase = cr.phase \/ <<cr.phase, cr'.phase>> \in Lifecycle!Moves,
         owed \in Int
  PROVE  LStep
<1>1. CASE cr'.phase = cr.phase
  <2>1. owed' = owed
    BY <1>1 DEF Entered
  <2> QED
    BY <1>1, <2>1 DEF LStep, Lifecycle!vars, Built
<1>2. CASE cr'.phase # cr.phase /\ <<cr.phase, cr'.phase>> \in Lifecycle!Moves
  <2>1. owed' = owed + (IF cr'.phase = "Running" THEN 1 ELSE 0)
    BY <1>2 DEF Entered
  <2>2. Lifecycle!Progress
    BY <1>2, <2>1 DEF Lifecycle!Progress, Built
  <2> QED
    BY <2>2 DEF LStep, Lifecycle!Next
<1> QED
  BY <1>1, <1>2

\* What a write of the resource does to what the contract speaks of.
LEMMA WriteEffect ==
  ASSUME NEW STATE v, NEW STATE then, NEW again, Write(v, then, again)
  PROVE  /\ Built' = Built
         /\ \/ UNCHANGED <<cr, owed>>
            \/ UpToDate(inst) /\ Commit(v) /\ owed' = owed + Entered
  BY DEF Write, Written, Refused, WriteLost, Built

\* A status write on the way up.
LEMMA ProgressStep ==
  ASSUME Base, TypeOK', pc \in BuildSteps,
         NEW p \in Phases \ {"Terminating"},
         NEW STATE v, v = InPhase(p) \/ v = Observed(p),
         NEW STATE then, NEW again,
         then = "idle" \/ (then \in BuildSteps /\ then # "pending"
                            /\ (then = "creating" => p = "Pending")
                            /\ (then # "creating" => p \notin {"", "Pending"})),
         Write(v, then, again),
         inst.phase = p \/ <<inst.phase, p>> \in Lifecycle!Moves
  PROVE  LStep
<1>1. CASE UNCHANGED <<cr, owed>>
  BY <1>1, WriteEffect, LifeStutter
<1>2. CASE UpToDate(inst) /\ Commit(v) /\ owed' = owed + Entered
  <2>1. inst = cr /\ Kept(p)
    BY <1>2, BuildWrite
  <2>2. Builds(inst)
    BY DEF Base, StayInv, StepInv
  <2>3. Life = "held"
    BY <2>1, <2>2, LifeValue DEF Builds
  <2>4. cr'.live /\ cr'.fin /\ ~cr'.del /\ cr'.phase = p
    BY <2>1, <2>2 DEF Kept, Builds
  <2>5. Life' = "held"
    BY <2>4 DEF Life
  <2>6. Built' = Built
    BY WriteEffect
  <2>7. owed \in Int
    BY DEF Base, TypeOK
  <2> QED
    BY <1>2, <2>1, <2>3, <2>4, <2>5, <2>6, <2>7, LifeProgress
<1> QED
  BY <1>1, <1>2, WriteEffect

-----------------------------------------------------------------------------
(* The users and the cluster *)

LEMMA CreateMaps ==
  ASSUME Base, CreateInstance, UNCHANGED workerVars
  PROVE  LStep
<1> DEFINE v == [cr EXCEPT !.uid = @ + 1, !.live = TRUE]
<1>1. ~cr.live /\ Commit(v) /\ Built' = Built /\ owed' = owed
  BY DEF CreateInstance, Built, workerVars
<1>2. v.live = TRUE /\ v.fin = FALSE /\ v.del = FALSE /\ v.phase = ""
      /\ cr.phase = ""
  BY <1>1, GoneLive, HistoryType DEF Base, Version
<1>3. v # cr
  BY <1>1, <1>2
<1>4. cr' = [v EXCEPT !.rv = cr.rv + 1]
  BY <1>1, <1>2, <1>3 DEF Commit, Store, Stored
<1>5. cr'.live /\ ~cr'.fin /\ ~cr'.del /\ cr'.phase = ""
  BY <1>2, <1>4, HistoryType DEF Base, Version
<1>6. Life = "absent" /\ Life' = "requested"
  BY <1>1, <1>5 DEF Life
<1>7. Lifecycle!Request
  BY <1>1, <1>2, <1>5, <1>6 DEF Lifecycle!Request, Built
<1> QED
  BY <1>7 DEF LStep, Lifecycle!Next

LEMMA EditMaps ==
  ASSUME Base, EditConfig, UNCHANGED workerVars
  PROVE  LStep
<1> DEFINE v == [cr EXCEPT !.gen = @ + 1]
<1>1. cr.live /\ Commit(v) /\ Built' = Built /\ owed' = owed
  BY DEF EditConfig, Built, workerVars
<1>2. /\ v.live = cr.live /\ v.fin = cr.fin /\ v.del = cr.del
      /\ v.phase = cr.phase /\ (v.del => v.fin)
  BY <1>1, GoneLive, HistoryType DEF Base, Version, Sound
<1>3. cr' = cr \/ cr' = [v EXCEPT !.rv = cr.rv + 1]
  <2> HIDE DEF v
  <2> QED
    BY <1>1, <1>2 DEF Commit, Store, Stored
<1>4. /\ cr'.live = cr.live /\ cr'.fin = cr.fin /\ cr'.del = cr.del
      /\ cr'.phase = cr.phase
  BY <1>2, <1>3, HistoryType DEF Base, Version
<1>5. Life' = Life
  BY <1>4 DEF Life
<1> QED
  BY <1>1, <1>4, <1>5 DEF LStep, Lifecycle!vars, Built

LEMMA DeleteMaps ==
  ASSUME Base, DeleteInstance, UNCHANGED workerVars
  PROVE  LStep
<1> DEFINE v == [cr EXCEPT !.del = TRUE]
<1>1. cr.live /\ ~cr.del /\ Commit(v) /\ Built' = Built /\ owed' = owed
  BY DEF DeleteInstance, Built, workerVars
<1>2. /\ v.live = cr.live /\ v.fin = cr.fin /\ v.del /\ v.phase = cr.phase
      /\ v # cr
  BY <1>1, HistoryType DEF Base, Version
<1>3. cr' = Stored(v)
  BY <1>1, <1>2 DEF Commit, Store
<1>4. CASE cr.fin
  <2>1. cr' = [v EXCEPT !.rv = cr.rv + 1]
    BY <1>2, <1>3, <1>4 DEF Stored
  <2>2. cr'.live /\ cr'.del /\ cr'.phase = cr.phase
    BY <1>1, <1>2, <2>1, HistoryType DEF Base, Version
  <2>3. Life = "held" /\ Life' = "deleting"
    BY <1>1, <1>4, <2>2 DEF Life
  <2>4. Lifecycle!RequestDeletion
    BY <1>1, <2>2, <2>3 DEF Lifecycle!RequestDeletion, Built
  <2> QED
    BY <2>4 DEF LStep, Lifecycle!Next
<1>5. CASE ~cr.fin
  <2>1. cr' = Gone(cr.rv + 1, v.uid)
    BY <1>2, <1>3, <1>5 DEF Stored
  <2>2. ~cr'.live /\ cr'.phase = "" /\ cr.phase = ""
    BY <1>1, <1>5, <2>1, GoneLive DEF Base, Sound, Gone
  <2>3. Life = "requested" /\ Life' = "absent"
    BY <1>1, <1>5, <2>2 DEF Life
  <2>4. Lifecycle!Withdraw
    BY <1>1, <2>2, <2>3 DEF Lifecycle!Withdraw, Built
  <2> QED
    BY <2>4 DEF LStep, Lifecycle!Next
<1> QED
  BY <1>4, <1>5

\* The contents of the namespace are none of the contract's business.
LEMMA PutContents ==
  ASSUME Base, NEW k \in Contents, NEW STATE o, Put(k, o)
  PROVE  Built' = Built
<1>1. obj \in [Kinds -> Object] /\ "ns" \in Kinds /\ "ns" # k
  BY DEF Base, TypeOK, ClusterTypeOK, Kinds, Contents
<1> QED
  BY <1>1 DEF Put, Built, Contents

LEMMA PutNamespace ==
  ASSUME Base, NEW STATE o, o \in Object, Put("ns", o)
  PROVE  Built' = (o.state = "active")
<1>1. obj \in [Kinds -> Object] /\ "ns" \in Kinds
  BY DEF Base, TypeOK, ClusterTypeOK, Kinds
<1>2. obj'["ns"] = [o EXCEPT !.ver = obj["ns"].ver + 1]
  BY <1>1 DEF Put
<1>3. obj'["ns"].state = o.state
  BY <1>2 DEF Object
<1> QED
  BY <1>3 DEF Built

LEMMA EnvironmentMaps ==
  ASSUME Base, Environment
  PROVE  LStep
<1>1. CASE CreateInstance /\ UNCHANGED workerVars
  BY <1>1, CreateMaps
<1>2. CASE EditConfig /\ UNCHANGED workerVars
  BY <1>2, EditMaps
<1>3. CASE DeleteInstance /\ UNCHANGED workerVars
  BY <1>3, DeleteMaps
<1>4. CASE /\ Deliver \/ Resync \/ \E k \in Kinds : SyncChild(k)
           /\ UNCHANGED workerVars
  BY <1>4, LifeStutter DEF Deliver, Resync, SyncChild, workerVars, Built
<1>5. CASE \E k \in Contents : Purge(k) /\ UNCHANGED workerVars
  BY <1>5, PutContents, LifeStutter DEF Purge, workerVars
<1>6. CASE NamespaceGone /\ UNCHANGED workerVars
  <2>1. NoObject \in Object /\ NoObject.state = "absent"
    BY DEF NoObject, Object
  <2>2. ~Built
    <3>1. obj["ns"].state = "terminating"
      BY <1>6 DEF NamespaceGone
    <3> QED
      BY <3>1 DEF Built
  <2>3. Put("ns", NoObject) /\ UNCHANGED <<cr, owed>>
    BY <1>6 DEF NamespaceGone, workerVars
  <2>4. ~Built'
    <3>1. Built' = (NoObject.state = "active")
      BY <2>1, <2>3, PutNamespace
    <3> QED
      BY <2>1, <3>1
  <2>5. Built' = Built
    BY <2>2, <2>4 DEF Built
  <2> QED
    BY <2>3, <2>5, LifeStutter
<1>7. CASE (PodReady \/ PodUnready) /\ UNCHANGED workerVars
  <2>1. "deploy" \in Contents
    BY DEF Contents, Kinds
  <2> QED
    BY <1>7, <2>1, PutContents, LifeStutter DEF PodReady, PodUnready, workerVars
<1> QED
  BY <1>1, <1>2, <1>3, <1>4, <1>5, <1>6, <1>7 DEF Environment

-----------------------------------------------------------------------------
(* The worker *)

LEMMA AddFinalizerMaps ==
  ASSUME Base, AddFinalizer
  PROVE  LStep
<1> DEFINE v == [cr EXCEPT !.fin = TRUE]
<1>1. Write(v, BuildFrom(cr), FALSE) /\ pc = "adopt"
  BY DEF AddFinalizer
<1>2. /\ Built' = Built
      /\ \/ UNCHANGED <<cr, owed>>
         \/ UpToDate(inst) /\ Commit(v) /\ owed' = owed + Entered
  <2> HIDE DEF v
  <2> QED
    BY <1>1, WriteEffect
<1>3. CASE UNCHANGED <<cr, owed>>
  BY <1>2, <1>3, LifeStutter
<1>4. CASE UpToDate(inst) /\ Commit(v) /\ owed' = owed + Entered
  <2>1. cr = inst /\ cr.live /\ ~cr.fin /\ ~cr.del
    BY <1>1, <1>4, Current DEF Base, StayInv, StepInv
  <2>2. cr.phase = ""
    BY <2>1, GoneLive DEF Base, Sound
  <2>3. v.live /\ v.fin /\ ~v.del /\ v.phase = "" /\ v # cr
    BY <2>1, <2>2, HistoryType DEF Base, Version
  <2>4. cr' = [v EXCEPT !.rv = cr.rv + 1]
    BY <1>4, <2>3 DEF Commit, Store, Stored
  <2>5. cr'.live /\ cr'.fin /\ ~cr'.del /\ cr'.phase = ""
    BY <2>3, <2>4, HistoryType DEF Base, Version
  <2>6. Life = "requested" /\ Life' = "held"
    BY <2>1, <2>5 DEF Life
  <2>7. owed' = owed
    <3>1. Entered = 0 /\ owed \in Int
      BY <2>5 DEF Entered, Base, TypeOK
    <3> QED
      BY <1>4, <3>1
  <2>8. Lifecycle!Take
    BY <1>2, <2>2, <2>5, <2>6, <2>7 DEF Lifecycle!Take, Built
  <2> QED
    BY <2>8 DEF LStep, Lifecycle!Next
<1> QED
  BY <1>2, <1>3, <1>4

\* The phases a status write may follow on.
LEMMA MovesAllowed ==
  ASSUME Base, pc \in BuildSteps
  PROVE  /\ pc = "pending" => <<inst.phase, "Pending">> \in Lifecycle!Moves
         /\ pc = "creating" => <<inst.phase, "Creating">> \in Lifecycle!Moves
         /\ pc \notin {"pending", "creating"}
              => \A p \in {"Starting", "Running", "Failed"} :
                   <<inst.phase, p>> \in Lifecycle!Moves
<1>1. pc = "pending" => inst.phase = ""
  BY DEF Base, StayInv, StepInv
<1>2. pc = "creating" => inst.phase = "Pending"
  BY DEF Base, StayInv, StepInv
<1>3. pc \notin {"pending", "creating"}
        => inst.phase \in {"Creating", "Starting", "Running", "Failed"}
  BY HistoryType DEF Base, StayInv, StepInv, Version, Phases
<1> QED
  BY <1>1, <1>2, <1>3 DEF Lifecycle!Moves, Lifecycle!Settled

LEMMA ChildMaps ==
  ASSUME Base, NEW k \in Kinds, ReconcileChild(k)
  PROVE  LStep
<1>1. UNCHANGED <<cr, owed>>
  BY DEF ReconcileChild
<1>2. CASE UNCHANGED obj
  BY <1>1, <1>2, LifeStutter DEF Built
<1>3. CASE Put(k, Desired(k, obj[k])) /\ k \in Contents
  BY <1>1, <1>3, PutContents, LifeStutter
<1>4. CASE Put(k, Desired(k, obj[k])) /\ k = "ns" /\ Accepted(k) /\ Needed(k)
  <2>1. obj["ns"] \in Object /\ inst.gen \in Nat
    BY HistoryType DEF Base, TypeOK, ClusterTypeOK, Kinds, Version
  <2>2. Desired("ns", obj["ns"]) \in Object
    BY <2>1 DEF Desired, Object
  <2>3. obj["ns"].state = "absent"
    BY <1>4 DEF Accepted, Needed, Creatable, Overwritten
  <2>4. Desired("ns", obj["ns"]).state = "active"
    BY <2>1, <2>3 DEF Desired, Object
  <2>5. Built'
    BY <1>4, <2>2, <2>4, PutNamespace
  <2>6. cr.live /\ cr.fin
    BY DEF Base, StayInv, FinalizerHeld, ReconcileChild, BuildSteps
  <2>7. Life \in {"held", "deleting"} /\ Life' = Life
    BY <1>1, <2>6 DEF Life
  <2>8. Lifecycle!Build
    BY <1>1, <2>5, <2>7 DEF Lifecycle!Build, Built
  <2> QED
    BY <2>8 DEF LStep, Lifecycle!Next
<1>5. UNCHANGED obj \/ (Needed(k) /\ Accepted(k) /\ Apply(k))
  BY DEF ReconcileChild
<1> QED
  BY <1>2, <1>3, <1>4, <1>5 DEF Apply, Contents

LEMMA RewordedMaps ==
  ASSUME Base, TypeOK', pc = "failed", Reworded
  PROVE  LStep
<1>1. TypeOK /\ HistoryInv /\ StayInv
  BY DEF Base
<1>2. inst = cr /\ cr.live /\ cr.fin /\ ~cr.del
  BY <1>1, Current DEF Reworded, StayInv, StepInv, Builds, BuildSteps
<1>3. Store(Observed("Failed")) /\ UNCHANGED <<cache, owed>> /\ Built' = Built
  BY DEF Reworded, Built
<1>4. cr.phase = "Failed"
  BY HistoryType, <1>1 DEF Reworded, Observed, InPhase, Version
<1>5. Kept("Failed")
  BY <1>1, <1>2, <1>3, PhaseStore DEF Phases
<1>6. cr'.phase = cr.phase /\ Life' = Life
  BY <1>2, <1>4, <1>5 DEF Kept, Life
<1> QED
  BY <1>3, <1>6 DEF LStep, Lifecycle!vars, Built

LEMMA StatusMaps ==
  ASSUME Base, TypeOK',
         SetPending \/ SetCreating \/ SetFailed \/ SetStarting \/ SetRunning
  PROVE  LStep
<1>1. CASE SetPending
  <2>1. /\ Write(InPhase("Pending"), "creating", FALSE) /\ pc = "pending"
        /\ "Pending" \in Phases \ {"Terminating"}
        /\ pc \in BuildSteps /\ "creating" \in BuildSteps
    BY <1>1 DEF SetPending, Phases, BuildSteps
  <2> QED
    BY <2>1, MovesAllowed, ProgressStep
<1>2. CASE SetCreating
  <2>1. /\ Write(InPhase("Creating"), "ns", FALSE) /\ pc = "creating"
        /\ "Creating" \in Phases \ {"Terminating"}
        /\ pc \in BuildSteps /\ "ns" \in BuildSteps
    BY <1>2 DEF SetCreating, Phases, BuildSteps, Kinds
  <2> QED
    BY <2>1, MovesAllowed, ProgressStep
<1>3. CASE SetFailed
  <2>1. /\ pc = "failed" /\ pc \in BuildSteps
        /\ "Failed" \in Phases \ {"Terminating"}
    BY <1>3 DEF SetFailed, Phases, BuildSteps
  <2>2. CASE Write(Observed("Failed"), "idle", TRUE)
    BY <2>1, <2>2, MovesAllowed, ProgressStep
  <2> QED
    BY <1>3, <2>1, <2>2, RewordedMaps DEF SetFailed
<1>4. CASE SetStarting
  <2>1. /\ Write(Observed("Starting"), "idle", TRUE) /\ pc = "starting"
        /\ "Starting" \in Phases \ {"Terminating"} /\ pc \in BuildSteps
    BY <1>4 DEF SetStarting, Phases, BuildSteps
  <2> QED
    BY <2>1, MovesAllowed, ProgressStep
<1>5. CASE SetRunning
  <2> DEFINE then == IF inst.phase = "Running" THEN "idle" ELSE "notify"
  <2>1. /\ Write(Observed("Running"), then, FALSE) /\ pc = "running"
        /\ "Running" \in Phases \ {"Terminating"} /\ pc \in BuildSteps
    BY <1>5 DEF SetRunning, Phases, BuildSteps
  <2>2. then = "idle" \/ (then = "notify" /\ then \in BuildSteps)
    BY DEF BuildSteps
  <2> HIDE DEF then
  <2> QED
    BY <2>1, <2>2, MovesAllowed, ProgressStep
<1> QED
  BY <1>1, <1>2, <1>3, <1>4, <1>5

LEMMA NotifyMaps ==
  ASSUME IInv, Notify
  PROVE  LStep
<1>1. owed >= 1 /\ owed \in Int /\ owed' = owed - 1
  BY DEF IInv, NoticeInv, NoticesExact, Due, Notify, Base, TypeOK
<1>2. UNCHANGED cr /\ Built' = Built /\ Life' = Life
  BY DEF Notify, clusterVars, Built, Life
<1>3. Lifecycle!Announce
  BY <1>1, <1>2 DEF Lifecycle!Announce, Built
<1> QED
  BY <1>3 DEF LStep, Lifecycle!Next

LEMMA TerminatingMaps ==
  ASSUME Base, TypeOK', SetTerminating
  PROVE  LStep
<1>1. TypeOK /\ HistoryInv /\ StayInv /\ pc = "terminating"
      /\ Write(InPhase("Terminating"), "deleteNamespace", FALSE)
      /\ UNCHANGED cache
  BY DEF Base, SetTerminating, Write
<1>2. CASE UNCHANGED <<cr, owed>>
  BY <1>1, <1>2, WriteEffect, LifeStutter
<1>3. CASE /\ UpToDate(inst) /\ Commit(InPhase("Terminating"))
           /\ owed' = owed + Entered
  <2>1. cr.live /\ cr.fin /\ cr.del
    BY <1>1, <1>3, Current DEF StayInv, StepInv, DeletionSteps
  <2>2. Kept("Terminating")
    BY <1>1, <1>3, <2>1, PhaseCommit DEF Phases
  <2>3. Life = "deleting" /\ Life' = "deleting" /\ cr'.phase = "Terminating"
    BY <2>1, <2>2 DEF Kept, Life
  <2>4. owed' = owed
    <3>1. Entered = 0 /\ owed \in Int
      BY <2>3 DEF Entered, Base, TypeOK
    <3> QED
      BY <1>3, <3>1
  <2>5. Built' = Built
    BY <1>1, WriteEffect
  <2>6. Lifecycle!Terminate
    BY <2>3, <2>4, <2>5 DEF Lifecycle!Terminate, Built
  <2> QED
    BY <2>6 DEF LStep, Lifecycle!Next
<1> QED
  BY <1>1, <1>2, <1>3, WriteEffect

LEMMA NamespaceMaps ==
  ASSUME Base, TerminatingInv, DeleteNamespace
  PROVE  LStep
<1>1. UNCHANGED <<cr, owed>> /\ pc = "deleteNamespace"
  BY DEF DeleteNamespace
<1>2. CASE Built' = Built
  BY <1>1, <1>2, LifeStutter
<1>3. CASE Put("ns", [obj["ns"] EXCEPT !.state = "terminating"])
  <2>1. /\ [obj["ns"] EXCEPT !.state = "terminating"] \in Object
        /\ [obj["ns"] EXCEPT !.state = "terminating"].state = "terminating"
    BY DEF Base, TypeOK, ClusterTypeOK, Kinds, Object
  <2>2. ~Built'
    BY <1>3, <2>1, PutNamespace
  <2>3. Life = "deleting" /\ Life' = "deleting" /\ cr.phase = "Terminating"
    BY <1>1 DEF Base, StayInv, FenceInv, TerminatingInv, Life
  <2>4. Lifecycle!Raze
    BY <1>1, <2>2, <2>3 DEF Lifecycle!Raze, Built
  <2> QED
    BY <2>4 DEF LStep, Lifecycle!Next
<1>4. UNCHANGED obj \/ MarkNamespace
  BY DEF DeleteNamespace
<1> QED
  BY <1>2, <1>3, <1>4 DEF MarkNamespace, Built

LEMMA ReleaseMaps ==
  ASSUME Base, RemoveFinalizer
  PROVE  LStep
<1> DEFINE v == [cr EXCEPT !.fin = FALSE]
<1>1. Write(v, "idle", FALSE) /\ pc = "release"
  BY DEF RemoveFinalizer
<1>2. /\ Built' = Built
      /\ \/ UNCHANGED <<cr, owed>>
         \/ UpToDate(inst) /\ Commit(v) /\ owed' = owed + Entered
  <2> HIDE DEF v
  <2> QED
    BY <1>1, WriteEffect
<1>3. CASE UNCHANGED <<cr, owed>>
  BY <1>2, <1>3, LifeStutter
<1>4. CASE UpToDate(inst) /\ Commit(v) /\ owed' = owed + Entered
  <2>1. cr = inst /\ cr.live /\ cr.fin /\ cr.del /\ cr.phase = "Terminating"
    BY <1>1, <1>4, Current DEF Base, StayInv, FenceInv
  <2>2. v.del /\ ~v.fin /\ v # cr
    BY <2>1, HistoryType DEF Base, Version
  <2>3. cr' = Gone(cr.rv + 1, v.uid)
    BY <1>4, <2>2 DEF Commit, Store, Stored
  <2>4. ~cr'.live /\ cr'.phase = ""
    BY <2>3, GoneFields
  <2>5. Life = "deleting" /\ Life' = "absent"
    BY <2>1, <2>4 DEF Life
  <2>6. owed' = owed
    <3>1. Entered = 0 /\ owed \in Int
      BY <2>4 DEF Entered, Base, TypeOK
    <3> QED
      BY <1>4, <3>1
  <2>7. Lifecycle!Release
    BY <1>2, <2>1, <2>4, <2>5, <2>6 DEF Lifecycle!Release, Built
  <2> QED
    BY <2>7 DEF LStep, Lifecycle!Next
<1> QED
  BY <1>2, <1>3, <1>4

-----------------------------------------------------------------------------
(* The refinement *)

LEMMA StepMaps ==
  ASSUME IInv, [Next]_vars
  PROVE  LStep
<1>0. Base /\ TerminatingInv /\ TypeOK'
  BY BaseStep DEF IInv, Base
<1>1. CASE Begin
  BY <1>1, LifeStutter DEF Begin, Built
<1>2. CASE AddFinalizer
  BY <1>0, <1>2, AddFinalizerMaps
<1>3. CASE SetPending \/ SetCreating \/ SetFailed \/ SetStarting \/ SetRunning
  BY <1>0, <1>3, StatusMaps
<1>4. CASE \E k \in Kinds : ReconcileChild(k)
  BY <1>0, <1>4, ChildMaps
<1>5. CASE CheckReady
  BY <1>5, LifeStutter DEF CheckReady, clusterVars, Built
<1>6. CASE Notify
  BY <1>6, NotifyMaps
<1>7. CASE SetTerminating
  BY <1>0, <1>7, TerminatingMaps
<1>8. CASE DeleteNamespace
  BY <1>0, <1>8, NamespaceMaps
<1>9. CASE RemoveFinalizer
  BY <1>0, <1>9, ReleaseMaps
<1>10. CASE Environment
  BY <1>0, <1>10, EnvironmentMaps
<1>11. CASE TimerFires \/ CrashRestart
  BY <1>11, LifeStutter DEF TimerFires, CrashRestart, Built
<1>12. CASE UNCHANGED vars
  BY <1>12, LifeStutter DEF vars, clusterVars, workerVars, Built
<1> QED
  BY <1>1, <1>2, <1>3, <1>4, <1>5, <1>6, <1>7, <1>8, <1>9, <1>10, <1>11, <1>12
  DEF Next, Worker

\* The operator implements the contract: phases move along the diagram, a
\* deletion is final, the namespace comes and goes with the resource only, and
\* every announcement was due, whatever caches lag and whatever fails.
THEOREM LifecycleCorrect == Spec => ImplementsLifecycle
<1>1. Init => Lifecycle!Init
  <2> SUFFICES ASSUME Init PROVE Lifecycle!Init
    OBVIOUS
  <2>1. ~cr.live /\ cr.phase = "" /\ owed = 0
    BY DEF Init, ClusterInit, Gone
  <2>2. obj["ns"].state = "absent"
    BY DEF Init, ClusterInit, NoObject, Kinds
  <2>3. Life = "absent"
    BY <2>1 DEF Life
  <2> QED
    BY <2>1, <2>2, <2>3 DEF Lifecycle!Init
<1>2. IInv /\ [Next]_vars => [Lifecycle!Next]_(Lifecycle!vars)
  BY StepMaps DEF LStep
<1> QED
  BY <1>1, <1>2, Invariance, PTL DEF Spec, Lifecycle!Spec, ImplementsLifecycle

=============================================================================
