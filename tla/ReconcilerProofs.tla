-------------------------- MODULE ReconcilerProofs --------------------------
(* Proofs about Reconciler, for every Budget and every set Lagging.         *)
EXTENDS ReconcilerInv, TLAPS

-----------------------------------------------------------------------------
(* Type correctness *)

LEMMA GoneType ==
  ASSUME NEW n \in Nat, NEW u \in Nat
  PROVE  Gone(n, u) \in Version
  BY DEF Gone, Version, Phases

LEMMA StoreType ==
  ASSUME ClusterTypeOK, NEW STATE v, v \in Version, Store(v)
  PROVE  cr' \in Version /\ watch' \in Seq(Version)
<1>1. cr.rv + 1 \in Nat /\ v.uid \in Nat
  BY DEF ClusterTypeOK, Version
<1>2. [v EXCEPT !.rv = cr.rv + 1] \in Version
  BY <1>1 DEF Version
<1>3. Stored(v) \in Version
  BY <1>1, <1>2, GoneType DEF Stored
<1> QED
  BY <1>3 DEF Store, ClusterTypeOK

LEMMA CommitType ==
  ASSUME ClusterTypeOK, NEW STATE v, v \in Version, Commit(v)
  PROVE  cr' \in Version /\ watch' \in Seq(Version)
  BY StoreType DEF Commit, ClusterTypeOK

LEMMA PutType ==
  ASSUME ClusterTypeOK, NEW k \in Kinds, NEW STATE o, o \in Object, Put(k, o)
  PROVE  obj' \in [Kinds -> Object] /\ objCache' \in [Kinds -> Object]
<1>1. obj[k].ver + 1 \in Nat
  BY DEF ClusterTypeOK, Object
<1>2. [o EXCEPT !.ver = obj[k].ver + 1] \in Object
  BY <1>1 DEF Object
<1>3. obj' \in [Kinds -> Object]
  BY <1>2 DEF Put, ClusterTypeOK
<1> QED
  BY <1>3 DEF Put, ClusterTypeOK

LEMMA SpendType ==
  ASSUME ClusterTypeOK, NEW d \in Disturbances, Spend(d)
  PROVE  budget' \in [Disturbances -> Nat]
  BY DEF Spend, ClusterTypeOK

LEMMA GotoType ==
  ASSUME NEW STATE s, s \in Steps, NEW ACTION v, v \in Version, Goto(s, v)
  PROVE  pc' \in Steps /\ inst' \in Version
  BY GoneType DEF Goto, NoInst

LEMMA RetryType ==
  ASSUME TypeOK, Retry
  PROVE  pc' \in Steps /\ inst' \in Version /\ timer' \in BOOLEAN
<1>1. "idle" \in Steps
  BY DEF Steps
<1> QED
  BY <1>1, GotoType DEF Retry, TypeOK

LEMMA EntryType ==
  ASSUME NEW STATE v, v \in Version
  PROVE  BuildFrom(v) \in Steps /\ Entry(v) \in Steps
  BY DEF BuildFrom, Entry, Steps, BuildSteps, DeletionSteps, Version, Kinds

LEMMA InPhaseType ==
  ASSUME TypeOK, NEW p \in Phases
  PROVE  InPhase(p) \in Version /\ Observed(p) \in Version
<1>1. InPhase(p) \in Version
  BY DEF InPhase, TypeOK, ClusterTypeOK, Version
<1>2. inst.gen + 1 \in Nat
  BY DEF TypeOK, Version
<1> QED
  BY <1>1, <1>2 DEF Observed, Version

\* What a failed or a successful write does to the types.
LEMMA WriteType ==
  ASSUME TypeOK, NEW STATE v, v \in Version, NEW STATE s, s \in Steps,
         NEW again \in BOOLEAN, Write(v, s, again)
  PROVE  TypeOK'
<1>1. /\ Commit(v) => cr' \in Version /\ watch' \in Seq(Version)
      /\ UNCHANGED <<cr, watch>> => cr' \in Version /\ watch' \in Seq(Version)
  BY CommitType DEF TypeOK, ClusterTypeOK
<1>2. Entered \in Int
  BY DEF Entered
<1>3. Spend("fault") => budget' \in [Disturbances -> Nat]
  BY SpendType DEF TypeOK, Disturbances
<1>4. CASE Written(v, s, again) /\ UNCHANGED <<cache, obj, objCache, queued>>
  <2>1. pc' \in Steps /\ inst' \in Version
    BY <1>1, <1>4, GotoType DEF Written
  <2>2. timer' \in BOOLEAN
    BY <1>4 DEF Written, TypeOK
  <2> QED
    BY <1>1, <1>2, <1>4, <2>1, <2>2 DEF Written, TypeOK, ClusterTypeOK
<1>5. CASE Refused /\ UNCHANGED <<cache, obj, objCache, queued>>
  BY <1>5, RetryType DEF Refused, TypeOK, ClusterTypeOK
<1>6. CASE WriteLost(v) /\ UNCHANGED <<cache, obj, objCache, queued>>
  BY <1>1, <1>2, <1>3, <1>6, RetryType DEF WriteLost, TypeOK, ClusterTypeOK
<1> QED
  BY <1>4, <1>5, <1>6 DEF Write

LEMMA TypeStep ==
  ASSUME TypeOK, [Next]_vars
  PROVE  TypeOK'
<1>1. CASE CreateInstance /\ UNCHANGED workerVars
  <2>0. cr \in Version /\ cr.uid + 1 \in Nat
    BY DEF TypeOK, ClusterTypeOK, Version
  <2>1. [cr EXCEPT !.uid = @ + 1, !.live = TRUE] \in Version
    BY <2>0 DEF Version
  <2>2. cr' \in Version /\ watch' \in Seq(Version)
    BY <1>1, <2>1, CommitType DEF CreateInstance, TypeOK
  <2>3. budget' \in [Disturbances -> Nat]
    BY <1>1, SpendType DEF CreateInstance, TypeOK, Disturbances
  <2> QED
    BY <1>1, <2>2, <2>3 DEF CreateInstance, TypeOK, ClusterTypeOK, workerVars
<1>2. CASE EditConfig /\ UNCHANGED workerVars
  <2>0. cr \in Version /\ cr.gen + 1 \in Nat
    BY DEF TypeOK, ClusterTypeOK, Version
  <2>1. [cr EXCEPT !.gen = @ + 1] \in Version
    BY <2>0 DEF Version
  <2>2. cr' \in Version /\ watch' \in Seq(Version)
    BY <1>2, <2>1, CommitType DEF EditConfig, TypeOK
  <2>3. budget' \in [Disturbances -> Nat]
    BY <1>2, SpendType DEF EditConfig, TypeOK, Disturbances
  <2> QED
    BY <1>2, <2>2, <2>3 DEF EditConfig, TypeOK, ClusterTypeOK, workerVars
<1>3. CASE DeleteInstance /\ UNCHANGED workerVars
  <2>1. [cr EXCEPT !.del = TRUE] \in Version
    BY DEF TypeOK, ClusterTypeOK, Version
  <2> QED
    BY <1>3, <2>1, CommitType
    DEF DeleteInstance, TypeOK, ClusterTypeOK, workerVars
<1>4. CASE Deliver /\ UNCHANGED workerVars
  BY <1>4 DEF Deliver, TypeOK, ClusterTypeOK, workerVars
<1>5. CASE \E k \in Kinds : SyncChild(k) /\ UNCHANGED workerVars
  BY <1>5 DEF SyncChild, TypeOK, ClusterTypeOK, workerVars
<1>6. CASE Resync /\ UNCHANGED workerVars
  BY <1>6, SpendType
  DEF Resync, TypeOK, ClusterTypeOK, workerVars, Disturbances
<1>7. CASE \E k \in Contents : Purge(k) /\ UNCHANGED workerVars
  <2>1. NoObject \in Object
    BY DEF NoObject, Object
  <2> QED
    BY <1>7, <2>1, PutType
    DEF Purge, Contents, TypeOK, ClusterTypeOK, workerVars
<1>8. CASE NamespaceGone /\ UNCHANGED workerVars
  <2>1. NoObject \in Object /\ "ns" \in Kinds
    BY DEF NoObject, Object, Kinds
  <2> QED
    BY <1>8, <2>1, PutType
    DEF NamespaceGone, TypeOK, ClusterTypeOK, workerVars
<1>9. CASE PodReady /\ UNCHANGED workerVars
  <2>1. "deploy" \in Kinds
    BY DEF Kinds
  <2>2. [obj["deploy"] EXCEPT !.ready = TRUE] \in Object
    BY <2>1 DEF Object, TypeOK, ClusterTypeOK
  <2> QED
    BY <1>9, <2>1, <2>2, PutType
    DEF PodReady, TypeOK, ClusterTypeOK, workerVars
<1>10. CASE PodUnready /\ UNCHANGED workerVars
  <2>1. "deploy" \in Kinds
    BY DEF Kinds
  <2>2. [obj["deploy"] EXCEPT !.ready = FALSE] \in Object
    BY <2>1 DEF Object, TypeOK, ClusterTypeOK
  <2> QED
    BY <1>10, <2>1, <2>2, PutType, SpendType
    DEF PodUnready, TypeOK, ClusterTypeOK, workerVars, Disturbances
<1>11. CASE Begin
  BY <1>11, EntryType, GotoType DEF Begin, TypeOK, ClusterTypeOK
<1>12. CASE AddFinalizer
  <2>1. [cr EXCEPT !.fin = TRUE] \in Version
    BY DEF TypeOK, ClusterTypeOK, Version
  <2>2. BuildFrom(cr) \in Steps
    BY EntryType DEF TypeOK, ClusterTypeOK
  <2> QED
    BY <1>12, <2>1, <2>2, WriteType DEF AddFinalizer
<1>13. CASE SetPending
  BY <1>13, InPhaseType, WriteType
  DEF SetPending, Phases, Steps, BuildSteps
<1>14. CASE SetCreating
  BY <1>14, InPhaseType, WriteType
  DEF SetCreating, Phases, Steps, BuildSteps, Kinds
<1>15. CASE \E k \in Kinds : ReconcileChild(k)
  <2> PICK k \in Kinds : ReconcileChild(k)
    BY <1>15
  <2>1. Desired(k, obj[k]) \in Object
    <3>1. obj[k] \in Object /\ inst.gen \in Nat
      BY DEF TypeOK, ClusterTypeOK, Version
    <3> QED
      BY <3>1 DEF Desired, Object
  <2>2. Apply(k) => obj' \in [Kinds -> Object] /\ objCache' \in [Kinds -> Object]
    BY <2>1, PutType DEF Apply, TypeOK, ClusterTypeOK
  <2>3. After(k) \in Steps /\ "failed" \in Steps
    BY DEF After, Steps, BuildSteps, Kinds
  <2>4. pc' \in Steps /\ inst' \in Version
    BY <2>3, GotoType DEF ReconcileChild, TypeOK
  <2>5. budget' \in [Disturbances -> Nat]
    BY SpendType DEF ReconcileChild, TypeOK, ClusterTypeOK, Disturbances
  <2> QED
    BY <2>2, <2>4, <2>5 DEF ReconcileChild, TypeOK, ClusterTypeOK
<1>16. CASE SetFailed
  <2>1. Observed("Failed") \in Version /\ "idle" \in Steps
    BY InPhaseType DEF Phases, Steps
  <2>2. CASE Write(Observed("Failed"), "idle", TRUE)
    BY <2>1, <2>2, WriteType
  <2>3. CASE Reworded
    <3>1. cr' \in Version /\ watch' \in Seq(Version)
      BY <2>1, <2>3, StoreType DEF Reworded, TypeOK
    <3>2. budget' \in [Disturbances -> Nat]
      BY <2>3, SpendType DEF Reworded, TypeOK, Disturbances
    <3> QED
      BY <2>3, <3>1, <3>2, RetryType DEF Reworded, TypeOK, ClusterTypeOK
  <2> QED
    BY <1>16, <2>2, <2>3 DEF SetFailed
<1>17. CASE CheckReady
  <2>1. {"running", "starting"} \subseteq Steps
    BY DEF Steps, BuildSteps
  <2> QED
    BY <1>17, <2>1, GotoType, RetryType
    DEF CheckReady, TypeOK, ClusterTypeOK, clusterVars
<1>18. CASE SetStarting
  BY <1>18, InPhaseType, WriteType
  DEF SetStarting, Phases, Steps
<1>19. CASE SetRunning
  BY <1>19, InPhaseType, WriteType
  DEF SetRunning, Phases, Steps, BuildSteps
<1>20. CASE Notify
  <2>1. "idle" \in Steps
    BY DEF Steps
  <2> QED
    BY <1>20, <2>1, GotoType
    DEF Notify, Done, TypeOK, ClusterTypeOK, clusterVars
<1>21. CASE SetTerminating
  BY <1>21, InPhaseType, WriteType
  DEF SetTerminating, Phases, Steps, DeletionSteps
<1>22. CASE DeleteNamespace
  <2>1. "ns" \in Kinds
    BY DEF Kinds
  <2>2. [obj["ns"] EXCEPT !.state = "terminating"] \in Object
    BY <2>1 DEF Object, TypeOK, ClusterTypeOK
  <2>3. MarkNamespace
          => obj' \in [Kinds -> Object] /\ objCache' \in [Kinds -> Object]
    BY <2>1, <2>2, PutType DEF MarkNamespace, TypeOK, ClusterTypeOK
  <2>4. "release" \in Steps
    BY DEF Steps, DeletionSteps
  <2>5. pc' \in Steps /\ inst' \in Version /\ timer' \in BOOLEAN
    BY <1>22, <2>4, GotoType, RetryType DEF DeleteNamespace, TypeOK
  <2>6. budget' \in [Disturbances -> Nat]
    BY <1>22, SpendType
    DEF DeleteNamespace, TypeOK, ClusterTypeOK, Disturbances
  <2> QED
    BY <1>22, <2>3, <2>5, <2>6 DEF DeleteNamespace, TypeOK, ClusterTypeOK
<1>23. CASE RemoveFinalizer
  <2>1. [cr EXCEPT !.fin = FALSE] \in Version
    BY DEF TypeOK, ClusterTypeOK, Version
  <2> QED
    BY <1>23, <2>1, WriteType DEF RemoveFinalizer, Steps
<1>24. CASE TimerFires
  BY <1>24 DEF TimerFires, TypeOK, ClusterTypeOK
<1>25. CASE CrashRestart
  <2>1. cr.live \in BOOLEAN /\ << >> \in Seq(Version) /\ "idle" \in Steps
    BY DEF TypeOK, ClusterTypeOK, Version, Steps
  <2> QED
    BY <1>25, <2>1, SpendType, GoneType
    DEF CrashRestart, TypeOK, ClusterTypeOK, Disturbances, NoInst
<1>26. CASE UNCHANGED vars
  BY <1>26 DEF TypeOK, ClusterTypeOK, vars, clusterVars, workerVars
<1> QED
  BY <1>1, <1>2, <1>3, <1>4, <1>5, <1>6, <1>7, <1>8, <1>9, <1>10, <1>11,
     <1>12, <1>13, <1>14, <1>15, <1>16, <1>17, <1>18, <1>19, <1>20, <1>21,
     <1>22, <1>23, <1>24, <1>25, <1>26
  DEF Next, Worker, Environment

LEMMA TypeInit ==
  ASSUME Init
  PROVE  TypeOK
<1>1. NoObject \in Object
  BY DEF NoObject, Object
<1>2. << >> \in Seq(Version)
  OBVIOUS
<1>3. "idle" \in Steps
  BY DEF Steps
<1>4. Gone(0, 0) \in Version
  BY GoneType
<1>5. ClusterTypeOK
  BY <1>1, <1>2, <1>4, BudgetAssumption DEF Init, ClusterInit, ClusterTypeOK
<1>6. pc \in Steps
  BY <1>3 DEF Init
<1>7. inst \in Version
  BY <1>4 DEF Init, NoInst
<1>8. timer \in BOOLEAN
  BY DEF Init
<1>9. owed \in Int
  BY DEF Init
<1> QED
  BY <1>5, <1>6, <1>7, <1>8, <1>9 DEF TypeOK

\* Type correctness: every variable keeps its declared range, through every
\* API call of Reconcile and everything users, informers and controllers do.
THEOREM TypeCorrect == Spec => []TypeOK
<1>1. Init => TypeOK
  BY TypeInit
<1>2. TypeOK /\ [Next]_vars => TypeOK'
  BY TypeStep
<1> QED
  BY <1>1, <1>2, PTL DEF Spec

-----------------------------------------------------------------------------
(* How the history of the resource grows *)

\* The ways one version of the resource follows the current one.
Created(w) ==
  /\ ~cr.live /\ w.live /\ w.uid = cr.uid + 1
  /\ ~w.fin /\ ~w.del /\ w.phase = ""

Changed(w) ==
  /\ cr.live /\ w.live /\ w.uid = cr.uid
  /\ (cr.fin => w.fin) /\ (cr.del => w.del)
  /\ Sound(w)

Removed(w) ==
  /\ cr.live /\ w = Gone(cr.rv + 1, cr.uid)
  /\ cr.fin => pc = "release" /\ pc' = "idle" /\ inst = cr

Appended ==
  /\ cache' = cache /\ watch' = Append(watch, cr')
  /\ cr' \in Version /\ cr'.rv = cr.rv + 1
  /\ Created(cr') \/ Changed(cr') \/ Removed(cr')

Same == UNCHANGED <<cr, cache, watch>>

Delivered ==
  /\ watch # << >> /\ cr' = cr
  /\ cache' = Head(watch) /\ watch' = Tail(watch)

Listed == cr' = cr /\ cache' = cr /\ watch' = << >> /\ pc' = "idle"

LEMMA GoneFields ==
  ASSUME NEW n, NEW u, NEW v, v = Gone(n, u)
  PROVE  ~v.live /\ ~v.fin /\ ~v.del /\ v.phase = ""
  BY DEF Gone

LEMMA HistoryType ==
  ASSUME TypeOK
  PROVE  /\ Last \in Nat /\ Last \in 0 .. Last /\ 0 \in 0 .. Last
         /\ \A i \in 0 .. Last : V(i) \in Version
         /\ cr \in Version /\ cache \in Version /\ inst \in Version
  BY DEF TypeOK, ClusterTypeOK, Last, V

LEMMA HistoryAppended ==
  ASSUME TypeOK, Appended
  PROVE  /\ Last' = Last + 1
         /\ \A i \in 0 .. Last + 1 :
              V(i)' = IF i <= Last THEN V(i) ELSE cr'
<1>1. watch \in Seq(Version)
  BY DEF TypeOK, ClusterTypeOK
<1>2. watch' = Append(watch, cr') /\ cache' = cache /\ cr' \in Version
  BY DEF Appended
<1>3. Last \in Nat /\ Last' = Last + 1
  BY <1>1, <1>2 DEF Last
<1>4. ASSUME NEW i \in 0 .. Last + 1
      PROVE  V(i)' = IF i <= Last THEN V(i) ELSE cr'
  <2>1. CASE i = 0
    BY <1>2, <1>3, <2>1 DEF V
  <2>2. CASE i # 0
    <3>1. V(i)' = Append(watch, cr')[i]
      BY <1>2, <2>2 DEF V
    <3>2. i \in 1 .. Len(watch) + 1
      BY <2>2 DEF Last
    <3>3. Append(watch, cr')[i] = IF i <= Len(watch) THEN watch[i] ELSE cr'
      BY <1>1, <1>2, <3>2
    <3> QED
      BY <2>2, <3>1, <3>3 DEF V, Last
  <2> QED
    BY <2>1, <2>2
<1> QED
  BY <1>3, <1>4

LEMMA HistoryDelivered ==
  ASSUME TypeOK, Delivered
  PROVE  /\ Last > 0 /\ Last' = Last - 1
         /\ \A i \in 0 .. Last' : V(i)' = V(i + 1)
<1>1. watch \in Seq(Version) /\ watch # << >>
  BY DEF TypeOK, ClusterTypeOK, Delivered
<1>2. watch' = Tail(watch) /\ cache' = Head(watch)
  BY DEF Delivered
<1>3. Last > 0 /\ Last' = Last - 1
  BY <1>1, <1>2 DEF Last
<1>4. ASSUME NEW i \in 0 .. Last'
      PROVE  V(i)' = V(i + 1)
  <2>1. i + 1 \in 1 .. Len(watch) /\ i + 1 # 0
    BY <1>1, <1>3 DEF Last
  <2>2. V(i + 1) = watch[i + 1]
    BY <2>1 DEF V
  <2>3. CASE i = 0
    BY <1>1, <1>2, <2>2, <2>3 DEF V
  <2>4. CASE i # 0
    BY <1>1, <1>2, <2>1, <2>2, <2>4 DEF V, Last
  <2> QED
    BY <2>3, <2>4
<1> QED
  BY <1>3, <1>4

LEMMA HistoryListed ==
  ASSUME TypeOK, Listed
  PROVE  Last' = 0 /\ \A i \in 0 .. Last' : V(i)' = cr
  BY DEF Listed, Last, V

\* Every version of the history is as old as the current one or older.
LEMMA HistoryBound ==
  ASSUME TypeOK, HistoryInv, NEW i \in 0 .. Last
  PROVE  V(i) = cr \/ Ages(V(i), cr)
<1>1. Last \in 0 .. Last /\ V(Last) = cr
  BY HistoryType DEF HistoryInv
<1>2. i = Last \/ i < Last
  BY HistoryType
<1> QED
  BY <1>1, <1>2 DEF HistoryInv

\* A version that follows the current one is newer than all of the history.
LEMMA AgesNext ==
  ASSUME TypeOK, HistoryInv, Appended, NEW i \in 0 .. Last
  PROVE  Ages(V(i), cr')
<1>1. Ages(cr, cr')
  <2>1. cr \in Version /\ cr' \in Version /\ cr'.rv = cr.rv + 1
    BY HistoryType DEF Appended
  <2> cr.rv \in Nat /\ cr.uid \in Nat
    BY <2>1 DEF Version
  <2>2. CASE Created(cr')
    <3>1. cr'.uid = cr.uid + 1
      BY <2>2 DEF Created
    <3>2. cr.rv < cr'.rv /\ cr.uid <= cr'.uid /\ cr.uid # cr'.uid
      BY <2>1, <3>1
    <3> QED
      BY <3>2 DEF Ages
  <2>3. CASE Changed(cr')
    <3>1. cr.rv < cr'.rv /\ cr.uid <= cr'.uid
      BY <2>1, <2>3 DEF Changed, Version
    <3>2. Dying(cr) => Dying(cr')
      BY <2>3 DEF Changed, Dying
    <3> QED
      BY <3>1, <3>2 DEF Ages
  <2>4. CASE Removed(cr')
    <3>1. cr' = Gone(cr.rv + 1, cr.uid)
      BY <2>4 DEF Removed
    <3>2. cr'.uid = cr.uid
      BY <3>1 DEF Gone
    <3>3. Dying(cr')
      BY <3>1 DEF Gone, Dying
    <3>4. cr.rv < cr'.rv /\ cr.uid <= cr'.uid
      BY <2>1, <3>2
    <3> QED
      BY <3>3, <3>4 DEF Ages
  <2> QED
    BY <2>2, <2>3, <2>4 DEF Appended
<1>2. V(i) \in Version /\ cr \in Version /\ cr' \in Version
  BY HistoryType DEF Appended
<1> QED
  BY <1>1, <1>2, HistoryBound DEF Ages, Version

LEMMA SoundNext ==
  ASSUME TypeOK, HistoryInv, Appended
  PROVE  Sound(cr')
<1>0. cr' \in Version
  BY DEF Appended
<1>1. CASE Created(cr')
  BY <1>0, <1>1 DEF Created, Sound, Version
<1>2. CASE Changed(cr')
  BY <1>2 DEF Changed
<1>3. CASE Removed(cr')
  <2>1. cr' = Gone(cr.rv + 1, cr.uid)
    BY <1>3 DEF Removed
  <2>2. cr'.rv = cr.rv + 1 /\ cr'.uid = cr.uid /\ cr'.live = FALSE
    BY <2>1 DEF Gone
  <2> QED
    BY <2>1, <2>2 DEF Sound
<1> QED
  BY <1>1, <1>2, <1>3 DEF Appended

StoreStep == Same \/ Delivered \/ Appended \/ Listed

LEMMA HistoryStep ==
  ASSUME TypeOK, HistoryInv, StoreStep
  PROVE  HistoryInv'
<1>1. CASE Same
  BY <1>1 DEF Same, HistoryInv, Last, V
<1>2. CASE Delivered
  <2>1. /\ Last \in Nat /\ Last > 0 /\ Last' = Last - 1
        /\ \A i \in 0 .. Last' : V(i)' = V(i + 1)
    BY <1>2, HistoryDelivered, HistoryType
  <2>2. \A i \in 0 .. Last' : i + 1 \in 0 .. Last
    BY <2>1
  <2> QED
    BY <1>2, <2>1, <2>2 DEF HistoryInv, Delivered
<1>3. CASE Appended
  <2>1. /\ Last \in Nat /\ Last' = Last + 1
        /\ \A i \in 0 .. Last' :
             V(i)' = IF i <= Last THEN V(i) ELSE cr'
    BY <1>3, HistoryAppended, HistoryType
  <2>2. ASSUME NEW i \in 0 .. Last', i = Last'
        PROVE  V(i)' = cr'
    BY <2>1, <2>2
  <2>3. ASSUME NEW i \in 0 .. Last', NEW j \in 0 .. Last', i < j
        PROVE  Ages(V(i), V(j))'
    <3>1. i \in 0 .. Last /\ V(i)' = V(i)
      BY <2>1, <2>3
    <3>2. CASE j <= Last
      BY <2>1, <2>3, <3>1, <3>2 DEF HistoryInv, Ages, Dying
    <3>3. CASE j = Last + 1
      <4>1. V(j)' = cr' /\ Ages(V(i), cr')
        BY <1>3, <2>1, <3>1, <3>3, AgesNext
      <4> QED
        BY <3>1, <4>1 DEF Ages, Dying
    <3> QED
      BY <2>1, <2>3, <3>2, <3>3
  <2>4. ASSUME NEW i \in 0 .. Last'
        PROVE  Sound(V(i))'
    <3>1. CASE i <= Last
      <4>1. V(i)' = V(i) /\ Sound(V(i))
        BY <2>1, <2>4, <3>1 DEF HistoryInv
      <4> QED
        BY <4>1 DEF Sound
    <3>2. CASE i > Last
      <4>1. V(i)' = cr' /\ Sound(cr')
        BY <1>3, <2>1, <2>4, <3>2, SoundNext
      <4> QED
        BY <4>1 DEF Sound
    <3> QED
      BY <2>1, <3>1, <3>2
  <2> QED
    BY <2>2, <2>3, <2>4 DEF HistoryInv
<1>4. CASE Listed
  <2>1. Last' = 0 /\ \A i \in 0 .. Last' : V(i)' = cr
    BY <1>4, HistoryListed
  <2>2. Sound(cr)
    BY HistoryType DEF HistoryInv
  <2>3. ASSUME NEW i \in 0 .. Last'
        PROVE  Sound(V(i))'
    BY <2>1, <2>2 DEF Sound, Gone
  <2>4. ASSUME NEW i \in 0 .. Last', NEW j \in 0 .. Last'
        PROVE  ~(i < j)
    BY <2>1
  <2> QED
    BY <1>4, <2>1, <2>3, <2>4 DEF HistoryInv, Listed
<1> QED
  BY <1>1, <1>2, <1>3, <1>4 DEF StoreStep

\* A version that lets a reconcile build keeps its promise through any step:
\* the finalizer goes only with a reconcile that has seen the deletion.
LEMMA HeldStep ==
  ASSUME TypeOK, HistoryInv, HeldInv, DeletionInv, StoreStep
  PROVE  HeldInv'
<1>1. CASE Same
  BY <1>1 DEF Same, HeldInv, Builds, Last, V
<1>2. CASE Delivered
  <2>1. /\ Last \in Nat /\ Last' = Last - 1 /\ cr' = cr
        /\ \A i \in 0 .. Last' : V(i)' = V(i + 1)
    BY <1>2, HistoryDelivered, HistoryType DEF Delivered
  <2>2. ASSUME NEW i \in 0 .. Last', Builds(V(i))'
        PROVE  (cr.live /\ cr.fin /\ cr.uid = V(i).uid)'
    <3>1. i + 1 \in 0 .. Last /\ V(i)' = V(i + 1)
      BY <2>1
    <3>2. Builds(V(i + 1))
      BY <2>2, <3>1 DEF Builds
    <3> QED
      BY <2>1, <3>1, <3>2 DEF HeldInv
  <2> QED
    BY <2>2 DEF HeldInv
<1>3. CASE Appended
  <2>1. /\ Last \in Nat /\ Last' = Last + 1
        /\ \A i \in 0 .. Last' :
             V(i)' = IF i <= Last THEN V(i) ELSE cr'
    BY <1>3, HistoryAppended, HistoryType
  <2>2. ASSUME NEW i \in 0 .. Last, Builds(V(i))
        PROVE  cr'.live /\ cr'.fin /\ cr'.uid = V(i).uid
    <3>1. cr.live /\ cr.fin /\ cr.uid = V(i).uid
      BY <2>2 DEF HeldInv
    <3>2. CASE Created(cr')
      BY <3>1, <3>2 DEF Created
    <3>3. CASE Changed(cr')
      BY <3>1, <3>3 DEF Changed
    <3>4. CASE Removed(cr')
      <4>1. pc \in DeletionSteps /\ V(i).uid = inst.uid
        BY <3>1, <3>4 DEF Removed, DeletionSteps
      <4> QED
        BY <2>2, <4>1 DEF DeletionInv, Dying, Builds
    <3> QED
      BY <1>3, <3>2, <3>3, <3>4 DEF Appended
  <2>3. ASSUME NEW i \in 0 .. Last', Builds(V(i))'
        PROVE  (cr.live /\ cr.fin /\ cr.uid = V(i).uid)'
    <3>1. CASE i <= Last
      <4>1. i \in 0 .. Last /\ V(i)' = V(i)
        BY <2>1, <2>3, <3>1
      <4>2. Builds(V(i))
        BY <2>3, <4>1 DEF Builds
      <4> QED
        BY <2>2, <4>1, <4>2
    <3>2. CASE i > Last
      BY <2>1, <2>3, <3>2 DEF Builds
    <3> QED
      BY <2>1, <3>1, <3>2
  <2> QED
    BY <2>3 DEF HeldInv
<1>4. CASE Listed
  <2>1. cr' = cr /\ Last' = 0 /\ \A i \in 0 .. Last' : V(i)' = cr
    BY <1>4, HistoryListed DEF Listed
  <2> QED
    BY <2>1 DEF HeldInv, Builds
<1> QED
  BY <1>1, <1>2, <1>3, <1>4 DEF StoreStep

\* A reconcile that deletes goes on seeing only dying versions of its resource.
LEMMA DeletionStep ==
  ASSUME TypeOK, HistoryInv, CopyInv, DeletionInv, StoreStep,
         pc \in DeletionSteps, pc' # "idle", inst'.uid = inst.uid
  PROVE  DeletionInv'
<1> SUFFICES ASSUME pc' \in DeletionSteps,
                    NEW i \in 0 .. Last', V(i)'.uid = inst'.uid
             PROVE  Dying(V(i))'
  BY DEF DeletionInv
<1>1. /\ pc \in DeletionSteps /\ inst'.uid = inst.uid /\ pc # "idle"
      /\ \A j \in 0 .. Last : V(j).uid = inst.uid => Dying(V(j))
  BY DEF DeletionInv, DeletionSteps
<1>2. CASE Same
  BY <1>1, <1>2 DEF Same, Last, V, Dying
<1>3. CASE Delivered
  <2>1. i + 1 \in 0 .. Last /\ V(i)' = V(i + 1)
    BY <1>3, HistoryDelivered, HistoryType
  <2>2. Dying(V(i + 1))
    BY <1>1, <2>1
  <2> QED
    BY <2>1, <2>2 DEF Dying
<1>4. CASE Appended
  <2>1. /\ Last \in Nat /\ Last' = Last + 1
        /\ V(i)' = IF i <= Last THEN V(i) ELSE cr'
    BY <1>4, HistoryAppended, HistoryType
  <2>2. CASE i <= Last
    BY <1>1, <2>1, <2>2 DEF Dying
  <2>0. i > Last => V(i)' = cr'
    BY <2>1
  <2>3. CASE i > Last /\ Created(cr')
    <3>1. cr.uid \in Nat /\ inst.uid \in Nat
      BY HistoryType DEF Version
    <3>2. cr'.uid = cr.uid + 1 /\ cr'.uid = inst.uid
      BY <1>1, <2>0, <2>3 DEF Created
    <3> QED
      BY <1>1, <3>1, <3>2 DEF CopyInv
  <2>4. CASE i > Last /\ Changed(cr')
    <3>1. cr.uid = inst.uid /\ cr.live
      BY <1>1, <2>0, <2>4 DEF Changed
    <3>2. Dying(cr)
      BY <1>1, <3>1, HistoryType DEF HistoryInv
    <3> QED
      BY <2>0, <2>4, <3>1, <3>2 DEF Dying, Changed
  <2>5. CASE i > Last /\ Removed(cr')
    <3>1. V(i)' = cr' /\ cr' = Gone(cr.rv + 1, cr.uid)
      BY <2>0, <2>5 DEF Removed
    <3>2. ~cr'.live
      BY <3>1, GoneFields
    <3> QED
      BY <3>1, <3>2 DEF Dying
  <2> QED
    BY <1>4, <2>1, <2>2, <2>3, <2>4, <2>5 DEF Appended
<1>5. CASE Listed
  BY <1>5 DEF Listed, DeletionSteps
<1> QED
  BY <1>2, <1>3, <1>4, <1>5 DEF StoreStep

\* Seen from a reconcile that is not moving: what its copy guarantees about
\* the resource stays true whatever the others do.
LEMMA StayStep ==
  ASSUME TypeOK, HistoryInv, StayInv, StoreStep, UNCHANGED <<pc, inst>>
  PROVE  StayInv'
<1>1. FinalizerHeld'
  <2>1. CASE Appended
    <3>1. Changed(cr') \/ Created(cr') \/ Removed(cr')
      BY <2>1 DEF Appended
    <3> QED
      BY <3>1 DEF StayInv, FinalizerHeld, Created, Changed, Removed,
                  BuildSteps, Kinds
  <2>2. CASE Same \/ Delivered \/ Listed
    BY <2>2 DEF Same, Delivered, Listed, StayInv, FinalizerHeld
  <2> QED
    BY <2>1, <2>2 DEF StoreStep
<1>2. CopyInv'
  <2>1. CASE Appended
    <3>1. cr.rv \in Nat /\ inst.rv \in Nat /\ cr'.rv = cr.rv + 1
      BY <2>1, HistoryType DEF Appended, Version
    <3>2. cr.uid \in Nat /\ inst.uid \in Nat
      BY HistoryType DEF Version
    <3>3. cr'.uid = cr.uid \/ cr'.uid = cr.uid + 1
      <4>1. CASE Removed(cr')
        BY <4>1 DEF Removed, Gone
      <4> QED
        BY <2>1, <4>1 DEF Appended, Created, Changed
    <3> QED
      BY <3>1, <3>2, <3>3 DEF StayInv, CopyInv
  <2>2. CASE Same \/ Delivered \/ Listed
    BY <2>2 DEF Same, Delivered, Listed, StayInv, CopyInv
  <2> QED
    BY <2>1, <2>2 DEF StoreStep
<1>3. StepInv'
  BY DEF StayInv, StepInv, Builds
<1>4. DeletionInv'
  <2>1. CASE pc \in DeletionSteps
    BY <2>1, DeletionStep DEF StayInv, DeletionSteps
  <2>2. CASE pc \notin DeletionSteps
    BY <2>2 DEF DeletionInv
  <2> QED
    BY <2>1, <2>2
<1>5. FenceInv'
  <2>1. CASE Appended
    <3>1. Changed(cr') \/ Created(cr') \/ Removed(cr')
      BY <2>1 DEF Appended
    <3> QED
      BY <3>1 DEF StayInv, FenceInv, Created, Changed, Removed
  <2>2. CASE Same \/ Delivered \/ Listed
    BY <2>2 DEF Same, Delivered, Listed, StayInv, FenceInv
  <2> QED
    BY <2>1, <2>2 DEF StoreStep
<1> QED
  BY <1>1, <1>2, <1>3, <1>4, <1>5 DEF StayInv

-----------------------------------------------------------------------------
(* Steps of the environment *)

LEMMA GoneLive ==
  ASSUME HistoryInv, TypeOK
  PROVE  /\ Sound(cr)
         /\ ~cr.live => ~cr.fin /\ ~cr.del /\ cr.phase = ""
<1>1. Sound(cr)
  BY HistoryType DEF HistoryInv
<1>2. CASE cr = Gone(cr.rv, cr.uid)
  <2>1. ~cr.live /\ ~cr.fin /\ ~cr.del /\ cr.phase = ""
    BY <1>2, GoneFields
  <2> QED
    BY <1>1, <2>1
<1> QED
  BY <1>1, <1>2 DEF Sound

LEMMA EnvironmentStore ==
  ASSUME TypeOK, TypeOK', HistoryInv, Environment
  PROVE  StoreStep /\ UNCHANGED <<pc, inst>>
<1>0. cr \in Version /\ cr' \in Version
  BY HistoryType DEF TypeOK, ClusterTypeOK
<1>1. CASE CreateInstance /\ UNCHANGED workerVars
  <2> DEFINE v == [cr EXCEPT !.uid = @ + 1, !.live = TRUE]
  <2>1. ~cr.live /\ Commit(v) /\ cache' = cache
    BY <1>1 DEF CreateInstance
  <2>2. /\ v.live = TRUE /\ v.uid = cr.uid + 1 /\ v.fin = FALSE
        /\ v.del = FALSE /\ v.phase = ""
    BY <1>0, <2>1, GoneLive DEF Version
  <2>3. v # cr
    BY <2>1, <2>2
  <2>4. cr' = [v EXCEPT !.rv = cr.rv + 1] /\ watch' = Append(watch, cr')
    BY <2>1, <2>2, <2>3 DEF Commit, Store, Stored
  <2>5. cr'.rv = cr.rv + 1 /\ Created(cr')
    BY <1>0, <2>1, <2>2, <2>4 DEF Created, Version
  <2> QED
    BY <1>0, <1>1, <2>1, <2>4, <2>5 DEF StoreStep, Appended, workerVars
<1>2. CASE EditConfig /\ UNCHANGED workerVars
  <2> DEFINE v == [cr EXCEPT !.gen = @ + 1]
  <2>1. cr.live /\ Commit(v) /\ cache' = cache
    BY <1>2 DEF EditConfig
  <2>2. /\ v.live = cr.live /\ v.uid = cr.uid /\ v.fin = cr.fin
        /\ v.del = cr.del /\ v.phase = cr.phase /\ v.gen = cr.gen + 1
    BY <1>0 DEF Version
  <2>3. v # cr
    <3>1. cr.gen \in Nat
      BY <1>0 DEF Version
    <3>2. v.gen # cr.gen
      BY <2>2, <3>1
    <3> HIDE DEF v
    <3> QED
      BY <3>2
  <2>4. cr' = [v EXCEPT !.rv = cr.rv + 1] /\ watch' = Append(watch, cr')
    <3>1. ~(v.del /\ ~v.fin)
      BY <2>1, <2>2, GoneLive DEF Sound
    <3> QED
      BY <2>1, <2>3, <3>1 DEF Commit, Store, Stored
  <2>5. cr'.rv = cr.rv + 1 /\ Changed(cr')
    BY <1>0, <2>1, <2>2, <2>4, GoneLive DEF Changed, Sound, Version
  <2> QED
    BY <1>0, <1>2, <2>1, <2>4, <2>5 DEF StoreStep, Appended, workerVars
<1>3. CASE DeleteInstance /\ UNCHANGED workerVars
  <2> DEFINE v == [cr EXCEPT !.del = TRUE]
  <2>1. cr.live /\ ~cr.del /\ Commit(v) /\ cache' = cache
    BY <1>3 DEF DeleteInstance
  <2>2. /\ v.live = cr.live /\ v.uid = cr.uid /\ v.fin = cr.fin
        /\ v.del /\ v.phase = cr.phase
    BY <1>0 DEF Version
  <2>3. v # cr
    BY <2>1, <2>2
  <2>4. cr' = Stored(v) /\ watch' = Append(watch, cr')
    BY <2>1, <2>3 DEF Commit, Store
  <2>5. CASE cr.fin
    <3>1. cr' = [v EXCEPT !.rv = cr.rv + 1]
      BY <2>2, <2>4, <2>5 DEF Stored
    <3>2. cr'.rv = cr.rv + 1 /\ Changed(cr')
      BY <1>0, <2>1, <2>2, <2>5, <3>1, GoneLive DEF Changed, Sound, Version
    <3> QED
      BY <1>0, <1>3, <2>1, <2>4, <3>2 DEF StoreStep, Appended, workerVars
  <2>6. CASE ~cr.fin
    <3>1. cr' = Gone(cr.rv + 1, cr.uid)
      BY <2>2, <2>4, <2>6 DEF Stored
    <3>2. cr'.rv = cr.rv + 1 /\ Removed(cr')
      BY <2>1, <2>6, <3>1 DEF Removed, Gone
    <3> QED
      BY <1>0, <1>3, <2>1, <2>4, <3>2 DEF StoreStep, Appended, workerVars
  <2> QED
    BY <2>5, <2>6
<1>4. CASE Deliver /\ UNCHANGED workerVars
  BY <1>4 DEF Deliver, StoreStep, Delivered, workerVars
<1>5. CASE \E k \in Kinds : SyncChild(k) /\ UNCHANGED workerVars
  BY <1>5 DEF SyncChild, StoreStep, Same, workerVars
<1>6. CASE Resync /\ UNCHANGED workerVars
  BY <1>6 DEF Resync, StoreStep, Same, workerVars
<1>7. CASE \E k \in Contents : Purge(k) /\ UNCHANGED workerVars
  BY <1>7 DEF Purge, StoreStep, Same, workerVars
<1>8. CASE NamespaceGone /\ UNCHANGED workerVars
  BY <1>8 DEF NamespaceGone, StoreStep, Same, workerVars
<1>9. CASE PodReady /\ UNCHANGED workerVars
  BY <1>9 DEF PodReady, StoreStep, Same, workerVars
<1>10. CASE PodUnready /\ UNCHANGED workerVars
  BY <1>10 DEF PodUnready, StoreStep, Same, workerVars
<1> QED
  BY <1>1, <1>2, <1>3, <1>4, <1>5, <1>6, <1>7, <1>8, <1>9, <1>10
  DEF Environment

-----------------------------------------------------------------------------
(* Steps of the worker *)

\* Returning from Reconcile leaves nothing to keep.
LEMMA IdleStay ==
  ASSUME pc' = "idle"
  PROVE  StayInv'
  BY DEF StayInv, FinalizerHeld, CopyInv, StepInv, DeletionInv, FenceInv,
         BuildSteps, DeletionSteps, Kinds

\* An up-to-date copy is the resource.
LEMMA Current ==
  ASSUME StayInv, pc # "idle", UpToDate(inst)
  PROVE  inst = cr /\ cr.live
  BY DEF StayInv, CopyInv, UpToDate

\* What an accepted status write of phase p makes of the resource.
Kept(p) ==
  /\ cr'.uid = cr.uid /\ cr'.live /\ cr'.fin
  /\ (cr'.del <=> cr.del) /\ cr'.phase = p /\ cr'.gen = cr.gen

LEMMA PhaseStore ==
  ASSUME TypeOK, TypeOK', HistoryInv, NEW p \in Phases,
         cr.live, cr.fin, ~cr.del => p # "Terminating",
         NEW STATE v, v = InPhase(p) \/ v = Observed(p),
         Store(v), UNCHANGED cache
  PROVE  Appended /\ Kept(p)
<1>0. cr \in Version /\ cr' \in Version
  BY HistoryType DEF TypeOK, ClusterTypeOK
<1>1. /\ v.uid = cr.uid /\ v.live = cr.live /\ v.fin = cr.fin
      /\ v.del = cr.del /\ v.phase = p /\ v.rv = cr.rv /\ v.gen = cr.gen
      /\ v \in Version
  BY <1>0, InPhaseType DEF InPhase, Observed, Version
<1>2. cr' = [v EXCEPT !.rv = cr.rv + 1] /\ watch' = Append(watch, cr')
  BY <1>1 DEF Store, Stored
<1>3. /\ cr'.rv = cr.rv + 1 /\ cr'.uid = v.uid /\ cr'.live = v.live
      /\ cr'.fin = v.fin /\ cr'.del = v.del /\ cr'.phase = v.phase
      /\ cr'.gen = v.gen
  BY <1>1, <1>2 DEF Version
<1>4. Kept(p)
  BY <1>1, <1>3 DEF Kept
<1>5. Changed(cr')
  BY <1>4 DEF Kept, Changed, Sound
<1> QED
  BY <1>0, <1>2, <1>3, <1>4, <1>5 DEF Appended

LEMMA PhaseCommit ==
  ASSUME TypeOK, TypeOK', HistoryInv, NEW p \in Phases,
         cr.live, cr.fin, ~cr.del => p # "Terminating",
         NEW STATE v, v = InPhase(p) \/ v = Observed(p),
         Commit(v), UNCHANGED cache
  PROVE  (Same \/ Appended) /\ Kept(p)
<1>1. CASE v = cr /\ UNCHANGED <<cr, watch>>
  <2>1. v.phase = p
    BY HistoryType, InPhaseType DEF InPhase, Observed, Version
  <2> QED
    BY <1>1, <2>1 DEF Same, Kept
<1>2. CASE Store(v)
  BY <1>2, PhaseStore
<1> QED
  BY <1>1, <1>2 DEF Commit

\* A write ends the reconcile, or leaves it with the version it stored.
LEMMA WriteOutcome ==
  ASSUME NEW STATE v, NEW STATE then, NEW again, Write(v, then, again),
         UpToDate(inst) /\ Commit(v) => Same \/ Appended
  PROVE  /\ StoreStep
         /\ \/ pc' = "idle"
            \/ UpToDate(inst) /\ Commit(v) /\ pc' = then /\ inst' = cr'
<1>1. UNCHANGED cache
  BY DEF Write
<1>2. CASE Written(v, then, again)
  BY <1>2 DEF Written, Goto, StoreStep
<1>3. CASE Refused
  BY <1>1, <1>3 DEF Refused, Retry, Goto, StoreStep, Same
<1>4. CASE WriteLost(v)
  BY <1>1, <1>4 DEF WriteLost, Retry, Goto, StoreStep, Same
<1> QED
  BY <1>2, <1>3, <1>4 DEF Write

\* What a reconcile that builds has to know of its copy at step s.
Ready(s, v) ==
  /\ s \in BuildSteps
  /\ s = "pending" => v.phase = ""
  /\ s = "creating" => v.phase = "Pending"
  /\ s \notin {"pending", "creating"} => v.phase \notin {"", "Pending"}
  /\ v.phase # "Terminating"

LEMMA BuildStay ==
  ASSUME TypeOK', Ready(pc', inst'), Builds(inst'),
         cr'.live, cr'.fin, cr'.uid = inst'.uid,
         \/ inst' = cr'
         \/ inst'.rv <= cr'.rv /\ (inst'.rv = cr'.rv => inst' = cr')
  PROVE  StayInv'
<1>1. pc' \in BuildSteps /\ pc' # "idle" /\ pc' # "adopt"
      /\ pc' \notin DeletionSteps
  BY DEF Ready, BuildSteps, DeletionSteps, Kinds
<1>2. FinalizerHeld'
  BY DEF FinalizerHeld
<1>3. CopyInv'
  <2>1. cr'.uid \in Nat /\ cr'.rv \in Nat
    BY DEF TypeOK, ClusterTypeOK, Version
  <2> QED
    BY <2>1 DEF CopyInv
<1>4. StepInv'
  BY <1>1 DEF StepInv, Ready, Builds
<1>5. DeletionInv' /\ FenceInv'
  BY <1>1 DEF DeletionInv, FenceInv, DeletionSteps
<1> QED
  BY <1>2, <1>3, <1>4, <1>5 DEF StayInv

\* A status write on the way up.
LEMMA BuildWrite ==
  ASSUME Base, TypeOK', pc \in BuildSteps,
         NEW p \in Phases \ {"Terminating"},
         NEW STATE v, v = InPhase(p) \/ v = Observed(p),
         NEW STATE then, NEW again,
         then = "idle" \/ (then \in BuildSteps /\ then # "pending"
                            /\ (then = "creating" => p = "Pending")
                            /\ (then # "creating" => p \notin {"", "Pending"})),
         Write(v, then, again)
  PROVE  /\ StoreStep /\ StayInv'
         /\ UpToDate(inst) /\ Commit(v) => inst = cr /\ Kept(p)
<1>0. TypeOK /\ HistoryInv /\ StayInv /\ UNCHANGED cache /\ pc # "idle"
  BY DEF Base, Write, BuildSteps, Kinds
<1>1. cr.live /\ cr.fin /\ (UpToDate(inst) => inst = cr /\ ~cr.del)
  BY <1>0, Current DEF StayInv, FinalizerHeld, StepInv, Builds
<1>2. Commit(v) => (Same \/ Appended) /\ Kept(p)
  BY <1>0, <1>1, PhaseCommit
<1>3. /\ StoreStep
      /\ \/ pc' = "idle"
         \/ UpToDate(inst) /\ Commit(v) /\ pc' = then /\ inst' = cr'
  BY <1>2, WriteOutcome
<1>4. CASE pc' = "idle"
  BY <1>1, <1>2, <1>3, <1>4, IdleStay
<1>5. CASE pc' # "idle" /\ UpToDate(inst) /\ Commit(v)
           /\ pc' = then /\ inst' = cr'
  <2>1. Kept(p) /\ ~cr'.del
    BY <1>1, <1>2, <1>5 DEF Kept
  <2>2. Ready(pc', inst') /\ Builds(inst')
    <3>1. inst'.phase = p /\ p # "Terminating"
      BY <1>5, <2>1 DEF Kept
    <3>2. then # "idle" /\ pc' = then
      BY <1>5
    <3>3. Ready(pc', inst')
      BY <3>1, <3>2 DEF Ready
    <3>4. Builds(inst')
      BY <1>5, <2>1 DEF Kept, Builds
    <3> QED
      BY <3>3, <3>4
  <2>4. StayInv'
    BY <1>5, <2>1, <2>2, BuildStay DEF Kept
  <2> QED
    BY <1>1, <1>2, <1>3, <2>4
<1> QED
  BY <1>3, <1>4, <1>5

LEMMA RewordedStep ==
  ASSUME Base, TypeOK', pc = "failed", Reworded
  PROVE  StoreStep /\ StayInv'
<1>1. TypeOK /\ HistoryInv /\ StayInv
  BY DEF Base
<1>2. inst = cr /\ cr.live /\ cr.fin
  BY <1>1, Current DEF Reworded, StayInv, StepInv, Builds, BuildSteps
<1>3. Store(Observed("Failed")) /\ UNCHANGED cache /\ pc' = "idle"
  BY DEF Reworded, Retry, Goto
<1>4. Appended
  BY <1>1, <1>2, <1>3, PhaseStore DEF Phases
<1> QED
  BY <1>3, <1>4, IdleStay DEF StoreStep

LEMMA BeginStep ==
  ASSUME Base, TypeOK', Begin
  PROVE  StoreStep /\ StayInv'
<1>0. /\ TypeOK /\ HistoryInv /\ HeldInv
      /\ UNCHANGED <<cr, cache, watch>> /\ pc' = Entry(cache)
  BY DEF Base, Begin, Goto
<1>1. StoreStep
  BY <1>0 DEF StoreStep, Same
<1>2. 0 \in 0 .. Last /\ V(0) = cache /\ Sound(cache)
  BY <1>0, HistoryType DEF V, HistoryInv
<1>3. CASE pc' = "idle"
  BY <1>1, <1>3, IdleStay
<1>4. CASE pc' # "idle"
  <2>0. inst' = cache /\ cache.live
    BY <1>0, <1>4 DEF Begin, Goto, Entry
  <2>1. /\ cache.rv \in Nat /\ cr.rv \in Nat
        /\ cache.uid \in Nat /\ cr.uid \in Nat
    BY <1>0, HistoryType DEF Version
  <2>2. /\ inst'.rv <= cr'.rv /\ inst'.uid <= cr'.uid
        /\ inst'.rv = cr'.rv => inst' = cr'
    <3>1. cache = cr \/ Ages(cache, cr)
      BY <1>0, <1>2, HistoryBound
    <3> QED
      BY <1>0, <2>0, <2>1, <3>1 DEF Ages
  <2>3. CASE cache.del
    <3>1. cache.fin /\ pc' = "terminating"
      BY <1>0, <1>4, <2>0, <2>3 DEF Entry
    <3>2. ASSUME NEW i \in 0 .. Last, V(i).uid = cache.uid
          PROVE  Dying(V(i))
      <4>1. CASE i = 0
        BY <1>2, <2>3, <4>1 DEF Dying
      <4>2. CASE i # 0
        <5>1. 0 < i
          BY <1>0, <4>2, HistoryType
        <5>2. Ages(cache, V(i))
          BY <1>0, <1>2, <5>1 DEF HistoryInv
        <5> QED
          BY <2>3, <3>2, <5>2 DEF Ages, Dying
      <4> QED
        BY <4>1, <4>2
    <3>3. DeletionInv'
      BY <1>0, <2>0, <3>2 DEF DeletionInv, Last, V, Dying
    <3> QED
      BY <1>1, <2>0, <2>2, <2>3, <3>1, <3>3
      DEF StayInv, FinalizerHeld, CopyInv, StepInv, FenceInv,
          DeletionSteps, BuildSteps, Kinds
  <2>4. CASE ~cache.del /\ ~cache.fin
    <3>1. pc' = "adopt"
      BY <1>0, <2>0, <2>4 DEF Entry
    <3> QED
      BY <1>1, <2>0, <2>2, <2>4, <3>1
      DEF StayInv, FinalizerHeld, CopyInv, StepInv, FenceInv, DeletionInv,
          DeletionSteps, BuildSteps, Kinds
  <2>5. CASE ~cache.del /\ cache.fin
    <3>1. Builds(cache) /\ pc' = BuildFrom(cache)
      BY <1>0, <2>0, <2>5 DEF Entry, Builds
    <3>2. cr.live /\ cr.fin /\ cr.uid = cache.uid
      BY <1>0, <1>2, <3>1 DEF HeldInv
    <3>3. cache.phase # "Terminating"
      BY <1>2, <2>0, <2>5 DEF Sound
    <3>4. Ready(pc', inst')
      BY <2>0, <3>1, <3>3 DEF Ready, BuildFrom, BuildSteps, Kinds
    <3> QED
      BY <1>0, <1>1, <2>0, <2>2, <3>1, <3>2, <3>4, BuildStay
  <2> QED
    BY <2>3, <2>4, <2>5
<1> QED
  BY <1>3, <1>4

LEMMA AddFinalizerStep ==
  ASSUME Base, TypeOK', AddFinalizer
  PROVE  /\ StoreStep /\ StayInv'
         /\ UpToDate(inst) /\ Commit([cr EXCEPT !.fin = TRUE]) => cr'.phase = ""
<1> DEFINE v == [cr EXCEPT !.fin = TRUE]
<1>0. /\ TypeOK /\ HistoryInv /\ StayInv /\ pc = "adopt"
      /\ Write(v, BuildFrom(cr), FALSE) /\ UNCHANGED cache
      /\ cr \in Version /\ cr' \in Version
  BY HistoryType DEF Base, AddFinalizer, Write, TypeOK, ClusterTypeOK
<1>1. ASSUME UpToDate(inst)
      PROVE  cr = inst /\ cr.live /\ ~cr.fin /\ ~cr.del /\ cr.phase = ""
  <2>1. cr = inst /\ cr.live
    BY <1>0, <1>1, Current
  <2>2. ~cr.fin /\ ~cr.del
    BY <1>0, <2>1 DEF StayInv, StepInv
  <2> QED
    BY <1>0, <2>1, <2>2, GoneLive DEF Sound
<1>2. ASSUME UpToDate(inst), Commit(v)
      PROVE  /\ Appended
             /\ Builds(cr') /\ cr'.phase = ""
  <2>1. /\ v.live /\ v.uid = cr.uid /\ v.fin /\ ~v.del
        /\ v.phase = "" /\ v # cr
    BY <1>0, <1>1, <1>2 DEF Version
  <2>2. cr' = [v EXCEPT !.rv = cr.rv + 1] /\ watch' = Append(watch, cr')
    BY <1>2, <2>1 DEF Commit, Store, Stored
  <2>3. /\ cr'.rv = cr.rv + 1 /\ cr'.live /\ cr'.uid = cr.uid
        /\ cr'.fin /\ ~cr'.del /\ cr'.phase = ""
    BY <1>0, <2>1, <2>2 DEF Version
  <2>4. Changed(cr')
    BY <1>0, <1>1, <1>2, <2>3 DEF Changed, Sound
  <2> QED
    BY <1>0, <2>2, <2>3, <2>4 DEF Appended, Builds
<1>3. /\ StoreStep
      /\ \/ pc' = "idle"
         \/ UpToDate(inst) /\ Commit(v) /\ pc' = BuildFrom(cr) /\ inst' = cr'
  <2> HIDE DEF v
  <2> QED
    BY <1>0, <1>2, WriteOutcome
<1>4. CASE pc' = "idle"
  BY <1>2, <1>3, <1>4, IdleStay
<1>5. CASE UpToDate(inst) /\ Commit(v) /\ pc' = BuildFrom(cr) /\ inst' = cr'
  <2>1. pc' = "pending" /\ Builds(inst') /\ inst'.phase = ""
    BY <1>1, <1>2, <1>5 DEF BuildFrom
  <2>2. Ready(pc', inst')
    BY <2>1 DEF Ready, BuildSteps
  <2>3. cr'.live /\ cr'.fin /\ cr'.uid = inst'.uid
    BY <1>5, <2>1 DEF Builds
  <2>4. StayInv'
    BY <1>5, <2>1, <2>2, <2>3, BuildStay
  <2> QED
    BY <1>2, <1>3, <2>4
<1> QED
  BY <1>3, <1>4, <1>5

LEMMA SetTerminatingStep ==
  ASSUME Base, TypeOK', SetTerminating
  PROVE  /\ StoreStep /\ StayInv'
         /\ UpToDate(inst) /\ Commit(InPhase("Terminating"))
              => cr'.phase = "Terminating"
<1> DEFINE v == InPhase("Terminating")
<1>0. /\ TypeOK /\ HistoryInv /\ StayInv /\ pc = "terminating"
      /\ Write(v, "deleteNamespace", FALSE) /\ UNCHANGED cache
  BY DEF Base, SetTerminating, Write
<1>1. ASSUME UpToDate(inst)
      PROVE  cr = inst /\ cr.live /\ cr.fin /\ cr.del
  BY <1>0, <1>1, Current DEF StayInv, StepInv, DeletionSteps
<1>2. ASSUME UpToDate(inst), Commit(v)
      PROVE  (Same \/ Appended) /\ Kept("Terminating")
  BY <1>0, <1>1, <1>2, PhaseCommit DEF Phases
<1>3. /\ StoreStep
      /\ \/ pc' = "idle"
         \/ /\ UpToDate(inst) /\ Commit(v)
            /\ pc' = "deleteNamespace" /\ inst' = cr'
  <2> HIDE DEF v
  <2> QED
    BY <1>0, <1>2, WriteOutcome
<1>4. CASE pc' = "idle"
  BY <1>2, <1>3, <1>4, IdleStay DEF Kept
<1>5. CASE /\ UpToDate(inst) /\ Commit(v)
           /\ pc' = "deleteNamespace" /\ inst' = cr'
  <2>1. /\ cr'.uid = inst.uid /\ cr'.live /\ cr'.fin /\ cr'.del
        /\ cr'.phase = "Terminating"
    BY <1>1, <1>2, <1>5 DEF Kept
  <2>2. DeletionInv'
    BY <1>0, <1>3, <1>5, <2>1, DeletionStep DEF StayInv, DeletionSteps
  <2>3. FinalizerHeld' /\ StepInv' /\ FenceInv'
    BY <1>5, <2>1 DEF FinalizerHeld, StepInv, FenceInv, BuildSteps,
                      DeletionSteps, Kinds
  <2>4. CopyInv'
    <3>1. cr'.uid \in Nat /\ cr'.rv \in Nat
      BY DEF TypeOK, ClusterTypeOK, Version
    <3> QED
      BY <1>5, <3>1 DEF CopyInv
  <2> QED
    BY <1>3, <2>1, <2>2, <2>3, <2>4 DEF StayInv
<1> QED
  BY <1>3, <1>4, <1>5

LEMMA RemoveFinalizerStep ==
  ASSUME Base, TypeOK', RemoveFinalizer
  PROVE  /\ StoreStep /\ StayInv'
         /\ UpToDate(inst) /\ Commit([cr EXCEPT !.fin = FALSE])
              => ~cr'.live /\ cr'.phase = ""
<1> DEFINE v == [cr EXCEPT !.fin = FALSE]
<1>0. /\ TypeOK /\ HistoryInv /\ StayInv /\ pc = "release"
      /\ Write(v, "idle", FALSE) /\ UNCHANGED cache
      /\ cr \in Version /\ cr' \in Version
  BY HistoryType DEF Base, RemoveFinalizer, Write, TypeOK, ClusterTypeOK
<1>1. pc' = "idle"
  BY <1>0 DEF Write, Written, Refused, WriteLost, Goto, Retry
<1>2. ASSUME UpToDate(inst), Commit(v)
      PROVE  Appended /\ ~cr'.live /\ cr'.phase = ""
  <2>1. cr = inst /\ cr.live /\ cr.fin /\ cr.del
    BY <1>0, <1>2, Current DEF StayInv, StepInv, DeletionSteps
  <2>2. v.del /\ ~v.fin /\ v.uid = cr.uid /\ v # cr
    BY <1>0, <2>1 DEF Version
  <2>3. cr' = Gone(cr.rv + 1, cr.uid) /\ watch' = Append(watch, cr')
    BY <1>2, <2>2 DEF Commit, Store, Stored
  <2>4. cr'.rv = cr.rv + 1
    BY <2>3 DEF Gone
  <2>5. Removed(cr')
    BY <1>0, <1>1, <2>1, <2>3 DEF Removed
  <2> QED
    BY <1>0, <2>3, <2>4, <2>5, GoneFields DEF Appended
<1>3. StoreStep
  <2> HIDE DEF v
  <2> QED
    BY <1>0, <1>2, WriteOutcome
<1> QED
  BY <1>1, <1>2, <1>3, IdleStay

\* Calls that leave the resource alone: the reconcile goes on with its copy,
\* from one building step to a later one, or ends.
LEMMA MoveStep ==
  ASSUME Base, TypeOK', Same, pc' # "idle" => inst' = inst,
         \/ pc' = "idle"
         \/ /\ pc \in BuildSteps \ {"pending", "creating"}
            /\ pc' \in BuildSteps \ {"pending", "creating"}
         \/ pc = "deleteNamespace" /\ pc' = "release"
  PROVE  StoreStep /\ StayInv'
<1>0. TypeOK /\ HistoryInv /\ StayInv /\ UNCHANGED <<cr, cache, watch>>
  BY DEF Base, Same
<1>1. StoreStep
  BY DEF StoreStep
<1>2. CASE pc' = "idle"
  BY <1>1, <1>2, IdleStay
<1>3. CASE /\ pc \in BuildSteps \ {"pending", "creating"}
           /\ pc' \in BuildSteps \ {"pending", "creating"}
  <2>1. inst' = inst /\ pc # "idle"
    BY <1>3 DEF BuildSteps, Kinds
  <2>2. Ready(pc', inst') /\ Builds(inst')
    BY <1>0, <1>3, <2>1 DEF StayInv, StepInv, Ready
  <2>3. cr.live /\ cr.fin /\ cr.uid = inst.uid
    BY <1>0, <1>3 DEF StayInv, FinalizerHeld
  <2>4. inst.rv <= cr.rv /\ (inst.rv = cr.rv => inst = cr)
    BY <1>0, <2>1 DEF StayInv, CopyInv
  <2>5. StayInv'
    BY <1>0, <2>1, <2>2, <2>3, <2>4, BuildStay
  <2> QED
    BY <1>1, <2>5
<1>4. CASE pc = "deleteNamespace" /\ pc' = "release"
  <2>1. inst' = inst /\ pc # "idle"
    BY <1>4
  <2>2. DeletionInv'
    BY <1>0, <1>1, <1>4, <2>1, DeletionStep DEF StayInv, DeletionSteps
  <2>3. FinalizerHeld' /\ StepInv' /\ FenceInv'
    BY <1>0, <1>4, <2>1
    DEF StayInv, FinalizerHeld, StepInv, FenceInv, BuildSteps,
        DeletionSteps, Kinds
  <2>4. CopyInv'
    BY <1>0, <2>1 DEF StayInv, CopyInv
  <2> QED
    BY <1>1, <2>2, <2>3, <2>4 DEF StayInv
<1> QED
  BY <1>2, <1>3, <1>4

\* Every step of the system grows the history and keeps what the copy says.
LEMMA StayInvariant ==
  ASSUME Base, TypeOK', [Next]_vars
  PROVE  StoreStep /\ StayInv'
<1>0. TypeOK /\ HistoryInv /\ StayInv
  BY DEF Base
<1>1. CASE Begin
  BY <1>1, BeginStep
<1>2. CASE AddFinalizer
  BY <1>2, AddFinalizerStep
<1>3. CASE SetPending
  <2>1. Write(InPhase("Pending"), "creating", FALSE) /\ pc = "pending"
    BY <1>3 DEF SetPending
  <2>2. /\ "Pending" \in Phases \ {"Terminating"}
        /\ pc \in BuildSteps /\ "creating" \in BuildSteps
    BY <2>1 DEF Phases, BuildSteps
  <2> QED
    BY <2>1, <2>2, BuildWrite
<1>4. CASE SetCreating
  <2>1. Write(InPhase("Creating"), "ns", FALSE) /\ pc = "creating"
    BY <1>4 DEF SetCreating
  <2>2. /\ "Creating" \in Phases \ {"Terminating"}
        /\ pc \in BuildSteps /\ "ns" \in BuildSteps
    BY <2>1 DEF Phases, BuildSteps, Kinds
  <2> QED
    BY <2>1, <2>2, BuildWrite
<1>5. CASE \E k \in Kinds : ReconcileChild(k)
  <2> PICK k \in Kinds : ReconcileChild(k)
    BY <1>5
  <2>1. Same /\ inst' = inst /\ pc = k /\ pc' \in {After(k), "failed"}
    <3>1. After(k) # "idle"
      BY DEF After, Kinds
    <3> QED
      BY <3>1 DEF ReconcileChild, Same, Goto
  <2>2. {k, After(k), "failed"} \subseteq BuildSteps \ {"pending", "creating"}
    BY DEF After, BuildSteps, Kinds
  <2> QED
    BY <2>1, <2>2, MoveStep
<1>6. CASE SetFailed
  <2>1. pc = "failed" /\ pc \in BuildSteps
        /\ "Failed" \in Phases \ {"Terminating"}
    BY <1>6 DEF SetFailed, Phases, BuildSteps
  <2>2. CASE Write(Observed("Failed"), "idle", TRUE)
    BY <2>1, <2>2, BuildWrite
  <2>3. CASE Reworded
    BY <2>1, <2>3, RewordedStep
  <2> QED
    BY <1>6, <2>2, <2>3 DEF SetFailed
<1>7. CASE CheckReady
  <2>1. Same /\ pc = "check"
    BY <1>7 DEF CheckReady, Same, clusterVars
  <2>2. pc' = "idle" \/ (inst' = inst /\ pc' \in {"running", "starting"})
    BY <1>7 DEF CheckReady, Goto, Retry
  <2>3. {"check", "running", "starting"}
          \subseteq BuildSteps \ {"pending", "creating"}
    BY DEF BuildSteps
  <2> QED
    BY <2>1, <2>2, <2>3, MoveStep
<1>8. CASE SetStarting
  <2>1. Write(Observed("Starting"), "idle", TRUE) /\ pc = "starting"
    BY <1>8 DEF SetStarting
  <2>2. "Starting" \in Phases \ {"Terminating"} /\ pc \in BuildSteps
    BY <2>1 DEF Phases, BuildSteps
  <2> QED
    BY <2>1, <2>2, BuildWrite
<1>9. CASE SetRunning
  <2> DEFINE then == IF inst.phase = "Running" THEN "idle" ELSE "notify"
  <2>1. Write(Observed("Running"), then, FALSE) /\ pc = "running"
    BY <1>9 DEF SetRunning
  <2>2. "Running" \in Phases \ {"Terminating"} /\ pc \in BuildSteps
    BY <2>1 DEF Phases, BuildSteps
  <2>3. then = "idle" \/ (then = "notify" /\ then \in BuildSteps)
    BY DEF BuildSteps
  <2> HIDE DEF then
  <2> QED
    BY <2>1, <2>2, <2>3, BuildWrite
<1>10. CASE Notify
  BY <1>10, MoveStep DEF Notify, Done, Goto, Same, clusterVars
<1>11. CASE SetTerminating
  BY <1>11, SetTerminatingStep
<1>12. CASE DeleteNamespace
  <2>1. /\ Same /\ pc = "deleteNamespace"
        /\ pc' = "idle" \/ (pc' = "release" /\ inst' = inst)
    BY <1>12 DEF DeleteNamespace, Same, Goto, Retry
  <2> QED
    BY <2>1, MoveStep
<1>13. CASE RemoveFinalizer
  BY <1>13, RemoveFinalizerStep
<1>14. CASE Environment
  <2>1. StoreStep /\ UNCHANGED <<pc, inst>>
    BY <1>0, <1>14, EnvironmentStore
  <2> QED
    BY <1>0, <2>1, StayStep
<1>15. CASE TimerFires
  <2>1. StoreStep /\ UNCHANGED <<pc, inst>>
    BY <1>15 DEF TimerFires, StoreStep, Same
  <2> QED
    BY <1>0, <2>1, StayStep
<1>16. CASE CrashRestart
  <2>1. StoreStep /\ pc' = "idle"
    BY <1>16 DEF CrashRestart, StoreStep, Listed
  <2> QED
    BY <2>1, IdleStay
<1>17. CASE UNCHANGED vars
  <2>1. StoreStep /\ UNCHANGED <<pc, inst>>
    BY <1>17 DEF vars, clusterVars, workerVars, StoreStep, Same
  <2> QED
    BY <1>0, <2>1, StayStep
<1> QED
  BY <1>1, <1>2, <1>3, <1>4, <1>5, <1>6, <1>7, <1>8, <1>9, <1>10, <1>11,
     <1>12, <1>13, <1>14, <1>15, <1>16, <1>17
  DEF Next, Worker

LEMMA BaseInit ==
  ASSUME Init, TypeOK
  PROVE  Base
<1>1. Last = 0 /\ pc = "idle" /\ cr = Gone(0, 0) /\ cache = cr
  BY DEF Init, ClusterInit, Last
<1>2. \A i \in 0 .. Last : V(i) = cr
  BY <1>1 DEF V
<1>3. ~cr.live /\ cr.rv = 0 /\ cr.uid = 0
  BY <1>1 DEF Gone
<1>4. Sound(cr)
  BY <1>1, <1>3 DEF Sound
<1>5. HistoryInv
  <2>1. ASSUME NEW i \in 0 .. Last, NEW j \in 0 .. Last
        PROVE  ~(i < j)
    BY <1>1
  <2> QED
    BY <1>2, <1>4, <2>1 DEF HistoryInv
<1>6. HeldInv
  BY <1>2, <1>3 DEF HeldInv, Builds
<1>7. StayInv
  BY <1>1 DEF StayInv, FinalizerHeld, CopyInv, StepInv, DeletionInv, FenceInv,
              BuildSteps, DeletionSteps, Kinds
<1> QED
  BY <1>5, <1>6, <1>7 DEF Base

LEMMA BaseStep ==
  ASSUME Base, [Next]_vars
  PROVE  Base'
<1>1. TypeOK'
  BY TypeStep DEF Base
<1>2. StoreStep /\ StayInv'
  BY <1>1, StayInvariant
<1>3. HistoryInv'
  BY <1>2, HistoryStep DEF Base
<1>4. HeldInv'
  BY <1>2, HeldStep DEF Base, StayInv
<1> QED
  BY <1>1, <1>2, <1>3, <1>4 DEF Base

\* The versions between the cache and the API server always form a history of
\* the resource, and a reconcile knows as much of it as its steps rely on.
THEOREM HistoryCorrect == Spec => []Base
<1>1. Init => TypeOK
  BY TypeInit
<1>2. Init => Base
  BY <1>1, BaseInit
<1>3. Base /\ [Next]_vars => Base'
  BY BaseStep
<1> QED
  BY <1>2, <1>3, PTL DEF Spec

\* A reconcile builds only for a resource that is in the API server and holds
\* the finalizer: no child is created for a resource that may vanish.
THEOREM FinalizerCorrect == Spec => []FinalizerHeld
<1>1. Base => FinalizerHeld
  BY DEF Base, StayInv
<1> QED
  BY <1>1, HistoryCorrect, PTL

-----------------------------------------------------------------------------
(* How the children change *)

\* Neither the state of the child nor its generation changes.
Alike(k) ==
  obj'[k].state = obj[k].state /\ obj'[k].gen = obj[k].gen

\* The namespace controller's part.
Vanishes(k) ==
  /\ obj["ns"].state = "terminating" /\ obj'[k].state = "absent"
  /\ k = "ns" => \A c \in Contents : obj[c].state = "absent"

\* The worker's part.
Applied(k) == pc = k /\ ReconcileChild(k) /\ Accepted(k) /\ Apply(k)

Razed(k) ==
  /\ k = "ns" /\ DeleteNamespace
  /\ obj["ns"].state = "active" /\ obj'["ns"].state = "terminating"

LEMMA PutSets ==
  ASSUME TypeOK, NEW c \in Kinds, NEW STATE o, o \in Object, Put(c, o),
         NEW k \in Kinds
  PROVE  /\ k # c => obj'[k] = obj[k]
         /\ k = c => obj'[k].state = o.state /\ obj'[k].gen = o.gen
                       /\ obj'[k].ready = o.ready
<1>1. obj \in [Kinds -> Object]
  BY DEF TypeOK, ClusterTypeOK
<1>2. obj' = [obj EXCEPT ![c] = [o EXCEPT !.ver = obj[c].ver + 1]]
  BY DEF Put
<1>3. k # c => obj'[k] = obj[k]
  BY <1>1, <1>2
<1>4. k = c => obj'[k] = [o EXCEPT !.ver = obj[c].ver + 1]
  BY <1>1, <1>2
<1> QED
  BY <1>3, <1>4 DEF Object

LEMMA DesiredType ==
  ASSUME TypeOK, NEW k \in Kinds
  PROVE  /\ Desired(k, obj[k]) \in Object
         /\ Desired(k, obj[k]).state
              = IF obj[k].state = "absent" THEN "active" ELSE obj[k].state
         /\ Desired(k, obj[k]).gen = IF k = "deploy" THEN inst.gen ELSE obj[k].gen
<1>1. obj[k] \in Object /\ inst.gen \in Nat
  BY DEF TypeOK, ClusterTypeOK, Version
<1> QED
  BY <1>1 DEF Desired, Object

\* What an accepted call makes of the child.
LEMMA ApplySets ==
  ASSUME TypeOK, NEW c \in Kinds, Apply(c), NEW k \in Kinds
  PROVE  /\ k # c => obj'[k] = obj[k]
         /\ k = c => /\ obj'[k].state
                          = IF obj[k].state = "absent" THEN "active" ELSE obj[k].state
                     /\ obj'[k].gen = IF k = "deploy" THEN inst.gen ELSE obj[k].gen
<1>1. CASE Desired(c, obj[c]) = obj[c] /\ UNCHANGED obj
  BY <1>1, DesiredType
<1>2. CASE Put(c, Desired(c, obj[c]))
  BY <1>2, DesiredType, PutSets
<1> QED
  BY <1>1, <1>2 DEF Apply

LEMMA ChildMoves ==
  ASSUME TypeOK, [Next]_vars, NEW k \in Kinds
  PROVE  Alike(k) \/ Vanishes(k) \/ Applied(k) \/ Razed(k)
<1>0. /\ obj \in [Kinds -> Object] /\ NoObject \in Object /\ NoObject.state = "absent"
      /\ {"ns", "deploy"} \subseteq Kinds /\ Contents \subseteq Kinds
  BY DEF TypeOK, ClusterTypeOK, NoObject, Object, Kinds, Contents
<1>1. CASE \E c \in Contents : Purge(c)
  BY <1>0, <1>1, PutSets DEF Purge, Alike, Vanishes, Contents
<1>2. CASE NamespaceGone
  BY <1>0, <1>2, PutSets DEF NamespaceGone, Alike, Vanishes
<1>3. CASE PodReady \/ PodUnready
  <2>1. ASSUME NEW b \in BOOLEAN, Put("deploy", [obj["deploy"] EXCEPT !.ready = b])
        PROVE  Alike(k)
    <3> DEFINE o == [obj["deploy"] EXCEPT !.ready = b]
    <3>1. o \in Object /\ o.state = obj["deploy"].state /\ o.gen = obj["deploy"].gen
      BY <1>0 DEF Object
    <3>2. Put("deploy", o)
      BY <2>1
    <3> HIDE DEF o
    <3> QED
      BY <1>0, <3>1, <3>2, PutSets DEF Alike
  <2> QED
    BY <1>3, <2>1 DEF PodReady, PodUnready
<1>4. CASE \E c \in Kinds : ReconcileChild(c)
  <2> PICK c \in Kinds : ReconcileChild(c)
    BY <1>4
  <2>1. CASE UNCHANGED obj
    BY <2>1 DEF Alike
  <2>2. CASE Accepted(c) /\ Apply(c)
    <3>1. CASE k = c
      BY <2>2, <3>1 DEF Applied, ReconcileChild
    <3>2. CASE k # c
      BY <2>2, <3>2, ApplySets DEF Alike
    <3> QED
      BY <3>1, <3>2
  <2> QED
    BY <2>1, <2>2 DEF ReconcileChild
<1>5. CASE DeleteNamespace
  <2>1. CASE UNCHANGED obj
    BY <2>1 DEF Alike
  <2>2. CASE MarkNamespace /\ obj["ns"].state = "active"
    <3> DEFINE o == [obj["ns"] EXCEPT !.state = "terminating"]
    <3>1. o \in Object /\ o.state = "terminating"
      BY <1>0 DEF Object
    <3>2. Put("ns", o)
      BY <2>2 DEF MarkNamespace
    <3> HIDE DEF o
    <3>3. CASE k = "ns"
      BY <1>0, <1>5, <2>2, <3>1, <3>2, <3>3, PutSets DEF Razed
    <3>4. CASE k # "ns"
      BY <1>0, <3>1, <3>2, <3>4, PutSets DEF Alike
    <3> QED
      BY <3>3, <3>4
  <2> QED
    BY <1>5, <2>1, <2>2 DEF DeleteNamespace, MarkNamespace
<1>6. CASE UNCHANGED obj
  BY <1>6 DEF Alike
<1> QED
  BY <1>1, <1>2, <1>3, <1>4, <1>5, <1>6
  DEF Next, Worker, Environment, CreateInstance, EditConfig, DeleteInstance, Deliver,
      SyncChild, Resync, Begin, AddFinalizer, SetPending, SetCreating, SetFailed,
      CheckReady, SetStarting, SetRunning, Notify, SetTerminating,
      RemoveFinalizer, TimerFires, CrashRestart, Write, Reworded, vars,
      clusterVars

-----------------------------------------------------------------------------
(* Deleting the namespace *)

\* Only DeleteNamespace takes an active namespace down.
LEMMA OnlyDeleteNamespace ==
  ASSUME TypeOK, [Next]_vars,
         obj["ns"].state = "active", obj'["ns"].state = "terminating"
  PROVE  DeleteNamespace
<1>1. "ns" \in Kinds
  BY DEF Kinds
<1> QED
  BY <1>1, ApplySets, ChildMoves DEF Alike, Vanishes, Applied, Razed

\* The namespace is taken down only for the resource in the API server, and
\* only while that one is being deleted, however stale the cache was that the
\* deletion was read from.
THEOREM NamespaceCorrect == Spec => NamespaceDeletedOnRequest
<1> DEFINE A == obj["ns"].state = "active" /\ obj'["ns"].state = "terminating"
                  => cr.live /\ cr.del /\ cr.uid = inst.uid
<1>1. Base /\ [Next]_vars => [A]_vars
  <2> SUFFICES ASSUME Base, [Next]_vars, obj["ns"].state = "active",
                      obj'["ns"].state = "terminating"
               PROVE  cr.live /\ cr.del /\ cr.uid = inst.uid
    OBVIOUS
  <2>1. DeleteNamespace
    BY OnlyDeleteNamespace DEF Base
  <2> QED
    BY <2>1 DEF DeleteNamespace, Base, StayInv, FenceInv
<1>2. Spec => [][A]_vars
  BY <1>1, HistoryCorrect, PTL DEF Spec
<1> QED
  BY <1>2 DEF NamespaceDeletedOnRequest

-----------------------------------------------------------------------------
(* The phase while the namespace is being deleted *)

LEMMA EnvironmentPhase ==
  ASSUME TypeOK, cr.live, cr.del, cr.fin, Environment
  PROVE  cr'.phase = cr.phase
<1>1. CASE EditConfig
  <2> DEFINE v == [cr EXCEPT !.gen = @ + 1]
  <2>1. v.del /\ v.fin /\ v.phase = cr.phase
    BY HistoryType DEF Version
  <2>2. Commit(v) /\ v \in [rv: Nat, uid: Nat, live: BOOLEAN, fin: BOOLEAN,
                            del: BOOLEAN, gen: Int, phase: Phases, obs: Nat]
    BY <1>1, HistoryType DEF EditConfig, Version
  <2> HIDE DEF v
  <2>3. cr' = cr \/ cr' = [v EXCEPT !.rv = cr.rv + 1]
    BY <2>1, <2>2 DEF Commit, Store, Stored
  <2> QED
    BY <2>1, <2>2, <2>3
<1>2. ~CreateInstance /\ ~DeleteInstance
  BY DEF CreateInstance, DeleteInstance
<1>3. CASE UNCHANGED cr
  BY <1>3
<1> QED
  BY <1>1, <1>2, <1>3
  DEF Environment, Deliver, SyncChild, Resync, Purge, NamespaceGone, PodReady,
      PodUnready

LEMMA TerminatingStep ==
  ASSUME Base, Base', TerminatingInv, [Next]_vars
  PROVE  TerminatingInv'
<1> DEFINE F == {"deleteNamespace", "release"}
<1> SUFFICES ASSUME pc' \in F PROVE cr'.phase = "Terminating"
  BY DEF TerminatingInv
<1>0. TypeOK /\ TypeOK'
  BY DEF Base
<1>1. CASE SetTerminating
  <2>1. UpToDate(inst) /\ Commit(InPhase("Terminating"))
    BY <1>1 DEF SetTerminating, Write, Written, Refused, WriteLost, Goto, Retry
  <2> QED
    BY <1>0, <1>1, <2>1, SetTerminatingStep
<1>2. CASE DeleteNamespace
  BY <1>2 DEF DeleteNamespace, TerminatingInv
<1>3. CASE Environment
  <2>1. pc' = pc
    BY <1>3 DEF Environment, workerVars
  <2>2. cr.live /\ cr.del /\ cr.fin /\ cr.phase = "Terminating"
    BY <2>1 DEF Base, StayInv, FenceInv, TerminatingInv
  <2> QED
    BY <1>0, <1>3, <2>2, EnvironmentPhase
<1>4. CASE UNCHANGED <<cr, pc>>
  BY <1>4 DEF TerminatingInv
<1>5. CASE Begin
  BY <1>5 DEF Begin, Goto, Entry, BuildFrom
<1>6. CASE AddFinalizer
  BY <1>6 DEF AddFinalizer, Write, Written, Refused, WriteLost, Goto, Retry,
              BuildFrom
<1>7. CASE \E k \in Kinds : ReconcileChild(k)
  BY <1>7 DEF ReconcileChild, Goto, After, Kinds
<1>8. CASE SetPending \/ SetCreating \/ SetFailed \/ SetStarting
  BY <1>8 DEF SetPending, SetCreating, SetFailed, SetStarting, Reworded, Write,
              Written, Refused, WriteLost, Goto, Retry
<1>9. CASE SetRunning \/ RemoveFinalizer
  BY <1>9 DEF SetRunning, RemoveFinalizer, Write, Written, Refused, WriteLost,
              Goto, Retry
<1>10. CASE CheckReady \/ Notify \/ CrashRestart
  BY <1>10 DEF CheckReady, Notify, CrashRestart, Done, Goto, Retry
<1> QED
  BY <1>1, <1>2, <1>3, <1>4, <1>5, <1>6, <1>7, <1>8, <1>9, <1>10
  DEF Next, Worker, TimerFires, vars, clusterVars, workerVars

-----------------------------------------------------------------------------
(* Notifications *)

BudgetHeld == \A d \in Disturbances : budget[d] <= Budget[d]

\* Disturbances are only ever used up.
Falls == \A d \in Disturbances : budget'[d] <= budget[d]

LEMMA SpendFalls ==
  ASSUME TypeOK, BudgetHeld, NEW d \in Disturbances, Spend(d)
  PROVE  Falls /\ (d \in {"crash", "fault"} => ~Undisturbed')
<1>1. /\ budget \in [Disturbances -> Nat] /\ Budget \in [Disturbances -> Nat]
      /\ budget' = [budget EXCEPT ![d] = budget[d] - 1]
  BY BudgetAssumption DEF Spend, TypeOK, ClusterTypeOK
<1>2. /\ budget'[d] = budget[d] - 1
      /\ \A e \in Disturbances : e # d => budget'[e] = budget[e]
      /\ \A e \in Disturbances : budget[e] \in Nat /\ Budget[e] \in Nat
  BY <1>1
<1>3. Falls
  BY <1>2 DEF Falls
<1>4. budget'[d] # Budget[d]
  BY <1>2 DEF BudgetHeld
<1> QED
  BY <1>3, <1>4 DEF Undisturbed

LEMMA NoticeKept ==
  ASSUME TypeOK, TypeOK', NoticeInv, Falls,
         owed' >= Due', Undisturbed /\ Undisturbed' => owed' = Due'
  PROVE  NoticeInv'
<1>1. /\ \A d \in Disturbances : budget[d] \in Nat /\ Budget[d] \in Nat
      /\ \A d \in Disturbances : budget'[d] \in Nat
  BY BudgetAssumption DEF TypeOK, ClusterTypeOK
<1>2. \A d \in Disturbances : budget[d] <= Budget[d] /\ budget'[d] <= budget[d]
  BY DEF NoticeInv, Falls
<1>3. \A d \in Disturbances : budget'[d] <= Budget[d]
  BY <1>1, <1>2
<1>4. \A d \in Disturbances : budget'[d] = Budget[d] => budget[d] = Budget[d]
  BY <1>1, <1>2
<1>5. Undisturbed' => Undisturbed
  BY <1>4 DEF Undisturbed, Disturbances
<1> QED
  BY <1>3, <1>5 DEF NoticeInv, NoticesExact

\* A step of somebody else, or one of the reconcile before its last write.
LEMMA NoticeSame ==
  ASSUME TypeOK, TypeOK', NoticeInv, owed' = owed, Due' = Due,
         \/ UNCHANGED budget
         \/ \E d \in Disturbances : Spend(d)
  PROVE  NoticeInv'
<1>1. Falls
  <2>1. CASE UNCHANGED budget
    <3>1. \A d \in Disturbances : budget[d] \in Nat
      BY DEF TypeOK, ClusterTypeOK
    <3> QED
      BY <2>1, <3>1 DEF Falls
  <2>2. CASE \E d \in Disturbances : Spend(d)
    BY <2>2, SpendFalls DEF NoticeInv, BudgetHeld
  <2> QED
    BY <2>1, <2>2
<1>2. owed' >= Due' /\ (Undisturbed => owed' = Due')
  BY DEF NoticeInv, NoticesExact
<1> QED
  BY <1>1, <1>2, NoticeKept

\* A step that a crash or a failed call interrupts.
LEMMA NoticeLost ==
  ASSUME TypeOK, TypeOK', NoticeInv, pc' = "idle" \/ pc' = "failed",
         owed' = owed \/ owed' = owed + Entered,
         NEW d \in {"crash", "fault"}, Spend(d)
  PROVE  NoticeInv'
<1>1. Falls /\ ~Undisturbed'
  BY SpendFalls DEF NoticeInv, BudgetHeld, Disturbances
<1>2. owed \in Int /\ owed >= 0
  BY DEF NoticeInv, NoticesExact, Due, TypeOK
<1>3. Due' = 0
  BY DEF Due
<1>4. owed' >= Due'
  BY <1>2, <1>3 DEF Entered
<1> QED
  BY <1>1, <1>4, NoticeKept

LEMMA NoticeDue ==
  ASSUME TypeOK, TypeOK', NoticeInv, pc # "notify",
         owed' = owed + Due', UNCHANGED budget
  PROVE  NoticeInv'
<1>1. owed \in Int /\ owed >= 0 /\ (Undisturbed => owed = 0)
  BY DEF NoticeInv, NoticesExact, TypeOK, Due
<1>2. Due' \in Int
  BY DEF Due
<1>3. owed' >= Due' /\ (Undisturbed => owed' = Due')
  <2>1. ASSUME NEW x \in Int, NEW y \in Int, x >= 0
        PROVE  x + y >= y /\ (x = 0 => x + y = y)
    BY <2>1
  <2> QED
    BY <1>1, <1>2, <2>1
<1>4. Falls
  <2>1. \A d \in Disturbances : budget[d] \in Nat
    BY DEF TypeOK, ClusterTypeOK
  <2> QED
    BY <2>1 DEF Falls
<1> QED
  BY <1>3, <1>4, NoticeKept

\* A write makes a notification due exactly when it is the first to store the
\* phase Running, and then the reconcile goes on to send it.
LEMMA NoticeWrite ==
  ASSUME TypeOK, TypeOK', NoticeInv, pc # "notify",
         NEW STATE v, NEW STATE then, NEW again, Write(v, then, again),
         UpToDate(inst) /\ Commit(v)
           => (cr.phase # "Running" /\ cr'.phase = "Running" <=> then = "notify")
  PROVE  NoticeInv'
<1>1. Due = 0
  BY DEF Due
<1>2. CASE Written(v, then, again)
  <2>1. owed' = owed + Entered /\ pc' = then /\ UNCHANGED budget
    BY <1>2 DEF Written, Goto
  <2>2. Entered = Due'
    BY <1>2, <2>1 DEF Written, Entered, Due
  <2> QED
    BY <2>1, <2>2, NoticeDue
<1>3. CASE Refused
  <2>1. owed' = owed /\ pc' = "idle" /\ UNCHANGED budget
    BY <1>3 DEF Refused, Retry, Goto
  <2>2. Due' = Due
    BY <1>1, <2>1 DEF Due
  <2> QED
    BY <2>1, <2>2, NoticeSame
<1>4. CASE WriteLost(v)
  <2>1. /\ pc' = "idle" /\ Spend("fault")
        /\ owed' = owed \/ owed' = owed + Entered
    BY <1>4 DEF WriteLost, Retry, Goto
  <2> QED
    BY <2>1, NoticeLost
<1> QED
  BY <1>2, <1>3, <1>4 DEF Write

LEMMA NoticeStep ==
  ASSUME Base, Base', NoticeInv, [Next]_vars
  PROVE  NoticeInv'
<1>0. TypeOK /\ TypeOK' /\ HistoryInv
  BY DEF Base
<1>1. CASE Begin
  <2>1. Entry(cache) # "notify"
    BY DEF Entry, BuildFrom
  <2> QED
    BY <1>0, <1>1, <2>1, NoticeSame DEF Begin, Goto, Due
<1>2. CASE AddFinalizer
  <2>1. /\ pc # "notify" /\ BuildFrom(cr) # "notify"
        /\ Write([cr EXCEPT !.fin = TRUE], BuildFrom(cr), FALSE)
    BY <1>2 DEF AddFinalizer, BuildFrom
  <2>2. UpToDate(inst) /\ Commit([cr EXCEPT !.fin = TRUE]) => cr'.phase = ""
    BY <1>0, <1>2, AddFinalizerStep
  <2> QED
    BY <1>0, <2>1, <2>2, NoticeWrite
<1>3. CASE SetPending
  <2>1. /\ Write(InPhase("Pending"), "creating", FALSE) /\ pc = "pending"
        /\ pc \in BuildSteps /\ "creating" \in BuildSteps
        /\ "Pending" \in Phases \ {"Terminating"}
    BY <1>3 DEF SetPending, Phases, BuildSteps
  <2>2. UpToDate(inst) /\ Commit(InPhase("Pending")) => cr'.phase = "Pending"
    BY <1>0, <2>1, BuildWrite DEF Kept
  <2> QED
    BY <1>0, <2>1, <2>2, NoticeWrite
<1>4. CASE SetCreating
  <2>1. /\ Write(InPhase("Creating"), "ns", FALSE) /\ pc = "creating"
        /\ pc \in BuildSteps /\ "ns" \in BuildSteps
        /\ "Creating" \in Phases \ {"Terminating"}
    BY <1>4 DEF SetCreating, Phases, BuildSteps, Kinds
  <2>2. UpToDate(inst) /\ Commit(InPhase("Creating")) => cr'.phase = "Creating"
    BY <1>0, <2>1, BuildWrite DEF Kept
  <2> QED
    BY <1>0, <2>1, <2>2, NoticeWrite
<1>5. CASE \E k \in Kinds : ReconcileChild(k)
  <2> PICK k \in Kinds : ReconcileChild(k)
    BY <1>5
  <2>1. pc # "notify" /\ pc' # "notify" /\ owed' = owed
    BY DEF ReconcileChild, Goto, After, Kinds
  <2>2. UNCHANGED budget \/ Spend("fault")
    BY DEF ReconcileChild
  <2> QED
    BY <1>0, <2>1, <2>2, NoticeSame DEF Due, Disturbances
<1>6. CASE SetFailed
  <2>1. /\ pc = "failed" /\ pc \in BuildSteps
        /\ "Failed" \in Phases \ {"Terminating"}
    BY <1>6 DEF SetFailed, Phases, BuildSteps
  <2>2. CASE Write(Observed("Failed"), "idle", TRUE)
    <3>1. UpToDate(inst) /\ Commit(Observed("Failed")) => cr'.phase = "Failed"
      BY <1>0, <2>1, <2>2, BuildWrite DEF Kept
    <3> QED
      BY <1>0, <2>1, <2>2, <3>1, NoticeWrite
  <2>3. CASE Reworded
    BY <1>0, <2>1, <2>3, NoticeSame DEF Reworded, Retry, Goto, Due, Disturbances
  <2> QED
    BY <1>6, <2>2, <2>3 DEF SetFailed
<1>7. CASE CheckReady
  BY <1>0, <1>7, NoticeSame DEF CheckReady, Goto, Retry, Due, clusterVars
<1>8. CASE SetStarting
  <2>1. /\ Write(Observed("Starting"), "idle", TRUE) /\ pc = "starting"
        /\ pc \in BuildSteps /\ "Starting" \in Phases \ {"Terminating"}
    BY <1>8 DEF SetStarting, Phases, BuildSteps
  <2>2. UpToDate(inst) /\ Commit(Observed("Starting")) => cr'.phase = "Starting"
    BY <1>0, <2>1, BuildWrite DEF Kept
  <2> QED
    BY <1>0, <2>1, <2>2, NoticeWrite
<1>9. CASE SetRunning
  <2> DEFINE then == IF inst.phase = "Running" THEN "idle" ELSE "notify"
  <2>1. /\ Write(Observed("Running"), then, FALSE) /\ pc = "running"
        /\ pc \in BuildSteps /\ "Running" \in Phases \ {"Terminating"}
    BY <1>9 DEF SetRunning, Phases, BuildSteps
  <2>2. then = "idle" \/ (then = "notify" /\ then \in BuildSteps)
    BY DEF BuildSteps
  <2>3. then = "notify" <=> inst.phase # "Running"
    OBVIOUS
  <2> HIDE DEF then
  <2>4. UpToDate(inst) /\ Commit(Observed("Running"))
          => inst = cr /\ Kept("Running")
    BY <1>0, <2>1, <2>2, BuildWrite
  <2>5. UpToDate(inst) /\ Commit(Observed("Running"))
          => (cr.phase # "Running" /\ cr'.phase = "Running" <=> then = "notify")
    BY <2>3, <2>4 DEF Kept
  <2> QED
    BY <1>0, <2>1, <2>5, NoticeWrite
<1>10. CASE Notify
  <2>1. /\ pc = "notify" /\ pc' = "idle" /\ owed' = owed - 1
        /\ UNCHANGED budget
    BY <1>10 DEF Notify, Done, Goto, clusterVars
  <2>2. Due = 1 /\ Due' = 0 /\ owed \in Int
    BY <1>0, <2>1 DEF Due, TypeOK
  <2>3. owed' >= Due' /\ (Undisturbed => owed' = Due')
    BY <2>1, <2>2 DEF NoticeInv, NoticesExact
  <2>4. Falls
    <3>1. \A d \in Disturbances : budget[d] \in Nat
      BY <1>0 DEF TypeOK, ClusterTypeOK
    <3> QED
      BY <2>1, <3>1 DEF Falls
  <2> QED
    BY <1>0, <2>3, <2>4, NoticeKept
<1>11. CASE SetTerminating
  <2>1. /\ Write(InPhase("Terminating"), "deleteNamespace", FALSE)
        /\ pc = "terminating"
    BY <1>11 DEF SetTerminating
  <2>2. UpToDate(inst) /\ Commit(InPhase("Terminating"))
          => cr'.phase = "Terminating"
    BY <1>0, <1>11, SetTerminatingStep
  <2> QED
    BY <1>0, <2>1, <2>2, NoticeWrite
<1>12. CASE DeleteNamespace
  <2>1. pc # "notify" /\ pc' # "notify" /\ owed' = owed
    BY <1>12 DEF DeleteNamespace, Goto, Retry
  <2>2. UNCHANGED budget \/ Spend("fault")
    BY <1>12 DEF DeleteNamespace
  <2> QED
    BY <1>0, <2>1, <2>2, NoticeSame DEF Due, Disturbances
<1>13. CASE RemoveFinalizer
  <2>1. /\ Write([cr EXCEPT !.fin = FALSE], "idle", FALSE)
        /\ pc = "release"
    BY <1>13 DEF RemoveFinalizer
  <2>2. UpToDate(inst) /\ Commit([cr EXCEPT !.fin = FALSE]) => cr'.phase = ""
    BY <1>0, <1>13, RemoveFinalizerStep
  <2> QED
    BY <1>0, <2>1, <2>2, NoticeWrite
<1>14. CASE Environment
  <2>1. owed' = owed /\ pc' = pc
    BY <1>14 DEF Environment, workerVars
  <2>2. UNCHANGED budget \/ \E d \in Disturbances : Spend(d)
    BY <1>14
    DEF Environment, CreateInstance, EditConfig, DeleteInstance, Deliver,
        SyncChild, Resync, Purge, NamespaceGone, PodReady, PodUnready,
        Disturbances
  <2> QED
    BY <1>0, <2>1, <2>2, NoticeSame DEF Due
<1>15. CASE TimerFires
  BY <1>0, <1>15, NoticeSame DEF TimerFires, Due
<1>16. CASE CrashRestart
  BY <1>0, <1>16, NoticeLost DEF CrashRestart
<1>17. CASE UNCHANGED vars
  BY <1>0, <1>17, NoticeSame DEF vars, clusterVars, workerVars, Due
<1> QED
  BY <1>1, <1>2, <1>3, <1>4, <1>5, <1>6, <1>7, <1>8, <1>9, <1>10, <1>11,
     <1>12, <1>13, <1>14, <1>15, <1>16, <1>17
  DEF Next, Worker

-----------------------------------------------------------------------------
(* Somebody will look again *)

\* A commit is either no change, or an event on its way to the informer.
LEMMA CommitWakes ==
  ASSUME TypeOK, NEW STATE v, v \in Version, Commit(v)
  PROVE  UNCHANGED <<cr, watch>> \/ watch' # << >>
<1>1. Stored(v) \in Version
  <2>1. cr.rv + 1 \in Nat /\ v.uid \in Nat
    BY DEF TypeOK, ClusterTypeOK, Version
  <2>2. [v EXCEPT !.rv = cr.rv + 1] \in Version
    BY <2>1 DEF Version
  <2> QED
    BY <2>1, <2>2, GoneType DEF Stored
<1> QED
  BY <1>1 DEF Commit, Store, TypeOK, ClusterTypeOK

\* A write leads on, or asks for another reconcile, unless it is the last.
LEMMA WriteWakes ==
  ASSUME NEW STATE v, NEW STATE then, NEW again, Write(v, then, again)
  PROVE  \/ Awake'
         \/ then \in {"idle", "notify"} /\ again # TRUE /\ UpToDate(inst) /\ Commit(v)
<1>1. CASE Written(v, then, again)
  BY <1>1 DEF Written, Goto, Awake
<1>2. CASE Refused
  BY <1>2 DEF Refused, Retry, Awake
<1>3. CASE WriteLost(v)
  BY <1>3 DEF WriteLost, Retry, Awake
<1> QED
  BY <1>1, <1>2, <1>3 DEF Write

LEMMA WriteLeadsOn ==
  ASSUME NEW STATE v, NEW STATE then, NEW again, Write(v, then, again),
         then \notin {"idle", "notify"} \/ again = TRUE
  PROVE  Awake'
  BY WriteWakes

\* The last write of a reconcile that got the instance running has gone through.
Settles ==
  /\ pc = "running" /\ UpToDate(inst) /\ Commit(Observed("Running"))
  /\ UNCHANGED <<cache, obj, objCache>>

\* A user's write is heard of.
LEMMA UsersWake ==
  ASSUME TypeOK, CreateInstance \/ EditConfig \/ DeleteInstance, UNCHANGED workerVars
  PROVE  Awake' \/ (~Awake /\ UNCHANGED cr)
<1>0. cr \in Version /\ cr.uid + 1 \in Nat /\ cr.gen + 1 \in Nat
  BY DEF TypeOK, ClusterTypeOK, Version
<1>1. UNCHANGED <<cr, watch>> \/ watch' # << >>
  <2>1. CASE CreateInstance
    <3>1. [cr EXCEPT !.uid = @ + 1, !.live = TRUE] \in Version
      BY <1>0 DEF Version
    <3> QED
      BY <2>1, <3>1, CommitWakes DEF CreateInstance
  <2>2. CASE EditConfig
    <3>1. [cr EXCEPT !.gen = @ + 1] \in Version
      BY <1>0 DEF Version
    <3> QED
      BY <2>2, <3>1, CommitWakes DEF EditConfig
  <2>3. CASE DeleteInstance
    <3>1. [cr EXCEPT !.del = TRUE] \in Version
      BY <1>0 DEF Version
    <3> QED
      BY <2>3, <3>1, CommitWakes DEF DeleteInstance
  <2> QED
    BY <2>1, <2>2, <2>3
<1> QED
  BY <1>1 DEF CreateInstance, EditConfig, DeleteInstance, workerVars, Awake

\* How the worker can come to rest: there is no resource, or its reconcile was
\* the one that stored Running; or it was at rest, and the resource is as before.
LEMMA RestCases ==
  ASSUME Base, Base', [Next]_vars
  PROVE  Awake' \/ ~cr'.live \/ Settles \/ (~Awake /\ UNCHANGED cr)
<1>0. TypeOK /\ TypeOK' /\ HistoryInv /\ cr \in Version
  BY HistoryType DEF Base
<1>1. CASE Begin
  <2>1. UNCHANGED <<cr, cache, watch>> /\ pc' = Entry(cache)
    BY <1>1 DEF Begin, Goto
  <2>2. CASE watch # << >>
    BY <2>1, <2>2 DEF Awake
  <2>3. CASE watch = << >>
    <3>1. cache = cr
      <4>1. Last = 0 /\ V(0) = cache
        BY <2>3 DEF Last, V
      <4> QED
        BY <1>0, <4>1, HistoryType DEF HistoryInv
    <3>2. cr.live => Entry(cr) \notin {"idle", "notify"}
      BY <1>0, GoneLive DEF Sound, Entry, BuildFrom
    <3> QED
      BY <2>1, <3>1, <3>2 DEF Awake
  <2> QED
    BY <2>2, <2>3
<1>2. CASE AddFinalizer
  <2>1. BuildFrom(cr) \notin {"idle", "notify"}
    BY DEF BuildFrom
  <2> QED
    BY <1>2, <2>1, WriteLeadsOn DEF AddFinalizer
<1>3. CASE SetPending
  BY <1>3, WriteLeadsOn DEF SetPending
<1>4. CASE SetCreating
  BY <1>4, WriteLeadsOn DEF SetCreating
<1>5. CASE \E k \in Kinds : ReconcileChild(k)
  BY <1>5 DEF ReconcileChild, Goto, After, Kinds, Awake
<1>6. CASE SetFailed
  BY <1>6, WriteLeadsOn DEF SetFailed, Reworded, Retry, Awake
<1>7. CASE CheckReady
  BY <1>7 DEF CheckReady, Goto, Retry, Awake
<1>8. CASE SetStarting
  BY <1>8, WriteLeadsOn DEF SetStarting
<1>9. CASE SetRunning
  BY <1>9, WriteWakes DEF SetRunning, Settles, Write
<1>10. CASE Notify
  BY <1>10 DEF Notify, Done, clusterVars, Awake
<1>11. CASE SetTerminating
  BY <1>11, WriteLeadsOn DEF SetTerminating
<1>12. CASE DeleteNamespace
  BY <1>12 DEF DeleteNamespace, Goto, Retry, Awake
<1>13. CASE RemoveFinalizer
  <2>1. UpToDate(inst) /\ Commit([cr EXCEPT !.fin = FALSE]) => ~cr'.live
    BY <1>0, <1>13, RemoveFinalizerStep
  <2> QED
    BY <1>13, <2>1, WriteWakes DEF RemoveFinalizer
<1>14. CASE Environment
  <2>1. CASE (CreateInstance \/ EditConfig \/ DeleteInstance) /\ UNCHANGED workerVars
    BY <1>0, <2>1, UsersWake
  <2>2. CASE (Deliver \/ Resync) /\ UNCHANGED workerVars
    BY <2>2 DEF Deliver, Resync, Awake
  <2>3. CASE (\E k \in Kinds : SyncChild(k)) /\ UNCHANGED workerVars
    BY <2>3 DEF SyncChild, workerVars, Awake
  <2>4. CASE /\ (\E k \in Contents : Purge(k)) \/ NamespaceGone \/ PodReady \/ PodUnready
             /\ UNCHANGED workerVars
    BY <2>4 DEF Purge, NamespaceGone, PodReady, PodUnready, workerVars, Awake
  <2> QED
    BY <1>14, <2>1, <2>2, <2>3, <2>4 DEF Environment
<1>15. CASE TimerFires
  BY <1>15 DEF TimerFires, Awake
<1>16. CASE CrashRestart
  BY <1>16 DEF CrashRestart, Awake
<1>17. CASE UNCHANGED vars
  BY <1>17 DEF vars, clusterVars, workerVars, Awake
<1> QED
  BY <1>1, <1>2, <1>3, <1>4, <1>5, <1>6, <1>7, <1>8, <1>9, <1>10, <1>11,
     <1>12, <1>13, <1>14, <1>15, <1>16, <1>17
  DEF Next, Worker

\* What a reconcile that stored Running leaves behind.
LEMMA SettlesRunning ==
  ASSUME Base, Base', Settles
  PROVE  inst = cr /\ Kept("Running") /\ ~cr'.del
<1>0. TypeOK /\ TypeOK' /\ HistoryInv /\ StayInv
  BY DEF Base
<1>1. pc \in BuildSteps /\ pc # "idle" /\ "Running" \in Phases
  BY DEF Settles, BuildSteps, Phases
<1>2. inst = cr /\ cr.live /\ cr.fin /\ ~cr.del
  BY <1>0, <1>1, Current DEF Settles, StayInv, StepInv, Builds
<1>3. Kept("Running")
  BY <1>0, <1>1, <1>2, PhaseCommit DEF Settles
<1> QED
  BY <1>2, <1>3 DEF Kept

LEMMA WakeStep ==
  ASSUME Base, Base', WakeInv, [Next]_vars
  PROVE  WakeInv'
<1>1. Settles => cr'.phase = "Running" /\ ~cr'.del
  BY SettlesRunning DEF Kept
<1> QED
  BY <1>1, RestCases DEF WakeInv

-----------------------------------------------------------------------------
(* The pod template *)

LEMMA WriteGoes ==
  ASSUME NEW STATE v, NEW STATE then, NEW again, Write(v, then, again)
  PROVE  pc' = then \/ pc' = "idle"
  BY DEF Write, Written, Refused, WriteLost, Retry, Goto

\* Past the deployment, a reconcile goes from step to step with one copy.
LEMMA BeyondMoves ==
  ASSUME [Next]_vars, pc' \in {"svc", "np", "check", "starting", "running"}
  PROVE  /\ inst' = inst
         /\ \/ pc \in {"svc", "np", "check", "starting", "running"}
            \/ pc = "deploy" /\ ReconcileChild("deploy")
<1>1. CASE Begin
  BY <1>1 DEF Begin, Goto, Entry, BuildFrom
<1>2. CASE \E k \in Kinds : ReconcileChild(k)
  BY <1>2 DEF ReconcileChild, Goto, After, Kinds
<1>3. CASE CheckReady
  BY <1>3 DEF CheckReady, Goto, Retry
<1>4. CASE DeleteNamespace
  BY <1>4 DEF DeleteNamespace, Goto, Retry
<1>6. ~(AddFinalizer \/ SetPending \/ SetCreating \/ SetFailed \/ SetStarting
          \/ SetRunning \/ SetTerminating \/ RemoveFinalizer)
  <2>1. ~AddFinalizer
    <3>1. BuildFrom(cr) \in {"pending", "creating", "ns"}
      BY DEF BuildFrom
    <3> QED
      BY <3>1, WriteGoes DEF AddFinalizer
  <2>2. ~(SetPending \/ SetCreating \/ SetTerminating)
    BY WriteGoes DEF SetPending, SetCreating, SetTerminating
  <2>3. ~(SetFailed \/ SetStarting \/ RemoveFinalizer)
    BY WriteGoes DEF SetFailed, SetStarting, RemoveFinalizer, Reworded, Retry, Goto
  <2>4. ~SetRunning
    BY WriteGoes DEF SetRunning
  <2> QED
    BY <2>1, <2>2, <2>3, <2>4
<1>7. CASE UNCHANGED workerVars
  BY <1>7 DEF workerVars
<1>8. CASE TimerFires \/ CrashRestart \/ Notify
  BY <1>8 DEF TimerFires, CrashRestart, Notify, Done, Goto
<1> QED
  BY <1>1, <1>2, <1>3, <1>4, <1>6, <1>7, <1>8
  DEF Next, Worker, Environment, vars

LEMMA TemplateStep ==
  ASSUME TypeOK, TemplateInv, [Next]_vars
  PROVE  TemplateInv'
<1> SUFFICES ASSUME pc' \in {"svc", "np", "check", "starting", "running"},
                    obj'["deploy"].state = "active"
             PROVE  obj'["deploy"].gen = inst'.gen
  BY DEF TemplateInv
<1>0. "deploy" \in Kinds
  BY DEF Kinds
<1>1. inst' = inst
  BY BeyondMoves
<1>2. CASE pc = "deploy" /\ ReconcileChild("deploy")
  <2>1. Apply("deploy")
    BY <1>2 DEF ReconcileChild, Goto, Needed, Overwritten
  <2> QED
    BY <1>0, <1>1, <2>1, ApplySets
<1>3. CASE pc \in {"svc", "np", "check", "starting", "running"}
  <2>1. Alike("deploy")
    BY <1>0, <1>3, ChildMoves DEF Vanishes, Applied, Razed
  <2> QED
    BY <1>1, <1>3, <2>1 DEF TemplateInv, Alike
<1> QED
  BY <1>2, <1>3, BeyondMoves

LEMMA EditStep ==
  ASSUME Base, Base', TemplateInv, EditInv, [Next]_vars
  PROVE  EditInv'
<1> SUFFICES ASSUME ~Awake', cr'.live, obj'["deploy"].state = "active"
             PROVE  obj'["deploy"].gen = cr'.gen
  BY DEF EditInv
<1>0. TypeOK /\ "deploy" \in Kinds
  BY DEF Base, Kinds
<1>1. CASE Settles
  <2>1. obj["deploy"].gen = inst.gen /\ UNCHANGED obj
    BY <1>1 DEF Settles, TemplateInv
  <2> QED
    BY <1>1, <2>1, SettlesRunning DEF Kept
<1>2. CASE ~Awake /\ UNCHANGED cr
  <2>1. pc # "deploy"
    BY <1>2 DEF Awake
  <2>2. Alike("deploy")
    BY <1>0, <2>1, ChildMoves DEF Vanishes, Applied, Razed
  <2> QED
    BY <1>2, <2>2 DEF EditInv, Alike
<1> QED
  BY <1>1, <1>2, RestCases

-----------------------------------------------------------------------------
(* The inductive invariant, and what follows from it *)

LEMMA IInvInit ==
  ASSUME Init
  PROVE  IInv
<1>1. Base
  BY TypeInit, BaseInit
<1>2. NoticeInv
  <2>1. \A d \in Disturbances : budget[d] = Budget[d] /\ Budget[d] \in Nat
    BY BudgetAssumption DEF Init, ClusterInit
  <2>2. owed = 0 /\ Due = 0
    BY DEF Init, Due
  <2> QED
    BY <2>1, <2>2 DEF NoticeInv, NoticesExact
<1>3. WakeInv
  BY DEF Init, ClusterInit, WakeInv, Gone, Awake
<1>4. TerminatingInv
  BY DEF Init, TerminatingInv
<1>5. TemplateInv /\ EditInv
  BY DEF Init, ClusterInit, TemplateInv, EditInv, Gone
<1> QED
  BY <1>1, <1>2, <1>3, <1>4, <1>5 DEF IInv

\* IInv is inductive: true of the initial states and kept by every step.
THEOREM Invariance == Spec => []IInv
<1>1. Init => IInv
  BY IInvInit
<1>2. IInv /\ [Next]_vars => IInv'
  <2> SUFFICES ASSUME IInv, [Next]_vars PROVE IInv'
    OBVIOUS
  <2>1. Base /\ Base' /\ TypeOK
    BY BaseStep DEF IInv, Base
  <2>2. TerminatingInv' /\ NoticeInv' /\ WakeInv'
    BY <2>1, TerminatingStep, NoticeStep, WakeStep DEF IInv
  <2>3. TemplateInv' /\ EditInv'
    BY <2>1, TemplateStep, EditStep DEF IInv
  <2> QED
    BY <2>1, <2>2, <2>3 DEF IInv
<1> QED
  BY <1>1, <1>2, PTL DEF Spec

\* A ready notification is sent for an entry into Running, never for anything
\* else and never twice for one; without crashes and failed calls, for each.
THEOREM NoticesCorrect == Spec => []NoticesExact
<1>1. IInv => NoticesExact
  BY DEF IInv, NoticeInv
<1> QED
  BY <1>1, Invariance, PTL

\* The operator never leaves an instance alone that is not Running, or that is
\* being deleted.
THEOREM NeverForgotten == Spec => []LeftAloneOnlyRunning
<1>1. IInv => LeftAloneOnlyRunning
  BY DEF IInv, WakeInv, Awake, LeftAloneOnlyRunning, AtRest
<1> QED
  BY <1>1, Invariance, PTL

\* An edit made at any point of a reconcile reaches the pod template before the
\* operator leaves the instance alone.
THEOREM EditsCorrect == Spec => []EditsReachTemplate
<1>1. IInv => EditsReachTemplate
  BY DEF IInv, EditInv, Awake, EditsReachTemplate, AtRest
<1> QED
  BY <1>1, Invariance, PTL

-----------------------------------------------------------------------------
(* When the documentation is right *)

LEMMA OnlyCreate ==
  ASSUME [Next]_vars, ~cr.live
  PROVE  (CreateInstance /\ UNCHANGED workerVars) \/ UNCHANGED cr
<1>1. ASSUME NEW STATE v, NEW STATE then, NEW again, Write(v, then, again)
      PROVE  UNCHANGED cr
  BY <1>1 DEF Write, Written, Refused, WriteLost, UpToDate
<1>2. CASE Worker
  BY <1>1, <1>2
  DEF Worker, Begin, AddFinalizer, SetPending, SetCreating, ReconcileChild, SetFailed,
      Reworded, UpToDate, CheckReady, clusterVars, SetStarting, SetRunning, Notify,
      SetTerminating, DeleteNamespace, RemoveFinalizer
<1>3. CASE Environment
  BY <1>3
  DEF Environment, EditConfig, DeleteInstance, Deliver, SyncChild, Resync, Purge,
      NamespaceGone, PodReady, PodUnready
<1> QED
  BY <1>2, <1>3 DEF Next, TimerFires, CrashRestart, vars, clusterVars

\* How the resource changes, if it does.
LEMMA ResourceMoves ==
  ASSUME Base, [Next]_vars
  PROVE  \/ UNCHANGED cr
         \/ CreateInstance /\ UNCHANGED workerVars /\ Created(cr')
         \/ Changed(cr')
         \/ Removed(cr')
<1>1. StoreStep
  BY BaseStep, StayInvariant DEF Base
<1>2. Created(cr') => (CreateInstance /\ UNCHANGED workerVars) \/ UNCHANGED cr
  BY OnlyCreate DEF Created
<1> QED
  BY <1>1, <1>2 DEF StoreStep, Same, Delivered, Appended, Listed

\* A namespace informer that does not lag has the namespace as it is.
LEMMA NamespaceCached ==
  ASSUME TypeOK, "ns" \notin Lagging, objCache["ns"] = obj["ns"], [Next]_vars
  PROVE  objCache'["ns"] = obj'["ns"]
<1>0. objCache \in [Kinds -> Object] /\ obj \in [Kinds -> Object] /\ "ns" \in Kinds
  BY DEF TypeOK, ClusterTypeOK, Kinds
<1>1. ASSUME NEW k \in Kinds, NEW STATE o, Put(k, o)
      PROVE  objCache'["ns"] = obj'["ns"]
  BY <1>0, <1>1 DEF Put
<1>2. CASE UNCHANGED <<obj, objCache>>
  BY <1>2
<1>3. CASE Environment
  BY <1>0, <1>1, <1>2, <1>3
  DEF Environment, CreateInstance, EditConfig, DeleteInstance, Deliver, SyncChild,
      Resync, Purge, NamespaceGone, PodReady, PodUnready, Contents, Kinds
<1>4. CASE \E k \in Kinds : ReconcileChild(k)
  BY <1>1, <1>2, <1>4 DEF ReconcileChild, Apply
<1>5. CASE DeleteNamespace
  BY <1>0, <1>1, <1>2, <1>5 DEF DeleteNamespace, MarkNamespace
<1>6. CASE CrashRestart
  BY <1>6 DEF CrashRestart
<1> QED
  BY <1>2, <1>3, <1>4, <1>5, <1>6
  DEF Next, Worker, Begin, AddFinalizer, SetPending, SetCreating, SetFailed, Reworded,
      CheckReady, SetStarting, SetRunning, Notify, SetTerminating, RemoveFinalizer,
      Write, TimerFires, vars, clusterVars

LEMMA ReleaseMoves ==
  ASSUME [Next]_vars, pc' = "release"
  PROVE  DeleteNamespace \/ pc = "release"
<1>1. CASE Begin
  BY <1>1 DEF Begin, Goto, Entry, BuildFrom
<1>2. CASE \E k \in Kinds : ReconcileChild(k)
  BY <1>2 DEF ReconcileChild, Goto, After, Kinds
<1>3. ~(SetPending \/ SetCreating \/ SetTerminating)
  BY WriteGoes DEF SetPending, SetCreating, SetTerminating
<1>4. ~(SetFailed \/ SetStarting \/ RemoveFinalizer)
  BY WriteGoes DEF SetFailed, SetStarting, RemoveFinalizer, Reworded, Retry, Goto
<1>5. ~SetRunning
  BY WriteGoes DEF SetRunning
<1>6. ~AddFinalizer
  <2>1. BuildFrom(cr) \in {"pending", "creating", "ns"}
    BY DEF BuildFrom
  <2> QED
    BY <2>1, WriteGoes DEF AddFinalizer
<1>7. CASE CheckReady \/ Notify \/ CrashRestart
  BY <1>7 DEF CheckReady, Notify, CrashRestart, Done, Goto, Retry
<1>8. CASE UNCHANGED pc
  BY <1>8
<1> QED
  BY <1>1, <1>2, <1>3, <1>4, <1>5, <1>6, <1>7, <1>8
  DEF Next, Worker, Environment, TimerFires, vars, workerVars

LEMMA NamespaceStep ==
  ASSUME "ns" \notin Lagging, Base, NamespaceInv, [Next]_vars
  PROVE  NamespaceInv'
<1>0. /\ TypeOK /\ StayInv /\ "ns" \in Kinds /\ "ns" \in BuildSteps
      /\ obj \in [Kinds -> Object]
  BY DEF Base, TypeOK, ClusterTypeOK, Kinds, BuildSteps
<1>1. objCache'["ns"] = obj'["ns"]
  BY <1>0, NamespaceCached DEF NamespaceInv
<1>2. ASSUME obj'["ns"].state = "active"
      PROVE  cr'.live /\ cr'.fin
  <2>1. CASE Applied("ns")
    BY <1>0, <2>1 DEF Applied, ReconcileChild, StayInv, FinalizerHeld
  <2>2. CASE Alike("ns")
    <3>1. cr.live /\ cr.fin /\ pc # "release"
      BY <1>2, <2>2 DEF Alike, NamespaceInv
    <3> QED
      BY <3>1, ResourceMoves DEF Created, Changed, Removed
  <2> QED
    BY <1>0, <1>2, <2>1, <2>2, ChildMoves DEF Vanishes, Razed
<1>3. ASSUME pc' = "release"
      PROVE  obj'["ns"].state # "active"
  <2>1. CASE DeleteNamespace
    <3> DEFINE o == [obj["ns"] EXCEPT !.state = "terminating"]
    <3>1. o \in Object /\ o.state = "terminating"
      BY <1>0 DEF Object
    <3>2. MarkNamespace => obj'["ns"].state # "active"
      <4>1. CASE Put("ns", o)
        <5> HIDE DEF o
        <5> QED
          BY <1>0, <3>1, <4>1, PutSets
      <4> QED
        BY <4>1 DEF MarkNamespace
    <3>3. objCache["ns"].state = "absent" => obj["ns"].state # "active"
      BY DEF NamespaceInv
    <3> QED
      BY <1>3, <2>1, <3>2, <3>3 DEF DeleteNamespace, Goto, Retry
  <2>2. CASE pc = "release"
    <3>1. ~Applied("ns")
      BY <2>2 DEF Applied
    <3> QED
      BY <1>0, <2>2, <3>1, ChildMoves DEF Alike, Vanishes, Razed, NamespaceInv
  <2> QED
    BY <1>3, <2>1, <2>2, ReleaseMoves
<1> QED
  BY <1>1, <1>2, <1>3 DEF NamespaceInv

\* The documentation's "deletion removes the namespace" holds where the operator's
\* informer of namespaces does not lag, whatever else lags, fails or crashes: that
\* lag is the only cause of namespaces that stay.
THEOREM DeletionRemoves ==
  ASSUME "ns" \notin Lagging
  PROVE  Spec => []DeletionRemovesNamespace
<1>1. Init => NamespaceInv
  BY DEF Init, ClusterInit, NamespaceInv, NoObject, Kinds
<1>2. Base /\ NamespaceInv /\ [Next]_vars => NamespaceInv'
  BY NamespaceStep
<1>3. NamespaceInv => DeletionRemovesNamespace
  BY DEF NamespaceInv, DeletionRemovesNamespace
<1> QED
  BY <1>1, <1>2, <1>3, HistoryCorrect, PTL DEF Spec

LEMMA StorePhase ==
  ASSUME NEW STATE v, v \in Version, Store(v)
  PROVE  cr'.phase \in {v.phase, ""}
<1>1. CASE v.del /\ ~v.fin
  <2>1. cr' = Gone(cr.rv + 1, v.uid)
    BY <1>1 DEF Store, Stored
  <2> QED
    BY <2>1 DEF Gone
<1>2. CASE ~(v.del /\ ~v.fin)
  <2>1. cr' = [v EXCEPT !.rv = cr.rv + 1]
    BY <1>2 DEF Store, Stored
  <2> QED
    BY <2>1 DEF Version
<1> QED
  BY <1>1, <1>2

LEMMA CommitPhase ==
  ASSUME NEW STATE v, v \in Version, Commit(v)
  PROVE  cr'.phase \in {cr.phase, v.phase, ""}
BY StorePhase DEF Commit

LEMMA WritePhase ==
  ASSUME NEW STATE v, v \in Version, NEW STATE then, NEW again,
         Write(v, then, again)
  PROVE  cr'.phase \in {cr.phase, v.phase, ""}
  BY CommitPhase DEF Write, Written, Refused, WriteLost

\* Only the step "running" stores the phase Running.
LEMMA RunningMoves ==
  ASSUME TypeOK, [Next]_vars, cr'.phase = "Running"
  PROVE  cr.phase = "Running" \/ pc = "running"
<1>0. cr \in Version /\ cr.uid + 1 \in Nat /\ cr.gen + 1 \in Nat /\ inst.gen + 1 \in Nat
  BY DEF TypeOK, ClusterTypeOK, Version
<1>1. ASSUME NEW p \in Phases
      PROVE  /\ InPhase(p) \in Version /\ InPhase(p).phase = p
             /\ Observed(p) \in Version /\ Observed(p).phase = p
  BY <1>0, InPhaseType DEF InPhase, Observed, Version
<1>2. CASE AddFinalizer \/ RemoveFinalizer
  <2>1. ASSUME NEW b \in BOOLEAN
        PROVE  [cr EXCEPT !.fin = b] \in Version /\ [cr EXCEPT !.fin = b].phase = cr.phase
    BY <1>0 DEF Version
  <2> QED
    BY <1>2, <2>1, WritePhase DEF AddFinalizer, RemoveFinalizer
<1>3. CASE SetPending \/ SetCreating \/ SetTerminating
  <2>1. {"Pending", "Creating", "Terminating"} \subseteq Phases
    BY DEF Phases
  <2> QED
    BY <1>1, <1>3, <2>1, WritePhase DEF SetPending, SetCreating, SetTerminating
<1>4. CASE SetFailed \/ SetStarting
  <2>1. {"Failed", "Starting"} \subseteq Phases
    BY DEF Phases
  <2>2. ~Store(Observed("Failed"))
    BY <1>1, <2>1, StorePhase
  <2> QED
    BY <1>1, <1>4, <2>1, <2>2, WritePhase DEF SetFailed, SetStarting, Reworded
<1>5. CASE CreateInstance \/ EditConfig \/ DeleteInstance
  <2>1. /\ [cr EXCEPT !.uid = @ + 1, !.live = TRUE] \in Version
        /\ [cr EXCEPT !.uid = @ + 1, !.live = TRUE].phase = cr.phase
        /\ [cr EXCEPT !.gen = @ + 1] \in Version
        /\ [cr EXCEPT !.gen = @ + 1].phase = cr.phase
        /\ [cr EXCEPT !.del = TRUE] \in Version
        /\ [cr EXCEPT !.del = TRUE].phase = cr.phase
    BY <1>0 DEF Version
  <2> QED
    BY <1>5, <2>1, CommitPhase DEF CreateInstance, EditConfig, DeleteInstance
<1>6. CASE SetRunning
  BY <1>6 DEF SetRunning
<1>7. CASE UNCHANGED cr
  BY <1>7
<1> QED
  BY <1>2, <1>3, <1>4, <1>5, <1>6, <1>7
  DEF Next, Worker, Environment, Begin, ReconcileChild, CheckReady, Notify,
      DeleteNamespace, Deliver, SyncChild, Resync, Purge, NamespaceGone, PodReady,
      PodUnready, TimerFires, CrashRestart, vars, clusterVars

LEMMA FirstUseStep ==
  ASSUME Base, FirstUseInv, [Next]_vars
  PROVE  FirstUseInv'
<1> DEFINE Beyond == {"svc", "np", "check", "starting", "running"}
<1> SUFFICES ASSUME cr'.uid <= 1
             PROVE  /\ cr'.live => cr'.uid = 1
                    /\ obj'["deploy"].state # "terminating"
                    /\ obj'["ns"].state = "terminating"
                         => cr'.uid = 1 /\ (~cr'.live \/ cr'.del)
                    /\ cr'.live /\ ~cr'.del /\ (pc' \in Beyond \/ cr'.phase = "Running")
                         => obj'["deploy"].state = "active"
  BY DEF FirstUseInv
<1>0. /\ TypeOK /\ StayInv /\ {"ns", "deploy"} \subseteq Kinds
      /\ cr.uid \in Nat /\ Beyond \subseteq BuildSteps
  BY DEF Base, TypeOK, ClusterTypeOK, Version, Kinds, BuildSteps
<1>1. /\ cr.uid <= 1
      /\ \/ UNCHANGED cr
         \/ /\ CreateInstance /\ UNCHANGED workerVars
            /\ Created(cr') /\ cr.uid = 0 /\ cr'.uid = 1
         \/ Changed(cr') /\ cr'.uid = cr.uid
         \/ Removed(cr') /\ cr'.uid = cr.uid /\ ~cr'.live
  <2>1. Removed(cr') => cr'.uid = cr.uid /\ ~cr'.live
    <3> SUFFICES ASSUME Removed(cr') PROVE cr'.uid = cr.uid /\ ~cr'.live
      OBVIOUS
    <3>1. cr' = Gone(cr.rv + 1, cr.uid)
      BY DEF Removed
    <3> QED
      BY <3>1 DEF Gone
  <2>2. Created(cr') => cr.uid = 0 /\ cr'.uid = 1
    <3>1. Created(cr') => cr'.uid = cr.uid + 1
      BY DEF Created
    <3>2. cr.uid \in Nat /\ cr'.uid <= 1
      BY <1>0
    <3> QED
      BY <3>1, <3>2
  <2>3. Changed(cr') => cr'.uid = cr.uid
    BY DEF Changed
  <2>4. /\ \/ UNCHANGED cr
           \/ CreateInstance /\ UNCHANGED workerVars /\ Created(cr')
           \/ Changed(cr')
           \/ Removed(cr')
    BY ResourceMoves
  <2>5. cr.uid <= 1
    BY <1>0, <2>1, <2>2, <2>3, <2>4
  <2> QED
    BY <2>1, <2>2, <2>3, <2>4, <2>5
<1>2. /\ cr.live => cr.uid = 1
      /\ obj["deploy"].state # "terminating"
      /\ obj["ns"].state = "terminating" => cr.uid = 1 /\ (~cr.live \/ cr.del)
      /\ cr.live /\ ~cr.del /\ (pc \in Beyond \/ cr.phase = "Running")
           => obj["deploy"].state = "active"
  BY <1>1 DEF FirstUseInv
<1>3. cr'.live => cr'.uid = 1
  BY <1>1, <1>2 DEF Changed
<1>4. obj'["deploy"].state # "terminating"
  BY <1>0, <1>2, ChildMoves, ApplySets DEF Alike, Vanishes, Applied, Razed
<1>5. ASSUME obj'["ns"].state = "terminating"
      PROVE  cr'.uid = 1 /\ (~cr'.live \/ cr'.del)
  <2>1. CASE obj["ns"].state = "terminating"
    BY <1>1, <1>2, <2>1 DEF Changed
  <2>2. CASE obj["ns"].state # "terminating"
    <3>1. DeleteNamespace
      BY <1>0, <1>5, <2>2, ChildMoves, ApplySets DEF Alike, Vanishes, Applied, Razed
    <3> QED
      BY <1>0, <1>2, <3>1 DEF DeleteNamespace, StayInv, FenceInv
  <2> QED
    BY <2>1, <2>2
<1>6. ASSUME cr'.live, ~cr'.del, pc' \in Beyond \/ cr'.phase = "Running"
      PROVE  obj'["deploy"].state = "active"
  <2>1. cr.live /\ ~cr.del
    <3>1. CASE UNCHANGED workerVars /\ Created(cr')
      <4>1. cr'.phase # "Running" /\ pc' = pc /\ ~cr.live
        BY <3>1 DEF Created, workerVars
      <4> QED
        BY <1>0, <1>6, <4>1 DEF StayInv, FinalizerHeld
    <3> QED
      BY <1>1, <1>6, <3>1 DEF Changed
  <2>2. obj["ns"].state # "terminating"
    BY <1>2, <2>1
  <2>3. CASE obj["deploy"].state = "active"
    BY <1>0, <2>2, <2>3, ChildMoves, ApplySets DEF Alike, Vanishes, Applied, Razed
  <2>4. CASE pc = "deploy" /\ ReconcileChild("deploy") /\ pc' \in Beyond
    <3>1. Apply("deploy")
      BY <2>4 DEF ReconcileChild, Goto, Needed, Overwritten
    <3>2. obj["deploy"].state \in {"absent", "active"}
      BY <1>0, <1>2 DEF TypeOK, ClusterTypeOK, Object
    <3> QED
      BY <1>0, <3>1, <3>2, ApplySets
  <2>5. pc' \in Beyond => pc \in Beyond \/ (pc = "deploy" /\ ReconcileChild("deploy"))
    BY BeyondMoves
  <2>6. cr'.phase = "Running" => cr.phase = "Running" \/ pc \in Beyond
    BY <1>0, RunningMoves
  <2> QED
    BY <1>2, <1>6, <2>1, <2>3, <2>4, <2>5, <2>6
<1> QED
  BY <1>3, <1>4, <1>5, <1>6

\* A Running instance that nobody deletes has a deployment, in a namespace that is
\* not going away, at rest and in between.  (Nothing is said of the pod: an instance
\* stays Running when its pod becomes unready.)
RunningHasDeployment ==
  cr.live /\ ~cr.del /\ cr.phase = "Running" =>
    obj["deploy"].state = "active" /\ obj["ns"].state # "terminating"

\* While a name is used for the first time, a Running instance has its deployment,
\* whatever lags, fails or crashes (controller.go:134-176): an instance without one is
\* a re-created one.
THEOREM FirstUseIsBacked ==
  Spec => [](cr.uid <= 1 => RunningIsBacked /\ RunningHasDeployment)
<1>1. Init => FirstUseInv
  <2> SUFFICES ASSUME Init PROVE FirstUseInv
    OBVIOUS
  <2>1. ~cr.live /\ cr.phase = "" /\ \A k \in Kinds : obj[k].state = "absent"
    <3>1. cr = Gone(0, 0)
      BY DEF Init, ClusterInit
    <3>2. ~cr.live /\ cr.phase = ""
      BY <3>1 DEF Gone
    <3> QED
      BY <3>2 DEF Init, ClusterInit, NoObject
  <2> QED
    BY <2>1 DEF Init, FirstUseInv, Kinds
<1>2. Base /\ FirstUseInv /\ [Next]_vars => FirstUseInv'
  BY FirstUseStep
<1>3. IInv /\ FirstUseInv => (cr.uid <= 1 => RunningIsBacked /\ RunningHasDeployment)
  BY DEF IInv, WakeInv, Awake, FirstUseInv, RunningIsBacked, RunningHasDeployment, AtRest
<1> QED
  BY <1>1, <1>2, <1>3, HistoryCorrect, Invariance, PTL DEF Spec

=============================================================================
