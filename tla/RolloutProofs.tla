--------------------------- MODULE RolloutProofs ---------------------------
(***************************************************************************)
(* What ConfigRollout promises holds for any number of pods, pages, edits  *)
(* and kills.  IInv is inductive by itself, and the three invariants are   *)
(* read off it.                                                            *)
(***************************************************************************)
EXTENDS ConfigRollout, TLAPS

-----------------------------------------------------------------------------
(* Types *)

LEMMA InitTypes == Init => TypeOK
<1> SUFFICES ASSUME Init PROVE TypeOK
  OBVIOUS
<1>1. First \in Config
  BY DEF First, Config
<1>2. NoPod \in Pod
  BY <1>1 DEF NoPod, Pod
<1>3. Closed \in Page
  BY DEF Closed, Page
<1>4. volume \in Volume
  BY DEF Init, Volume, None
<1> QED
  BY <1>1, <1>2, <1>3, <1>4, KillsAssumption DEF Init, TypeOK, None

LEMMA TypesStep ==
  ASSUME TypeOK, [Next]_vars
  PROVE  TypeOK'
<1> USE DEF TypeOK, Config, Volume, Pod, Page, None
<1>1. ASSUME NEW a \in Pages, PageEditInstanceConfig(a) PROVE TypeOK'
  <2>1. PICK new \in Page : page' = [page EXCEPT ![a] = new]
    <3>1. CASE page' = [page EXCEPT ![a] =
                 [open |-> TRUE, base |-> spec.has, gen |-> spec.gen, behind |-> FALSE]]
      BY <3>1
    <3>2. ASSUME NEW p \in Pods,
                 page' = [page EXCEPT ![a] =
                   [open |-> TRUE, base |-> volume.has, gen |-> spec.gen,
                    behind |-> Gen(p) # spec.gen]]
          PROVE  \E new \in Page : page' = [page EXCEPT ![a] = new]
      <4>1. (Gen(p) # spec.gen) \in BOOLEAN
        OBVIOUS
      <4> QED
        BY <3>2, <4>1, Zenon
    <3> QED
      BY <1>1, <3>1, <3>2 DEF PageEditInstanceConfig, ReadInstanceConfig
  <2>2. page' \in [Pages -> Page]
    BY <2>1
  <2> QED
    BY <1>1, <2>2 DEF PageEditInstanceConfig
<1>2. ASSUME NEW a \in Pages, PageUpdateInstanceConfig(a) PROVE TypeOK'
  BY <1>2 DEF PageUpdateInstanceConfig, Closed
<1>3. CASE ReconcileDeployment
  BY <1>3 DEF ReconcileDeployment
<1>4. CASE Retire
  BY <1>4 DEF Retire
<1>5. ASSUME NEW p \in Pods, Schedule(p) PROVE TypeOK'
  BY <1>5 DEF Schedule
<1>6. ASSUME NEW p \in Pods, Stop(p) PROVE TypeOK'
  BY <1>6 DEF Stop, Ended, NoPod, First
<1>7. ASSUME NEW p \in Pods, Kill(p) PROVE TypeOK'
  BY <1>7 DEF Kill, Ended, NoPod, First
<1>8. ASSUME NEW p \in Pods, Look(p) PROVE TypeOK'
  BY <1>8 DEF Look, At, Gen, NeedsWrite
<1>9. ASSUME NEW p \in Pods, Truncate(p) PROVE TypeOK'
  BY <1>9 DEF Truncate, At
<1>10. ASSUME NEW p \in Pods, Write(p) PROVE TypeOK'
  BY <1>10 DEF Write, At, Gen
<1>11. ASSUME NEW p \in Pods, WriteMark(p) PROVE TypeOK'
  BY <1>11 DEF WriteMark, At, Gen
<1>12. ASSUME NEW p \in Pods, EditLive(p) PROVE TypeOK'
  BY <1>12 DEF EditLive, Gen
<1>13. CASE UNCHANGED vars
  BY <1>13 DEF vars
<1> QED
  BY <1>1, <1>2, <1>3, <1>4, <1>5, <1>6, <1>7, <1>8, <1>9, <1>10, <1>11, <1>12, <1>13
  DEF Next, WriteConfig

\* Every behaviour keeps to the types.
THEOREM TypesHold == Spec => []TypeOK
<1>1. TypeOK /\ [Next]_vars => TypeOK'
  BY TypesStep
<1> QED
  BY InitTypes, <1>1, PTL DEF Spec

-----------------------------------------------------------------------------
(* What a step does to pods and volume *)

\* A pod that goes on in its script keeps its template.
LEMMA AtEffect ==
  ASSUME TypeOK, NEW p \in Pods, NEW pc, At(p, pc)
  PROVE  /\ pod'[p].pc = pc
         /\ \A q \in Pods : pod'[q].template = pod[q].template
         /\ \A q \in Pods : q # p => pod'[q] = pod[q]
         /\ \A q \in Pods : Gen(q)' = Gen(q)
  BY DEF TypeOK, Pod, At, Gen

\* A pod that ends leaves the others alone, and at most empties the mark.
LEMMA EndedEffect ==
  ASSUME TypeOK, NEW p \in Pods, Ended(p)
  PROVE  /\ pod'[p] = NoPod
         /\ \A q \in Pods : q # p => pod'[q] = pod[q]
         /\ \/ volume' = volume
            \/ /\ pod[p].pc = "mark"
               /\ volume'.mark = None
               /\ volume'.file = volume.file /\ volume'.from = volume.from
               /\ volume'.has = volume.has /\ volume'.by = volume.by
         /\ UNCHANGED <<spec, template, wanted, page, newest, disturbed, hasty>>
  BY DEF TypeOK, Volume, Ended

\* No template comes from nowhere.
LEMMA PendingStep ==
  ASSUME TypeOK, [Next]_vars
  PROVE  /\ Pending' \subseteq Pending \cup {First, spec'}
         /\ \/ spec' = spec
            \/ \E a \in Pages : PageUpdateInstanceConfig(a)
<1>1. ASSUME NEW a \in Pages, PageEditInstanceConfig(a)
      PROVE  Pending' = Pending /\ spec' = spec
  BY <1>1 DEF PageEditInstanceConfig, Pending
<1>2. ASSUME NEW a \in Pages, PageUpdateInstanceConfig(a)
      PROVE  Pending' \subseteq Pending \cup {spec'}
  BY <1>2 DEF PageUpdateInstanceConfig, Pending
<1>3. CASE ReconcileDeployment
  BY <1>3 DEF ReconcileDeployment, Pending
<1>4. CASE Retire
  BY <1>4 DEF Retire, Pending
<1>5. ASSUME NEW p \in Pods, Schedule(p)
      PROVE  Pending' \subseteq Pending /\ spec' = spec
  BY <1>5 DEF Schedule, Pending, TypeOK, Pod
<1>6. ASSUME NEW p \in Pods, Ended(p)
      PROVE  Pending' \subseteq Pending \cup {First} /\ spec' = spec
  <2>1. \A q \in Pods : pod'[q].template \in {pod[q].template, First}
    BY <1>6, EndedEffect DEF NoPod
  <2> QED
    BY <1>6, <2>1 DEF Ended, Pending
<1>7. ASSUME NEW p \in Pods, NEW pc, At(p, pc), UNCHANGED <<spec, template, wanted>>
      PROVE  Pending' = Pending /\ spec' = spec
  <2>1. \A q \in Pods : pod'[q].template = pod[q].template
    BY <1>7, AtEffect
  <2> QED
    BY <1>7, <2>1 DEF Pending
<1>8. ASSUME NEW p \in Pods, WriteConfig(p)
      PROVE  Pending' = Pending /\ spec' = spec
  BY <1>7, <1>8 DEF WriteConfig, Look, Truncate, Write, WriteMark
<1>9. ASSUME NEW p \in Pods, EditLive(p)
      PROVE  Pending' = Pending /\ spec' = spec
  BY <1>9 DEF EditLive, Pending
<1>10. CASE UNCHANGED vars
  BY <1>10 DEF vars, Pending
<1> QED
  BY <1>1, <1>2, <1>3, <1>4, <1>5, <1>6, <1>8, <1>9, <1>10
  DEF Next, Stop, Kill, ReconcileDeployment, Retire

-----------------------------------------------------------------------------
(* Generations are in order *)

LEMMA InitOrder == Init => GenerationsInOrder
  BY DEF Init, GenerationsInOrder, Pending, First, NoPod, InScript, None

LEMMA OrderStep ==
  ASSUME TypeOK, TypeOK', GenerationsInOrder, [Next]_vars
  PROVE  GenerationsInOrder'
<1> USE DEF GenerationsInOrder
<1>1. spec' = spec \/ spec'.gen = spec.gen + 1
  BY PendingStep DEF PageUpdateInstanceConfig
<1>2. spec.gen \in Nat /\ spec'.gen \in Nat /\ newest \in Int /\ newest' \in Int
  BY DEF TypeOK, Config, None
<1>3. spec.gen <= spec'.gen
  BY <1>1, <1>2
<1>4. \A t \in Pending' : t.gen <= spec'.gen
  <2> SUFFICES ASSUME NEW t \in Pending' PROVE t.gen <= spec'.gen
    OBVIOUS
  <2>1. CASE t \in Pending
    <3>1. t.gen \in Nat
      BY <2>1 DEF TypeOK, Pending, Pod, Config
    <3> QED
      BY <2>1, <3>1, <1>2, <1>3
  <2>2. CASE t \in {First, spec'}
    BY <2>2, <1>2 DEF First
  <2> QED
    BY <2>1, <2>2, PendingStep
<1>5. ASSUME UNCHANGED <<pod, volume, newest>> PROVE GenerationsInOrder'
  <2>1. \A p \in Pods : (Gen(p) = Gen(p)') /\ (InScript(p) <=> InScript(p)')
    BY <1>5 DEF Gen, InScript
  <2> QED
    BY <1>2, <1>3, <1>4, <1>5, <2>1
<1>6. ASSUME NEW p \in Pods, Schedule(p) PROVE GenerationsInOrder'
  <2>1. \A q \in Pods : InScript(q)' \/ pod'[q].pc = "run" => pod'[q] = pod[q]
    BY <1>6 DEF Schedule, InScript, TypeOK
  <2> QED
    BY <1>2, <1>3, <1>4, <1>6, <2>1 DEF Schedule, InScript, Gen
<1>7. ASSUME NEW p \in Pods, Ended(p) PROVE GenerationsInOrder'
  <2>1. \A q \in Pods : InScript(q)' \/ pod'[q].pc = "run" => pod'[q] = pod[q]
    BY <1>7, EndedEffect DEF NoPod, InScript
  <2>2. volume'.by <= newest' /\ volume'.mark <= newest'
    BY <1>7, EndedEffect DEF TypeOK, None
  <2> QED
    BY <1>2, <1>4, <1>7, <2>1, <2>2 DEF Ended, InScript, Gen
<1>8. ASSUME NEW p \in Pods, Look(p) PROVE GenerationsInOrder'
  <2>1. Gen(p) <= spec.gen
    BY DEF Gen, Pending
  <2>2. Gen(p) \in Nat
    BY DEF Gen, TypeOK, Pod, Config
  <2>3. newest <= newest' /\ newest' <= spec.gen /\ Gen(p) <= newest'
    BY <1>2, <1>8, <2>1, <2>2 DEF Look
  <2>4. volume.by \in Int /\ volume.mark \in Int /\ volume' = volume
    BY <1>8 DEF TypeOK, Volume, None, Look
  <2>5. \A q \in Pods : Gen(q)' = Gen(q) /\ (q # p => pod'[q] = pod[q]) /\ Gen(q) \in Nat
    BY <1>8, AtEffect DEF Look, Gen, TypeOK, Pod, Config
  <2> QED
    BY <1>2, <1>3, <1>4, <1>8, <2>3, <2>4, <2>5 DEF Look, InScript
<1>9. ASSUME NEW p \in Pods, Truncate(p) \/ Write(p) \/ WriteMark(p) PROVE GenerationsInOrder'
  <2>1. Gen(p) <= newest /\ InScript(p)
    BY <1>9 DEF Truncate, Write, WriteMark, InScript
  <2>2. UNCHANGED <<spec, newest>> /\ \E pc : At(p, pc)
    BY <1>9 DEF Truncate, Write, WriteMark
  <2>3. \A q \in Pods : Gen(q)' = Gen(q) /\ (q # p => pod'[q] = pod[q])
    BY <2>2, AtEffect
  <2>4. volume'.by \in {volume.by, None} /\ volume'.mark \in {volume.mark, Gen(p)}
    BY <1>9 DEF Truncate, Write, WriteMark, TypeOK, Volume
  <2>5. None <= newest
    BY DEF TypeOK, None
  <2> QED
    BY <1>2, <1>4, <2>1, <2>2, <2>3, <2>4, <2>5 DEF InScript
<1>10. ASSUME NEW p \in Pods, EditLive(p) PROVE GenerationsInOrder'
  <2>1. Gen(p) <= newest
    BY <1>10 DEF EditLive
  <2>2. volume'.by = Gen(p) /\ volume'.mark = volume.mark
    BY <1>10 DEF EditLive, TypeOK, Volume
  <2> QED
    BY <1>2, <1>4, <1>10, <2>1, <2>2 DEF EditLive, InScript, Gen
<1> QED
  BY <1>5, <1>6, <1>7, <1>8, <1>9, <1>10
  DEF Next, PageEditInstanceConfig, PageUpdateInstanceConfig, ReconcileDeployment, Retire,
      Stop, Kill, WriteConfig, vars

-----------------------------------------------------------------------------
(* Scripts that run in order *)

LEMMA InitScripts == Init => ScriptsInOrder
  BY DEF Init, ScriptsInOrder, InScript, NoPod, NewestMarked, None

LEMMA ScriptsStep ==
  ASSUME TypeOK, TypeOK', GenerationsInOrder, ScriptsInOrder,
         ~disturbed', [Next]_vars
  PROVE  ScriptsInOrder'
<1> USE DEF ScriptsInOrder, NewestMarked
<1>1. \A p \in Pods : Gen(p) \in Nat
  BY DEF Gen, TypeOK, Pod, Config
<1>2. volume.by \in Int /\ volume.mark \in Int /\ newest \in Int /\ None \in Int
  BY DEF TypeOK, Volume, None
<1>3. ASSUME UNCHANGED <<pod, volume, newest>> PROVE ScriptsInOrder'
  <2>1. \A p \in Pods : (Gen(p) = Gen(p)') /\ (InScript(p) <=> InScript(p)')
    BY <1>3 DEF Gen, InScript
  <2> QED
    BY <1>3, <2>1
<1>4. ASSUME NEW p \in Pods, Schedule(p) PROVE ScriptsInOrder'
  <2>1. \A q \in Pods : InScript(q)' \/ pod'[q].pc = "run" => pod'[q] = pod[q]
    BY <1>4 DEF Schedule, InScript, TypeOK
  <2>2. UNCHANGED <<volume, newest>>
    BY <1>4 DEF Schedule
  <2> QED
    BY <2>1, <2>2 DEF InScript, Gen
<1>5. ASSUME NEW p \in Pods, Ended(p) PROVE ScriptsInOrder'
  <2>1. \A q \in Pods : InScript(q)' \/ pod'[q].pc = "run" => pod'[q] = pod[q] /\ q # p
    BY <1>5, EndedEffect DEF NoPod, InScript
  <2>2. \A q \in Pods : pod'[q] = pod[q] => (InScript(q) <=> InScript(q)') /\ Gen(q)' = Gen(q)
    BY DEF InScript, Gen
  <2>3. newest' = newest
    BY <1>5 DEF Ended
  <2>4. CASE volume' = volume
    BY <2>1, <2>2, <2>3, <2>4 DEF InScript
  <2>5. CASE /\ pod[p].pc = "mark"
             /\ volume'.mark = None
             /\ volume'.file = volume.file /\ volume'.from = volume.from
             /\ volume'.has = volume.has /\ volume'.by = volume.by
    <3>1. InScript(p)
      BY <2>5 DEF InScript
    <3>2. \A q \in Pods : ~InScript(q)'
      BY <2>1, <2>2, <3>1
    <3>3. volume.mark # newest /\ Gen(p) = newest
      BY <3>1
    <3>4. \A q \in Pods : ~(pod'[q].pc = "run" /\ Gen(q)' = newest)
      BY <2>1, <2>2, <3>3
    <3> QED
      BY <2>3, <2>5, <3>2, <3>3, <3>4 DEF InScript
  <2> QED
    BY <1>5, <2>4, <2>5, EndedEffect
<1>6. ASSUME NEW p \in Pods, Look(p) PROVE ScriptsInOrder'
  <2>1. \A q \in Pods : ~InScript(q)
    BY <1>6 DEF Look
  <2>2. Gen(p) >= newest /\ newest' = Gen(p) /\ volume' = volume
    <3>1. ~(Gen(p) < newest)
      BY <1>6 DEF Look
    <3>2. newest' = (IF Gen(p) > newest THEN Gen(p) ELSE newest) /\ volume' = volume
      BY <1>6 DEF Look
    <3> QED
      BY <1>1, <1>2, <3>1, <3>2
  <2>3. \A q \in Pods : Gen(q)' = Gen(q) /\ (q # p => pod'[q] = pod[q])
    BY <1>6, AtEffect DEF Look
  <2>4. \A q \in Pods : q # p => ~InScript(q)'
    BY <2>1, <2>3 DEF InScript
  <2>5. \A q \in Pods : q # p /\ pod'[q].pc = "run" /\ Gen(q)' = newest'
                          => newest' = newest /\ NewestMarked
    BY <1>1, <1>2, <2>2, <2>3 DEF GenerationsInOrder
  <2>6. volume.mark = newest' \/ volume.by = newest' => newest' = newest /\ NewestMarked
    <3>1. newest' # None
      BY <1>1, <2>2 DEF None
    <3> QED
      BY <1>1, <1>2, <2>2, <3>1 DEF GenerationsInOrder
  <2>7. CASE NeedsWrite(p)
    <3>1. pod'[p].pc = "truncate"
      BY <1>6, <2>7, AtEffect DEF Look
    <3>2. volume.mark # newest'
      BY <2>2, <2>6, <2>7 DEF NeedsWrite
    <3> QED
      BY <2>2, <2>3, <2>4, <2>5, <2>6, <3>1, <3>2 DEF InScript
  <2>8. CASE ~NeedsWrite(p)
    <3>1. pod'[p].pc = "run"
      BY <1>6, <2>8, AtEffect DEF Look
    <3>2. newest' = newest /\ NewestMarked
      BY <2>2, <2>6, <2>8 DEF NeedsWrite
    <3>3. \A q \in Pods : ~InScript(q)'
      BY <2>4, <3>1 DEF InScript
    <3> QED
      BY <2>2, <3>2, <3>3 DEF InScript
  <2> QED
    BY <2>7, <2>8
<1>7. ASSUME NEW p \in Pods, NEW pc, At(p, pc), InScript(p), newest' = newest
      PROVE  /\ \A q \in Pods : q # p => pod'[q] = pod[q] /\ ~InScript(q)'
             /\ \A q \in Pods : Gen(q)' = Gen(q)
             /\ pod'[p].pc = pc
             /\ Gen(p) = newest /\ volume.mark # newest /\ newest # None
             /\ \A q \in Pods : q # p => ~(pod'[q].pc = "run" /\ Gen(q)' = newest)
             /\ volume.by # newest
  <2>1. \A q \in Pods : q # p => pod'[q] = pod[q] /\ Gen(q)' = Gen(q)
    BY <1>7, AtEffect
  <2>2. \A q \in Pods : q # p => ~InScript(q)'
    BY <1>7, <2>1 DEF InScript
  <2>3. Gen(p) = newest /\ volume.mark # newest /\ newest # None
    BY <1>1, <1>7 DEF None
  <2> QED
    BY <1>7, <2>1, <2>2, <2>3, AtEffect
<1>8. ASSUME NEW p \in Pods, Truncate(p) PROVE ScriptsInOrder'
  <2>1. At(p, "write") /\ InScript(p) /\ newest' = newest
    BY <1>8 DEF Truncate, InScript
  <2>2. volume'.mark = volume.mark /\ volume'.by = None
    BY <1>8 DEF Truncate, TypeOK, Volume
  <2> QED
    BY <1>7, <2>1, <2>2 DEF InScript
<1>9. ASSUME NEW p \in Pods, Write(p) PROVE ScriptsInOrder'
  <2>1. At(p, "mark") /\ InScript(p) /\ newest' = newest
    BY <1>9 DEF Write, InScript
  <2>2. /\ volume'.mark = volume.mark /\ volume'.by = None
        /\ volume'.file = "whole" /\ volume'.from = Gen(p)
    BY <1>9 DEF Write, TypeOK, Volume
  <2> QED
    BY <1>7, <2>1, <2>2 DEF InScript
<1>10. ASSUME NEW p \in Pods, WriteMark(p) PROVE ScriptsInOrder'
  <2>1. At(p, "run") /\ InScript(p) /\ newest' = newest
    BY <1>10 DEF WriteMark, InScript
  <2>2. /\ volume'.mark = Gen(p) /\ volume'.by = volume.by
        /\ volume'.file = volume.file /\ volume'.from = volume.from
    BY <1>10 DEF WriteMark, TypeOK, Volume
  <2>3. volume.file = "whole" /\ volume.from = newest
    BY <1>10 DEF WriteMark
  <2> QED
    BY <1>7, <2>1, <2>2, <2>3 DEF InScript
<1>11. ASSUME NEW p \in Pods, EditLive(p) PROVE ScriptsInOrder'
  <2>1. pod[p].pc = "run" /\ pod' = pod /\ newest' = newest
    BY <1>11 DEF EditLive
  <2>2. /\ volume'.by = Gen(p) /\ volume'.mark = volume.mark
        /\ volume'.file = volume.file /\ volume'.from = volume.from
    BY <1>11 DEF EditLive, TypeOK, Volume
  <2>3. \A q \in Pods : Gen(q)' = Gen(q) /\ (InScript(q) <=> InScript(q)')
    BY <2>1 DEF Gen, InScript
  <2> QED
    BY <2>1, <2>2, <2>3
<1> QED
  BY <1>3, <1>4, <1>5, <1>6, <1>8, <1>9, <1>10, <1>11
  DEF Next, PageEditInstanceConfig, PageUpdateInstanceConfig, ReconcileDeployment, Retire,
      Stop, Kill, WriteConfig, vars

-----------------------------------------------------------------------------
(* Configurations are complete *)

LEMMA InitComplete == Init => AllComplete
<1> SUFFICES ASSUME Init PROVE AllComplete
  OBVIOUS
<1>1. Complete(First)
  BY DEF Complete, First
<1>2. \A t \in Pending : t = First
  BY DEF Init, Pending, NoPod
<1>3. \A a \in Pages : ~page[a].open
  BY DEF Init, Closed
<1>4. volume.file # "whole"
  BY DEF Init
<1> QED
  BY <1>1, <1>2, <1>3, <1>4 DEF AllComplete

LEMMA CompleteStep ==
  ASSUME TypeOK, TypeOK', GenerationsInOrder, ScriptsInOrder, AllComplete,
         ~disturbed', ~hasty', [Next]_vars
  PROVE  AllComplete'
<1> USE DEF AllComplete
<1>1. spec \in Config /\ spec.gen \in Nat /\ Complete(spec) /\ Complete(First)
  BY DEF TypeOK, Config, Pending, Complete, First
<1>2. ASSUME NEW a \in Pages, PageUpdateInstanceConfig(a) PROVE Complete(spec')
  <2>1. page[a].base = 1 .. spec.gen
    BY <1>2 DEF PageUpdateInstanceConfig
  <2>2. spec'.gen = spec.gen + 1 /\ spec'.has = page[a].base \cup {spec.gen + 1}
    BY <1>2 DEF PageUpdateInstanceConfig
  <2> QED
    BY <1>1, <2>1, <2>2 DEF Complete
<1>3. Complete(spec')
  BY <1>1, <1>2, PendingStep
<1>4. \A t \in Pending' : Complete(t)
  BY <1>1, <1>3, PendingStep
<1>5. volume'.file = "whole" => volume'.has = 1 .. volume'.from
  <2>1. ASSUME NEW p \in Pods, Ended(p)
        PROVE  volume'.file = "whole" => volume'.has = 1 .. volume'.from
    BY <2>1, EndedEffect
  <2>2. ASSUME NEW p \in Pods, Truncate(p) PROVE volume'.file = "torn"
    BY <2>2 DEF Truncate, TypeOK, Volume
  <2>3. ASSUME NEW p \in Pods, Write(p) PROVE volume'.has = 1 .. volume'.from
    <3>1. volume'.has = pod[p].template.has /\ volume'.from = pod[p].template.gen
      BY <2>3 DEF Write, TypeOK, Volume, Gen
    <3>2. Complete(pod[p].template)
      BY DEF Pending
    <3> QED
      BY <3>1, <3>2 DEF Complete
  <2>4. ASSUME NEW p \in Pods, WriteMark(p) \/ EditLive(p)
        PROVE  volume'.file = volume.file /\ volume'.has = volume.has /\ volume'.from = volume.from
    BY <2>4 DEF WriteMark, EditLive, TypeOK, Volume
  <2> QED
    BY <2>1, <2>2, <2>3, <2>4
    DEF Next, PageEditInstanceConfig, PageUpdateInstanceConfig, ReconcileDeployment, Retire,
        Schedule, Stop, Kill, WriteConfig, Look, vars
<1>6. \A a \in Pages : page'[a].open /\ ~page'[a].behind => page'[a].base = 1 .. page'[a].gen
  <2>1. ASSUME NEW a \in Pages, PageEditInstanceConfig(a),
               page'[a].open, ~page'[a].behind
        PROVE  page'[a].base = 1 .. page'[a].gen
    <3>1. CASE page' = [page EXCEPT ![a] =
                 [open |-> TRUE, base |-> spec.has, gen |-> spec.gen, behind |-> FALSE]]
      BY <1>1, <3>1 DEF TypeOK, Complete
    <3>2. ASSUME NEW p \in Pods, pod[p].pc = "run",
                 page' = [page EXCEPT ![a] =
                   [open |-> TRUE, base |-> volume.has, gen |-> spec.gen,
                    behind |-> Gen(p) # spec.gen]]
          PROVE  page'[a].base = 1 .. page'[a].gen
      <4>1. page'[a].base = volume.has /\ page'[a].gen = spec.gen /\ Gen(p) = spec.gen
        BY <2>1, <3>2 DEF TypeOK
      <4>2. Gen(p) <= newest /\ newest <= spec.gen /\ newest \in Int
        BY <3>2 DEF GenerationsInOrder, TypeOK, None
      <4>3. Gen(p) = newest
        BY <1>1, <4>1, <4>2
      <4>4. volume.file = "whole" /\ volume.from = newest
        BY <3>2, <4>3 DEF ScriptsInOrder, NewestMarked
      <4> QED
        BY <4>1, <4>3, <4>4
    <3> QED
      BY <2>1, <3>1, <3>2 DEF PageEditInstanceConfig, ReadInstanceConfig
  <2>2. ASSUME NEW a \in Pages, PageEditInstanceConfig(a) \/ PageUpdateInstanceConfig(a)
        PROVE  \A b \in Pages : b # a => page'[b] = page[b]
    BY <2>2 DEF PageEditInstanceConfig, PageUpdateInstanceConfig, TypeOK
  <2>3. ASSUME NEW a \in Pages, PageUpdateInstanceConfig(a) PROVE ~page'[a].open
    BY <2>3 DEF PageUpdateInstanceConfig, TypeOK, Closed
  <2>4. \/ page' = page
        \/ \E a \in Pages : PageEditInstanceConfig(a) \/ PageUpdateInstanceConfig(a)
    BY DEF Next, ReconcileDeployment, Retire, Schedule, Stop, Kill, Ended, WriteConfig, Look,
           Truncate, Write, WriteMark, EditLive, vars
  <2> QED
    BY <2>1, <2>2, <2>3, <2>4
<1> QED
  BY <1>4, <1>5, <1>6

-----------------------------------------------------------------------------
(* The invariant and what follows from it *)

\* A disturbance is not forgotten, nor is haste.
LEMMA HistoryStays ==
  ASSUME TypeOK, [Next]_vars
  PROVE  (disturbed => disturbed') /\ (hasty => hasty')
<1>1. ASSUME NEW a \in Pages, PageUpdateInstanceConfig(a)
      PROVE  disturbed' = disturbed /\ (hasty => hasty')
  BY <1>1, Zenon DEF PageUpdateInstanceConfig
<1>2. ASSUME NEW p \in Pods, Look(p)
      PROVE  hasty' = hasty /\ (disturbed => disturbed')
  BY <1>2, Zenon DEF Look
<1>3. \/ UNCHANGED <<disturbed, hasty>>
      \/ \E a \in Pages : PageUpdateInstanceConfig(a)
      \/ \E p \in Pods : Look(p)
  BY DEF Next, PageEditInstanceConfig, ReconcileDeployment, Retire, Schedule, Stop, Kill,
         Ended, WriteConfig, Truncate, Write, WriteMark, EditLive, vars
<1> QED
  BY <1>1, <1>2, <1>3

\* Generations stay in order, and scripts and configurations too, unless somebody
\* interfered.
THEOREM RolloutInvariant == Spec => []IInv
<1>1. Init => IInv
  BY InitTypes, InitOrder, InitScripts, InitComplete DEF IInv
<1>2. IInv /\ [Next]_vars => IInv'
  <2> SUFFICES ASSUME IInv, [Next]_vars PROVE IInv'
    OBVIOUS
  <2>1. TypeOK /\ TypeOK' /\ GenerationsInOrder /\ GenerationsInOrder'
    BY TypesStep, OrderStep DEF IInv
  <2>2. ~disturbed' => ScriptsInOrder'
    BY <2>1, HistoryStays, ScriptsStep DEF IInv
  <2>3. ~disturbed' /\ ~hasty' => AllComplete'
    BY <2>1, HistoryStays, CompleteStep DEF IInv
  <2> QED
    BY <2>1, <2>2, <2>3 DEF IInv
<1> QED
  BY <1>1, <1>2, PTL DEF Spec

\* A pod whose script was the newest finds the configuration of its generation,
\* unless scripts ran out of order (controller.go:325-337).
THEOREM StartsWithItsConfigHolds == Spec => []StartsWithItsConfig
<1>1. IInv => StartsWithItsConfig
  BY DEF IInv, ScriptsInOrder, NewestMarked, StartsWithItsConfig
<1> QED
  BY <1>1, RolloutInvariant, PTL

\* Only a newer generation overwrites what was changed in place, unless scripts
\* ran out of order (controller.go:332).
THEOREM LiveEditsKeptHolds == Spec => []LiveEditsKept
<1>1. IInv => LiveEditsKept
  <2> SUFFICES ASSUME IInv, ~disturbed, NEW p \in Pods,
                      pod[p].pc = "truncate", volume.by # None
               PROVE  Gen(p) > volume.by
    BY DEF LiveEditsKept
  <2>1. Gen(p) = newest /\ volume.mark # newest
    BY DEF IInv, ScriptsInOrder, InScript
  <2>2. volume.by <= newest /\ volume.by # newest
    BY <2>1 DEF IInv, GenerationsInOrder, ScriptsInOrder, NewestMarked
  <2>3. volume.by \in Int /\ newest \in Int
    BY DEF IInv, TypeOK, Volume, None
  <2> QED
    BY <2>1, <2>2, <2>3
<1> QED
  BY <1>1, RolloutInvariant, PTL

\* No saved edit is lost, unless scripts ran out of order or a page was saved that
\* did not show the latest one (pages.go:324-361).
THEOREM EditsAccumulateHolds == Spec => []EditsAccumulate
<1>1. IInv => EditsAccumulate
  BY DEF IInv, AllComplete, Complete, Pending, EditsAccumulate
<1> QED
  BY <1>1, RolloutInvariant, PTL

=============================================================================
