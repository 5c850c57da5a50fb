--------------------------- MODULE ConfigRollout ---------------------------
(***************************************************************************)
(* How an edited gateway configuration reaches openclaw: from the edit     *)
(* page (internal/handler/pages.go) into the ClawInstance, from there into *)
(* the pod template (internal/operator/controller.go), and from the        *)
(* template onto the volume, by the write-config init container of every   *)
(* pod that starts.  The page in turn shows the file of a running pod, and *)
(* openclaw and its shell change that file in place.                       *)
(*                                                                         *)
(* Pods of several templates live on one volume while a deployment rolls,  *)
(* and a pod may be killed between any two commands of its script.         *)
(*                                                                         *)
(* A configuration is told by the generation that wrote it and by the      *)
(* saved edits it has in it.  A configuration that is empty in the spec    *)
(* stands for the operator's default, which is taken as fixed.  Pods and   *)
(* replica sets are the cluster's, and modelled as far as the script can   *)
(* tell.                                                                   *)
(***************************************************************************)
EXTENDS Integers

CONSTANTS
  Pods,    \* names for the pods that exist at one time
  Pages,   \* users with an edit page
  Edits,   \* how many edits are saved in a behaviour
  Kills    \* how many pods are killed in a behaviour

ASSUME EditsAssumption == Edits \in Nat
ASSUME KillsAssumption == Kills \in Nat

VARIABLES
  spec,       \* configuration in the ClawInstance
  template,   \* and in the deployment
  wanted,     \* templates whose replica set wants a pod
  pod,        \* [Pods -> [pc, template]]
  volume,     \* the two files, see Volume
  page,       \* [Pages -> [open, base, gen, behind]]
  kills,      \* kills left
  newest,     \* history: the newest generation whose script has begun
  disturbed,  \* history: a script has begun after a newer one, or during one
  hasty       \* history: a page was saved that did not show the latest edit

vars == <<spec, template, wanted, pod, volume, page, kills, newest, disturbed, hasty>>

Config == [gen: Nat, has: SUBSET Nat]

None == -1   \* no mark, and no live edit

\* "from" is the generation that wrote openclaw.json, "has" the edits in it, "by"
\* the generation of the pod in which it was changed since.  "mark" is the
\* content of .config-gen.
Volume ==
  [file: {"none", "torn", "whole"}, from: Nat, has: SUBSET Nat,
   by: Nat \cup {None}, mark: Nat \cup {None}]

Pod == [pc: {"none", "look", "truncate", "write", "mark", "run"}, template: Config]
Page == [open: BOOLEAN, base: SUBSET Nat, gen: Nat, behind: BOOLEAN]

TypeOK ==
  /\ spec \in Config /\ template \in Config /\ wanted \subseteq Config
  /\ pod \in [Pods -> Pod]
  /\ volume \in Volume
  /\ page \in [Pages -> Page]
  /\ kills \in Nat
  /\ newest \in Nat \cup {None}
  /\ disturbed \in BOOLEAN /\ hasty \in BOOLEAN

First == [gen |-> 0, has |-> {}]

Closed == [open |-> FALSE, base |-> {}, gen |-> 0, behind |-> FALSE]
NoPod == [pc |-> "none", template |-> First]

\* The operator has just created the deployment.
Init ==
  /\ spec = First /\ template = First /\ wanted = {First}
  /\ pod = [p \in Pods |-> NoPod]
  /\ volume = [file |-> "none", from |-> 0, has |-> {}, by |-> None, mark |-> None]
  /\ page = [a \in Pages |-> Closed]
  /\ kills = Kills
  /\ newest = None /\ disturbed = FALSE /\ hasty = FALSE

Gen(p) == pod[p].template.gen

At(p, pc) == pod' = [pod EXCEPT ![p] = [pc |-> pc, template |-> pod[p].template]]

InScript(p) == pod[p].pc \in {"truncate", "write", "mark"}

Running(t) == \E p \in Pods : pod[p].pc = "run" /\ pod[p].template = t

-----------------------------------------------------------------------------
(* The edit page *)

\* What the page shows if the pod it asks is p.
ReadInstanceConfig(p) ==
  [open |-> TRUE, base |-> volume.has, gen |-> spec.gen, behind |-> Gen(p) # spec.gen]

\* The file as the first pod listed has it, or the configuration in the spec
\* when that pod does not run or cannot be asked.
PageEditInstanceConfig(a) ==
  /\ \/ \E p \in Pods :
          /\ pod[p].pc = "run"
          /\ page' = [page EXCEPT ![a] = ReadInstanceConfig(p)]
     \/ page' = [page EXCEPT ![a] =
          [open |-> TRUE, base |-> spec.has, gen |-> spec.gen, behind |-> FALSE]]
  /\ UNCHANGED <<spec, template, wanted, pod, volume, kills, newest, disturbed, hasty>>

PageUpdateInstanceConfig(a) ==
  /\ page[a].open /\ spec.gen < Edits
  /\ spec' = [gen |-> spec.gen + 1, has |-> page[a].base \cup {spec.gen + 1}]
  /\ hasty' = (hasty \/ page[a].behind \/ page[a].gen # spec.gen)
  /\ page' = [page EXCEPT ![a] = Closed]
  /\ UNCHANGED <<template, wanted, pod, volume, kills, newest, disturbed>>

-----------------------------------------------------------------------------
(* The operator and the deployment *)

ReconcileDeployment ==
  /\ template # spec
  /\ template' = spec /\ wanted' = wanted \cup {spec}
  /\ UNCHANGED <<spec, pod, volume, page, kills, newest, disturbed, hasty>>

Schedule(p) ==
  /\ pod[p].pc = "none"
  /\ \E t \in wanted :
       /\ \A q \in Pods : pod[q].pc = "none" \/ pod[q].template # t
       /\ pod' = [pod EXCEPT ![p] = [pc |-> "look", template |-> t]]
  /\ UNCHANGED <<spec, template, wanted, volume, page, kills, newest, disturbed, hasty>>

\* A rolling update gives up an old replica that is not available, or not the
\* last one that is.
Retire ==
  /\ \E t \in wanted \ {template} :
       /\ Running(t) => \E u \in wanted \ {t} : Running(u)
       /\ wanted' = wanted \ {t}
  /\ UNCHANGED <<spec, template, pod, volume, page, kills, newest, disturbed, hasty>>

\* A pod ends between two of its commands, or during one: the shell has opened
\* the file and not written it, or has emptied the mark.
Ended(p) ==
  /\ pod' = [pod EXCEPT ![p] = NoPod]
  /\ \/ UNCHANGED volume
     \/ pod[p].pc = "mark" /\ volume' = [volume EXCEPT !.mark = None]
  /\ UNCHANGED <<spec, template, wanted, page, newest, disturbed, hasty>>

Stop(p) ==
  /\ pod[p].pc # "none" /\ pod[p].template \notin wanted
  /\ Ended(p)
  /\ UNCHANGED kills

Kill(p) ==
  /\ pod[p].pc # "none" /\ kills > 0
  /\ kills' = kills - 1
  /\ Ended(p)

-----------------------------------------------------------------------------
(* The write-config init container, and openclaw *)

\* Mutant: what is on the volume is left alone.
NeedsWriteOnce(p) == volume.file = "none"

\* Mutant: every start writes.
NeedsWriteAlways(p) == TRUE

NeedsWrite(p) == volume.file = "none" \/ volume.mark # Gen(p)

Look(p) ==
  /\ pod[p].pc = "look"
  /\ At(p, IF NeedsWrite(p) THEN "truncate" ELSE "run")
  /\ disturbed' = (disturbed \/ Gen(p) < newest \/ \E q \in Pods : InScript(q))
  /\ newest' = IF Gen(p) > newest THEN Gen(p) ELSE newest
  /\ UNCHANGED <<spec, template, wanted, volume, page, kills, hasty>>

\* Mutant: the mark is written first.
TruncateMarked(p) ==
  /\ pod[p].pc = "truncate"
  /\ At(p, "write")
  /\ volume' = [volume EXCEPT !.file = "torn", !.has = {}, !.by = None, !.mark = Gen(p)]
  /\ UNCHANGED <<spec, template, wanted, page, kills, newest, disturbed, hasty>>

\* The shell opens the file for echo > openclaw.json ...
Truncate(p) ==
  /\ pod[p].pc = "truncate"
  /\ At(p, "write")
  /\ volume' = [volume EXCEPT !.file = "torn", !.has = {}, !.by = None]
  /\ UNCHANGED <<spec, template, wanted, page, kills, newest, disturbed, hasty>>

\* ... and echo writes it.
Write(p) ==
  /\ pod[p].pc = "write"
  /\ At(p, "mark")
  /\ volume' = [volume EXCEPT !.file = "whole", !.from = Gen(p),
                              !.has = pod[p].template.has, !.by = None]
  /\ UNCHANGED <<spec, template, wanted, page, kills, newest, disturbed, hasty>>

WriteMark(p) ==
  /\ pod[p].pc = "mark"
  /\ At(p, "run")
  /\ volume' = [volume EXCEPT !.mark = Gen(p)]
  /\ UNCHANGED <<spec, template, wanted, page, kills, newest, disturbed, hasty>>

WriteConfig(p) == Look(p) \/ Truncate(p) \/ Write(p) \/ WriteMark(p)

\* Openclaw, or a user in its shell, changes the file.
EditLive(p) ==
  /\ pod[p].pc = "run" /\ volume.file = "whole"
  /\ volume' = [volume EXCEPT !.by = Gen(p)]
  /\ UNCHANGED <<spec, template, wanted, pod, page, kills, newest, disturbed, hasty>>

-----------------------------------------------------------------------------

Next ==
  \/ \E a \in Pages : PageEditInstanceConfig(a) \/ PageUpdateInstanceConfig(a)
  \/ ReconcileDeployment
  \/ Retire
  \/ \E p \in Pods :
       Schedule(p) \/ Stop(p) \/ Kill(p) \/ WriteConfig(p) \/ EditLive(p)

Spec == Init /\ [][Next]_vars

\* The operator reconciles what has changed, and the cluster does its work.
Fairness ==
  /\ WF_vars(ReconcileDeployment)
  /\ WF_vars(Retire)
  /\ \A p \in Pods : WF_vars(Schedule(p)) /\ WF_vars(Stop(p)) /\ WF_vars(WriteConfig(p))

FairSpec == Spec /\ Fairness

-----------------------------------------------------------------------------
(* Why it works *)

Pending == {pod[p].template : p \in Pods} \cup wanted \cup {spec, template}

GenerationsInOrder ==
  /\ newest <= spec.gen /\ volume.by <= newest /\ volume.mark <= newest
  /\ \A t \in Pending : t.gen <= spec.gen
  /\ \A p \in Pods : InScript(p) \/ pod[p].pc = "run" => Gen(p) <= newest

\* Scripts run one after the other, and the newest mark is only ever there when
\* the newest file is.
NewestMarked == volume.mark = newest /\ volume.file = "whole" /\ volume.from = newest

ScriptsInOrder ==
  /\ \A p, q \in Pods : InScript(p) /\ InScript(q) => p = q
  /\ \A p \in Pods : InScript(p) => Gen(p) = newest /\ volume.mark # newest
  /\ \A p \in Pods :
       pod[p].pc = "mark" => volume.file = "whole" /\ volume.from = newest
  /\ \A p \in Pods : pod[p].pc = "run" /\ Gen(p) = newest => NewestMarked
  /\ volume.mark = newest /\ newest # None => NewestMarked
  /\ volume.by = newest /\ newest # None => NewestMarked

Complete(c) == c.has = 1 .. c.gen

AllComplete ==
  /\ \A t \in Pending : Complete(t)
  /\ volume.file = "whole" => volume.has = 1 .. volume.from
  /\ \A a \in Pages : page[a].open /\ ~page[a].behind => page[a].base = 1 .. page[a].gen

\* The inductive invariant behind the three invariants below: generations are
\* never ahead of the spec, scripts that run in order leave the newest mark only
\* beside the newest file, and configurations are complete.
IInv ==
  /\ TypeOK
  /\ GenerationsInOrder
  /\ ~disturbed => ScriptsInOrder
  /\ ~disturbed /\ ~hasty => AllComplete

-----------------------------------------------------------------------------
(* Properties *)

\* Unless the script of an older pod ran after or during that of a newer one, a
\* pod whose script was the newest finds the configuration of its own generation,
\* whatever was killed before and in whatever state it left the volume
\* (controller.go:325-337).
StartsWithItsConfig ==
  ~disturbed =>
    \A p \in Pods :
      pod[p].pc = "run" /\ Gen(p) = newest => volume.file = "whole" /\ volume.from = newest

\* Under the same condition, a change made in place is only ever overwritten for
\* a newer generation than that of the pod it was made in: restarts, evictions
\* and half-finished roll-outs do not undo it (controller.go:332).
LiveEditsKept ==
  ~disturbed =>
    \A p \in Pods : pod[p].pc = "truncate" /\ volume.by # None => Gen(p) > volume.by

\* If besides nobody saved a page that was opened before the latest edit, or that
\* showed the file of a pod of an older generation, then every edit ever saved is
\* in the configuration (pages.go:324-361).
EditsAccumulate == ~disturbed /\ ~hasty => spec.has = 1 .. spec.gen

\* Under the same condition as the first, the last edit is in force in the end.
EditsTakeEffect ==
  <>[](\/ disturbed
       \/ /\ \E p \in Pods : pod[p].pc = "run" /\ Gen(p) = spec.gen
          /\ volume.file = "whole" /\ volume.from = spec.gen)

=============================================================================
