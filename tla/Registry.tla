------------------------------ MODULE Registry ------------------------------
(***************************************************************************)
(* What the web server and the Slack bot promise about instances, whatever *)
(* calls run at the same time: a registry with at most one entry per user  *)
(* in which every call takes effect at once, at most once and only on      *)
(* behalf of somebody who may ask for it, and in which no answer claims    *)
(* what did not happen.                                                    *)
(*                                                                         *)
(* Module Server has the handlers as they are, a sequence of separate      *)
(* calls to the API server each, and is shown to implement this one.       *)
(***************************************************************************)
EXTENDS Naturals

CONSTANTS
  Users,     \* user ids, which are also the names of instances
  Admins,    \* the users of role "admin"
  Configs,   \* gateway configurations
  Requests   \* the calls of a behaviour

VARIABLES
  registry,  \* [Users -> Entry or Absent]
  call       \* [Requests -> Call]

registryVars == <<registry, call>>

Entry == [owner: Users, gen: Nat, cfg: Configs, closing: BOOLEAN]
Absent == [owner |-> "nobody"]

\* What the answer to a successful call is.
Success == [create |-> "created", edit |-> "edited", delete |-> "deleted"]

Call ==
  [op: DOMAIN Success, user: Users, name: Users,
   answer: {"none", "created", "edited", "deleted", "exists", "notfound",
            "invalid", "failed"}]

RegistryInit ==
  /\ registry \in
       [Users -> {Absent} \cup {e \in Entry : e.gen = 0 /\ ~e.closing}]
  /\ call \in [Requests -> {c \in Call : c.answer = "none"}]

Answered(r, a) == call' = [call EXCEPT ![r].answer = a]

MayTouch(c) == c.user \in Admins \/ c.user = registry[c.name].owner

\* The entry e, still of the same owner.
Revised(e, gen, cfg, closing) ==
  [owner |-> e.owner, gen |-> gen, cfg |-> cfg, closing |-> closing]

\* The effect of each kind of call on the entry it names.
EntryCreated(c) ==
  /\ c.op = "create" /\ c.name = c.user
  /\ registry[c.name] = Absent
  /\ \E g \in Configs :
       registry' = [registry EXCEPT ![c.name] =
                      [owner |-> c.user, gen |-> 0, cfg |-> g,
                       closing |-> FALSE]]

EntryEdited(c) ==
  /\ c.op = "edit"
  /\ registry[c.name] # Absent /\ MayTouch(c)
  /\ \E g \in Configs :
       registry' = [registry EXCEPT ![c.name] =
                      Revised(@, @.gen + 1, g, @.closing)]

EntryDeleted(c) ==
  /\ c.op = "delete"
  /\ registry[c.name] # Absent /\ MayTouch(c)
  /\ \/ registry' = [registry EXCEPT ![c.name] = Absent]
     \/ registry' = [registry EXCEPT ![c.name] =
                       Revised(@, @.gen, @.cfg, TRUE)]

\* A call is done.  Its caller is told so, or that something failed: the
\* server may not know.
Perform(r) ==
  /\ call[r].answer = "none"
  /\ EntryCreated(call[r]) \/ EntryEdited(call[r]) \/ EntryDeleted(call[r])
  /\ \E a \in {Success[call[r].op], "failed"} : Answered(r, a)

\* A call is turned down and changes nothing.  "exists" is said only when it
\* is so, and who has no right to an instance learns nothing about it.
Refuse(r) ==
  /\ call[r].answer = "none"
  /\ \E a \in {"exists", "notfound", "invalid", "failed"} :
       /\ a = "exists" =>
            call[r].op = "create" /\ registry[call[r].name] # Absent
       /\ a \in {"invalid", "failed"} =>
            call[r].user \in Admins \/ call[r].user = call[r].name
       /\ Answered(r, a)
  /\ UNCHANGED registry

\* The operator lets go of an instance whose deletion was asked for.
Remove(n) ==
  /\ registry[n] # Absent /\ registry[n].closing
  /\ registry' = [registry EXCEPT ![n] = Absent]
  /\ UNCHANGED call

RegistryNext ==
  \/ \E r \in Requests : Perform(r) \/ Refuse(r)
  \/ \E n \in Users : Remove(n)

RegistrySpec == RegistryInit /\ [][RegistryNext]_registryVars

=============================================================================
