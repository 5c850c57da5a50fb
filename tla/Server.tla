------------------------------- MODULE Server -------------------------------
(***************************************************************************)
(* The handlers of the web server (internal/handler/instance.go, pages.go) *)
(* and the slash commands of the Slack bot (internal/bot/commands.go) that *)
(* change ClawInstances.  Every one of them is a sequence of separate      *)
(* calls to the API server and the database, in a goroutine of its own,    *)
(* and other requests and the operator act between any two of the calls.   *)
(*                                                                         *)
(* The client is uncached (k8s.NewClient): a Get or List sees the current  *)
(* state.  Any read or write may fail, and a write that fails may have     *)
(* been carried out all the same.  A request whose server process dies, or *)
(* whose caller gives up, is one that takes no further step.               *)
(*                                                                         *)
(* Not covered: the handlers that only read and render, the contents of    *)
(* gateway configurations, resources and quotas, how a request finds its   *)
(* user.                                                                   *)
(***************************************************************************)
EXTENDS Naturals

CONSTANTS
  Users,     \* user ids; an instance has the id of its user as its name
  Admins,    \* the users of role "admin"
  Veterans,  \* the users who have an instance already
  Configs,   \* gateway configurations
  NoConfig,  \* none of them: the empty string
  Requests,  \* the requests of a behaviour
  Faults,    \* how many calls may fail in a behaviour
  Reports    \* how many status writes the operator makes in a behaviour

ASSUME AdminsAssumption == Admins \subseteq Users
ASSUME VeteransAssumption == Veterans \subseteq Users
ASSUME ConfigsAssumption == NoConfig \notin Configs
ASSUME BoundsAssumption == Faults \in Nat /\ Reports \in Nat

VARIABLES
  inst,       \* [Users -> Instance]: the resources in the API server
  req,        \* [Requests -> Request]: the handlers at work
  faults,     \* failures still allowed
  reports,    \* status writes still allowed
  published   \* history: every configuration the API server ever handed out

vars == <<inst, req, faults, reports, published>>

-----------------------------------------------------------------------------
(* Types *)

\* One version of a resource: "rv" is metadata.resourceVersion, "uid" tells
\* the incarnations of the name apart, "live" is FALSE if there is none,
\* "fin" is the finalizer, "del" deletionTimestamp; then the spec.
Instance ==
  [rv: Nat, uid: Nat, live: BOOLEAN, fin: BOOLEAN, del: BOOLEAN,
   owner: Users, gen: Nat, cfg: Configs \cup {NoConfig}]

Creators == {"CreateInstance", "PageCreateInstance", "handleCreate"}
Deleters == {"DeleteInstance", "PageDeleteInstance", "handleDelete"}
Handlers == Creators \cup Deleters \cup {"PageUpdateInstanceConfig"}

\* A handler is at the call "pc", for "user", about the instance "name".
\* "cfg" and "seen" are its locals gatewayConfig and instance.
Request ==
  [handler: Handlers, user: Users, name: Users,
   pc: {"check", "defaults", "create", "authorise", "find", "reread",
        "delete", "update", "done"},
   cfg: Configs \cup {NoConfig},
   seen: Instance,
   answer: {"none", "created", "edited", "deleted", "exists", "notfound",
            "invalid", "failed"}]

\* What the operator may ever see: a generation of an incarnation, and its
\* config.
Publication ==
  [name: Users, uid: Nat, gen: Nat, cfg: Configs \cup {NoConfig}]

TypeOK ==
  /\ inst \in [Users -> Instance]
  /\ req \in [Requests -> Request]
  /\ faults \in Nat /\ reports \in Nat
  /\ published \subseteq Publication
  /\ \A n \in Users : inst[n].live => inst[n].cfg \in Configs

-----------------------------------------------------------------------------
(* The beginning *)

\* No resource, after incarnation u.
Gone(n, v, u) ==
  [rv |-> v, uid |-> u, live |-> FALSE, fin |-> FALSE, del |-> FALSE,
   owner |-> n, gen |-> 0, cfg |-> NoConfig]

\* Where the handlers start.  The routes with an :id take any name, the others
\* act on the user's own.
Arrival(h, u, n) ==
  [handler |-> h, user |-> u, name |-> n,
   pc |-> CASE h \in Creators -> "check"
            [] h = "handleDelete" -> "find"
            [] OTHER -> "authorise",
   cfg |-> NoConfig, seen |-> Gone(n, 0, 0), answer |-> "none"]

Arrivals ==
  {Arrival(h, u, n) : h \in Handlers \ (Creators \cup {"handleDelete"}),
                      u \in Users, n \in Users}
  \cup {Arrival(h, u, u) : h \in Creators \cup {"handleDelete"}, u \in Users}

\* An instance that the operator has taken charge of before the requests of a
\* behaviour arrive.
Founded(n, c) ==
  [rv |-> 1, uid |-> 1, live |-> TRUE, fin |-> TRUE, del |-> FALSE,
   owner |-> n, gen |-> 0, cfg |-> c]

Init ==
  /\ \E f \in [Users -> Configs] :
       /\ inst = [n \in Users |-> IF n \in Veterans THEN Founded(n, f[n])
                                                   ELSE Gone(n, 0, 0)]
       /\ published = {[name |-> n, uid |-> 1, gen |-> 0, cfg |-> f[n]] :
                         n \in Veterans}
  /\ req \in [Requests -> Arrivals]
  /\ faults = Faults
  /\ reports = Reports

-----------------------------------------------------------------------------
(* Calls *)

Goto(r, p) == req' = [req EXCEPT ![r].pc = p]

Answer(r, a) == req' = [req EXCEPT ![r].pc = "done", ![r].answer = a]

Fault == faults > 0 /\ faults' = faults - 1

Changes(n, v) == inst' = [inst EXCEPT ![n] = v]

Announces(n, v) ==
  published' = published \cup
    {[name |-> n, uid |-> v.uid, gen |-> v.gen, cfg |-> v.cfg]}

\* The API server stores v as the next version of n.
Stores(n, v) ==
  LET w == [v EXCEPT !.rv = inst[n].rv + 1]
  IN  Changes(n, w) /\ Announces(n, w)

\* A write that the API server accepts: E is its effect.  The handler hears of
\* it, or the reply is lost.
Accepted(r, E, a) ==
  /\ E
  /\ \/ Answer(r, a) /\ UNCHANGED faults
     \/ Answer(r, "failed") /\ Fault

\* A write that does not reach the API server.
Unsent(r) == Answer(r, "failed") /\ Fault /\ UNCHANGED <<inst, published>>

\* A call, or its handler, ends without a write.
Ends(r, a) == Answer(r, a) /\ UNCHANGED <<inst, faults, published>>

-----------------------------------------------------------------------------
(* Creating *)

\* getUserInstance goes through all instances, for the bot; the web server
\* asks for one by name.
HasInstance(u) == \E n \in Users : inst[n].live /\ inst[n].owner = u

\* Only a successful look-up ends the handler: an error is taken for "no".
CheckFree(r) ==
  /\ req[r].pc = "check"
  /\ LET found == IF req[r].handler = "handleCreate"
                    THEN HasInstance(req[r].user)
                    ELSE inst[req[r].name].live
     IN  \/ found /\ Ends(r, "exists")
         \/ ~found /\ Goto(r, "defaults") /\ UNCHANGED <<inst, faults, published>>
         \/ Fault /\ Goto(r, "defaults") /\ UNCHANGED <<inst, published>>
  /\ UNCHANGED reports

\* A handler that forgot to look at the error of GetDefaults.
LoadDefaultsUnchecked(r) ==
  /\ req[r].pc = "defaults"
  /\ \/ \E c \in Configs :
          req' = [req EXCEPT ![r].pc = "create", ![r].cfg = c]
        /\ UNCHANGED <<inst, faults, published>>
     \/ Fault /\ Goto(r, "create") /\ UNCHANGED <<inst, published>>
  /\ UNCHANGED reports

\* GetDefaults and what placeholders and override make of the default config.
LoadDefaults(r) ==
  /\ req[r].pc = "defaults"
  /\ \/ \E c \in Configs :
          req' = [req EXCEPT ![r].pc = "create", ![r].cfg = c]
        /\ UNCHANGED <<inst, faults, published>>
     \/ Ends(r, "invalid")
     \/ Unsent(r)
  /\ UNCHANGED reports

\* The resource as a handler composes it.
Composed(r) ==
  [inst[req[r].name] EXCEPT
     !.uid = @ + 1, !.live = TRUE, !.owner = req[r].user, !.cfg = req[r].cfg]

\* AlreadyExists is for the web "exists", for the bot like any other failure.
Create(r) ==
  /\ req[r].pc = "create"
  /\ \/ /\ inst[req[r].name].live
        /\ Ends(r, IF req[r].handler = "handleCreate" THEN "failed"
                                                      ELSE "exists")
     \/ /\ ~inst[req[r].name].live
        /\ Accepted(r, Stores(req[r].name, Composed(r)), "created")
     \/ Unsent(r)
  /\ UNCHANGED reports

-----------------------------------------------------------------------------
(* Deleting and editing *)

\* The first Get of a handler with an :id, and who may go on.
Authorised(r) ==
  /\ inst[req[r].name].live
  /\ req[r].user \in Admins \/ inst[req[r].name].owner = req[r].user

Refused(r) ==
  /\ req[r].pc = "authorise"
  /\ \/ ~Authorised(r) /\ Ends(r, "notfound")
     \/ Answer(r, "notfound") /\ Fault /\ UNCHANGED <<inst, published>>
  /\ UNCHANGED reports

AuthoriseDelete(r) ==
  /\ req[r].pc = "authorise" /\ Authorised(r)
  /\ Goto(r, "reread")
  /\ UNCHANGED <<inst, faults, reports, published>>

\* k8s.DeleteInstance reads the resource once more and keeps only its name.
Reread(r) ==
  /\ req[r].pc = "reread"
  /\ \/ ~inst[req[r].name].live /\ Ends(r, "failed")
     \/ /\ inst[req[r].name].live /\ Goto(r, "delete")
        /\ UNCHANGED <<inst, faults, published>>
     \/ Unsent(r)
  /\ UNCHANGED reports

\* The bot takes the first instance of its user from the list.
Find(r) ==
  /\ req[r].pc = "find"
  /\ \/ ~HasInstance(req[r].user) /\ Ends(r, "notfound")
     \/ \E n \in Users :
          /\ inst[n].live /\ inst[n].owner = req[r].user
          /\ req' = [req EXCEPT ![r].pc = "delete", ![r].name = n]
          /\ UNCHANGED <<inst, faults, published>>
     \/ Answer(r, "notfound") /\ Fault /\ UNCHANGED <<inst, published>>
  /\ UNCHANGED reports

\* A deletion by name, without a precondition: it may hit an incarnation that
\* the handler has never read.
Deletion(n) ==
  \/ inst[n].fin /\ ~inst[n].del /\ Stores(n, [inst[n] EXCEPT !.del = TRUE])
  \/ inst[n].fin /\ inst[n].del /\ UNCHANGED <<inst, published>>
  \/ /\ ~inst[n].fin
     /\ Changes(n, Gone(n, inst[n].rv + 1, inst[n].uid))
     /\ UNCHANGED published

Delete(r) ==
  /\ req[r].pc = "delete"
  /\ \/ ~inst[req[r].name].live /\ Ends(r, "failed")
     \/ /\ inst[req[r].name].live
        /\ Accepted(r, Deletion(req[r].name), "deleted")
     \/ Unsent(r)
  /\ UNCHANGED reports

\* The edit keeps the whole resource it has read, the config of the form must
\* be JSON.
AuthoriseEdit(r) ==
  /\ req[r].pc = "authorise" /\ Authorised(r)
  /\ \/ /\ \E c \in Configs :
             req' = [req EXCEPT ![r].pc = "update", ![r].cfg = c,
                                ![r].seen = inst[req[r].name]]
        /\ UNCHANGED <<inst, faults, published>>
     \/ Ends(r, "invalid")
  /\ UNCHANGED reports

Edited(r) ==
  [req[r].seen EXCEPT !.cfg = req[r].cfg, !.gen = @ + 1]

\* An update that names no version, or that is checked by generation only.
CurrentUnchecked(r) == inst[req[r].name].live

CurrentGeneration(r) ==
  LET i == inst[req[r].name] IN i.live /\ i.gen = req[r].seen.gen

\* The API server takes an update only against the version it was read from.
Current(r) ==
  LET i == inst[req[r].name] IN i.live /\ i.rv = req[r].seen.rv

Update(r) ==
  /\ req[r].pc = "update"
  /\ \/ ~Current(r) /\ Ends(r, "failed")
     \/ Current(r) /\ Accepted(r, Stores(req[r].name, Edited(r)), "edited")
     \/ Unsent(r)
  /\ UNCHANGED reports

-----------------------------------------------------------------------------
(* Handlers *)

CreateInstance(r) ==
  /\ req[r].handler = "CreateInstance"
  /\ CheckFree(r) \/ LoadDefaults(r) \/ Create(r)

PageCreateInstance(r) ==
  /\ req[r].handler = "PageCreateInstance"
  /\ CheckFree(r) \/ LoadDefaults(r) \/ Create(r)

HandleCreate(r) ==
  /\ req[r].handler = "handleCreate"
  /\ CheckFree(r) \/ LoadDefaults(r) \/ Create(r)

DeleteInstance(r) ==
  /\ req[r].handler = "DeleteInstance"
  /\ Refused(r) \/ AuthoriseDelete(r) \/ Reread(r) \/ Delete(r)

PageDeleteInstance(r) ==
  /\ req[r].handler = "PageDeleteInstance"
  /\ Refused(r) \/ AuthoriseDelete(r) \/ Reread(r) \/ Delete(r)

HandleDelete(r) ==
  /\ req[r].handler = "handleDelete"
  /\ Find(r) \/ Delete(r)

PageUpdateInstanceConfig(r) ==
  /\ req[r].handler = "PageUpdateInstanceConfig"
  /\ Refused(r) \/ AuthoriseEdit(r) \/ Update(r)

-----------------------------------------------------------------------------
(* The operator, as the server sees it *)

\* The first thing the operator does to a resource.
AddFinalizer(n) ==
  /\ inst[n].live /\ ~inst[n].fin /\ ~inst[n].del
  /\ Stores(n, [inst[n] EXCEPT !.fin = TRUE])
  /\ UNCHANGED <<req, faults, reports>>

\* A status write: a new version with the same spec.
Report(n) ==
  /\ inst[n].live
  /\ reports > 0 /\ reports' = reports - 1
  /\ Stores(n, inst[n])
  /\ UNCHANGED <<req, faults>>

\* The last thing the operator does to a resource.
RemoveFinalizer(n) ==
  /\ inst[n].live /\ inst[n].fin /\ inst[n].del
  /\ Changes(n, Gone(n, inst[n].rv + 1, inst[n].uid))
  /\ UNCHANGED <<req, faults, reports, published>>

-----------------------------------------------------------------------------
Handle(r) ==
  \/ CreateInstance(r) \/ PageCreateInstance(r) \/ HandleCreate(r)
  \/ DeleteInstance(r) \/ PageDeleteInstance(r) \/ HandleDelete(r)
  \/ PageUpdateInstanceConfig(r)

Operate(n) == AddFinalizer(n) \/ Report(n) \/ RemoveFinalizer(n)

Next ==
  \/ \E r \in Requests : Handle(r)
  \/ \E n \in Users : Operate(n)

Spec == Init /\ [][Next]_vars

-----------------------------------------------------------------------------
(* Properties *)

\* A generation stands for one configuration: whatever requests run at once,
\* the operator never sees two configs of one incarnation under the same
\* ConfigGeneration.  The pod template and the script of the init container
\* (controller.go, reconcileDeployment) rely on it: they compare generations
\* and never configs, so an edit under a used number would not be rolled out.
GenerationIdentifiesConfig ==
  \A p, q \in published :
    p.name = q.name /\ p.uid = q.uid /\ p.gen = q.gen => p.cfg = q.cfg

\* What a handler stands for in the registry.
Operation(h) ==
  CASE h \in Creators -> "create" [] h \in Deleters -> "delete"
    [] OTHER -> "edit"

registryNow ==
  [n \in Users |->
     IF inst[n].live
       THEN [owner |-> inst[n].owner, gen |-> inst[n].gen,
             cfg |-> inst[n].cfg, closing |-> inst[n].del]
       ELSE [owner |-> "nobody"]]

callNow ==
  [r \in Requests |->
     [op |-> Operation(req[r].handler), user |-> req[r].user,
      name |-> req[r].name, answer |-> req[r].answer]]

Abstract == INSTANCE Registry WITH registry <- registryNow, call <- callNow

\* The handlers of instance.go, pages.go and commands.go implement Registry:
\* although existence and ownership are checked some calls before the effect,
\* and deletion goes by name, each request has its effect at once and at most
\* once, no edit is lost or built on a config that was already replaced,
\* nobody changes an instance that is not theirs unless an admin, and answers
\* are true.
ImplementsRegistry == Abstract!RegistrySpec

-----------------------------------------------------------------------------
(* The inductive invariant *)

\* How far each kind of handler can be.
Calls(h) ==
  CASE h \in Creators -> {"check", "defaults", "create", "done"}
    [] h = "handleDelete" -> {"find", "delete", "done"}
    [] h \in {"DeleteInstance", "PageDeleteInstance"} ->
         {"authorise", "reread", "delete", "done"}
    [] OTHER -> {"authorise", "update", "done"}

\* Names are user ids: whoever was found to own an instance owns whatever
\* instance has its name later on.
RequestInv(r) ==
  LET q == req[r] IN
  /\ q.pc \in Calls(q.handler)
  /\ q.handler \in Creators \cup {"handleDelete"} => q.name = q.user
  /\ q.pc # "done" => q.answer = "none"
  /\ q.pc \in {"reread", "delete", "update"} =>
       q.user \in Admins \/ q.user = q.name
  /\ q.pc \in {"create", "update"} => q.cfg \in Configs

\* A version is what it was when it was read.
SeenInv(r) ==
  LET q == req[r] IN
  q.pc = "update" =>
    /\ q.seen.live
    /\ q.seen.rv <= inst[q.name].rv
    /\ q.seen.rv = inst[q.name].rv => q.seen = inst[q.name]

InstanceInv(n) ==
  /\ inst[n].live => inst[n].owner = n
  /\ ~inst[n].live => inst[n] = Gone(n, inst[n].rv, inst[n].uid)

\* The current version has the newest generation, and what was published under
\* it is its config.
PublishedInv ==
  \A p \in published :
    /\ p.uid <= inst[p.name].uid
    /\ inst[p.name].live /\ p.uid = inst[p.name].uid =>
         /\ p.gen <= inst[p.name].gen
         /\ p.gen = inst[p.name].gen => p.cfg = inst[p.name].cfg

ServerInv ==
  /\ TypeOK
  /\ \A r \in Requests : RequestInv(r) /\ SeenInv(r)
  /\ \A n \in Users : InstanceInv(n)
  /\ PublishedInv
  /\ GenerationIdentifiesConfig

=============================================================================
