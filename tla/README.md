# Clawbake in TLA+

Clawbake gives every user of an organisation a personal AI gateway ("claw") in
Kubernetes. A Go web server and a Slack bot let users create, edit and delete
*ClawInstance* custom resources; a Kubernetes operator turns each of them into a
namespace with a volume, a deployment, a service and a network policy, and
reports its progress in the resource's status.

This directory holds the verification project of that code: TLA+ modules
translated from the sources, TLC configurations that check them on small
instances, and proofs, checked by TLAPS, that hold for every value of the
constants. `PROJECT.json` maps every definition to the lines it stands for and
lists the runs, the theorems, the hazards and the known disagreements between
code and documentation.

## 1. The system

| Component | Code | State it keeps | Operations |
|---|---|---|---|
| Operator | `internal/operator/controller.go`, `notifier.go` | none of its own: informer caches, the workqueue, the local copy of the resource | `Reconcile`, `setFailed`, one function per child, `deleteUserNamespace`, `NotifyInstanceReady` |
| Server process | `cmd/server/main.go` | none | start, serve, stop within 10 s of a signal |
| Operator process | `cmd/operator/main.go` | leader lease | start, take the lease, stop |
| Kubernetes client of the server | `internal/k8s/client.go` | none | create, get, list, update, delete a ClawInstance |
| Instance handlers | `internal/handler/instance.go`, `pages.go` | none | create, read, edit config, delete, from the API and from pages |
| Slash commands | `internal/bot/commands.go` | none | create, status, open, delete, help |
| Forwarded messages | `internal/bot/events.go` | none | answer Slack within 3 s, forward in a goroutine, reply |
| Request signatures | `internal/bot/verify.go` | none | check age and HMAC |
| Ready notification | `internal/handler/notification.go` | none | answer 200, message the user in a goroutine |
| Accounts | `internal/auth/oidc.go`, `dev.go`, `internal/bot/bot.go` (`resolveUser`) | table `users`, session cookie | log in, link by subject, by email, by Slack id, create |
| Defaults | `internal/handler/admin.go`, `cmd/server/main.go` (`syncInstanceDefaults`) | the one row of `instance_defaults` | read, admin update, synchronise at start |
| Reverse proxy | `internal/handler/proxy.go` | open connections | route by phase and path, copy WebSocket data both ways |
| JSON templates | `internal/jsonutil/` | none | merge an override, fill placeholders |
| Pod start | script in `controller.go` (`reconcileDeployment`) | `openclaw.json` and `.config-gen` on the volume | write the config when the generation differs |
| Database access | `internal/database/`, `db/migrations/` | tables | generated queries, uniqueness of email and subject |
| Web UI | `web/templates/` | none | render, poll while the phase is not final |
| Deployment | `charts/`, `config/` | none | manifests |

How they interact:

- The server and the bot write the *spec* of a ClawInstance, directly in the API
  server; the operator writes its *status* and finalizer. Neither calls the
  other except for the operator's ready notification, a best-effort POST.
- The operator reads through informer caches (`mgr.GetClient()`), which lag, and
  writes to the API server, which refuses a write that carries an old
  `resourceVersion`. Only events of the ClawInstance itself enqueue work: the
  controller has no `Owns`.
- A deletion is a request as long as the operator's finalizer is on the
  resource. The operator asks for the deletion of the namespace, and lets the
  resource go without waiting for it; Kubernetes then empties the namespace.
- Pods, the namespace controller and users act at any time, also between two
  calls of one reconcile.
- Gateway configurations travel from the defaults row, through placeholders and an
  override, into the ClawInstance, from there into the deployment's pod template,
  and by an init container of each pod onto the volume, where openclaw reads and
  users change it; the edit page shows the file, not the ClawInstance.
- A user's browser reaches openclaw through the server's reverse proxy; a message
  from Slack reaches it through a goroutine of the server. Both depend on the
  phase and namespace in the ClawInstance's status.

What is hard, and where the properties look:

- **Staleness.** Every decision of a reconcile is taken on a copy that may be
  versions, or an incarnation of the name, behind.
- **Interleaving.** A reconcile is some ten API calls; edits, deletions and
  re-creations land between any two of them.
- **Failure.** Calls fail before or after they took effect; the process dies
  between two calls; status writes are the only memory.
- **Being forgotten.** With no events from children, whether an instance makes
  progress depends on every exit of `Reconcile` asking for another one.
- **Names.** Instances are named after users, so a name is used again and again
  with the leftovers of its predecessor around.
- **Work after the answer.** Slack and the operator are answered before the work
  is done, and nothing but the process remembers that it was begun.
- **Two directions, one channel.** Either end of a WebSocket may leave at any
  time, with data of both in the proxy's hands.
- **Shared leftovers.** Pods of two generations have one volume, servers of two
  revisions one defaults row, and neither is locked.

What makes each component correct:

- Operator: nothing is created for a resource that could vanish without the
  operator (`FinalizerHeld`); a namespace is taken down only for the incarnation
  that is being deleted (`NamespaceDeletedOnRequest`); notifications match
  entries into Running (`NoticesExact`); edits reach the pod template
  (`EditsReachTemplate`); nobody is forgotten (`LeftAloneOnlyRunning`);
  deletions complete and instances come up (`DeletionCompletes`,
  `BecomesRunning`); together, the contract of `InstanceLifecycle`.
- Handlers and slash commands: at most one instance per user, none deleted or
  edited by another user unless an admin, no edit lost or built on a config that
  was already replaced, no answer that claims what did not happen
  (`ImplementsRegistry`); a generation stands for one config
  (`GenerationIdentifiesConfig`).
- Accounts: all web logins of a person end in one account, whatever fails and
  whichever addresses they use (`WebAccountStable`); the bot finds the same one
  as long as addresses stay (`OneAccount`); who loses a race of first logins has
  an account (`TurnedAwayHasAccount`); a failed link is never taken for a user
  (`BotMapsToAccount`, which the code violates).
- Defaults: however servers and pages overwrite one another, a column has what some
  server's environment or some admin has asked for (`EnvironmentsHold`).
- Templates and merging: a created instance has what override, template and
  values say (`CreatedAsPromised`), in JSON (`CreatedIsJson`), and a template that
  was accepted works with all values (`SavedTemplatesWork`).
- Pod start: a pod of the newest generation runs on its own configuration, also
  after a pod was killed anywhere in its script (`StartsWithItsConfig`); restarts
  do not undo what was changed in place (`LiveEditsKept`); edits build on each
  other (`EditsAccumulate`) and take effect (`EditsTakeEffect`).
- Forwarded messages and notices: the goroutine ends (`JobsEnd`), and without a message
  only for one of the named reasons (`SilenceHasCause`); the user hears of
  each message (`Answered`, which the code violates).
- Proxy: redirects end (`RedirectsEnd`), data arrives in order and without a gap
  (`InOrder`), nobody hangs up in the middle (`HungUpAfterLastWord`), and nothing
  of a WebSocket outlives its first end (`EndsTogether`).
- Server process: it stops when told to (`Stops`), though what it waits for last has no
  time limit.

## 2. The modules

| Module | What it is |
|---|---|
| `Cluster` | the API server with one ClawInstance name and its five children, informers, workqueue, namespace controller, kubelet, and users |
| `Reconciler` | EXTENDS `Cluster`: the operator's worker, one action per API call; properties, refinement mapping, fairness |
| `InstanceLifecycle` | the abstract contract: what users, server and bot may rely on |
| `ReconcilerInv` | the inductive invariant, in named parts; the invariants of those cases in which the documentation is right |
| `ReconcilerProofs` | type correctness, safety properties and the inductive invariant, proved |
| `LifecycleProofs` | the refinement, proved |
| `MCReconciler` | instances for TLC: budgets and lagging kinds |
| `Server` | handlers and slash commands that change instances, one action per call; properties, refinement mapping, inductive invariant |
| `Registry` | the abstract contract: every request takes effect at once, at most once |
| `ServerProofs` | the inductive invariant of `Server`, type correctness, generations, the refinement of `Registry`, proved |
| `MCServer` | `Server` for TLC: symmetry |
| `Accounts` | the users table, the OIDC callback and the bot's `resolveUser`, one action per statement; properties, inductive invariant |
| `AccountsProofs` | the inductive invariant of `Accounts` and the properties that follow, proved |
| `MCAccounts` | `Accounts` for TLC: two people, three addresses |
| `ServerProcess` | `main` of the server: start, signal, `Shutdown`, its time limit, and the closing of the connection pool, which has none |
| `Messages` | EXTENDS `ServerProcess`: requests from Slack and the operator, and the goroutines they start |
| `Proxy` | EXTENDS `ServerProcess`: visits through the reverse proxy, and the two copiers of a WebSocket |
| `Traffic` | EXTENDS `Messages`, `Proxy`: one server process with all of it; properties, fairness |
| `TrafficProofs` | the invariants of `Traffic` and five properties, proved |
| `MCTraffic` | `Traffic` for TLC: how much data there is |
| `JsonUtil` | documents, by their paths; templates and merging |
| `Defaults` | the defaults row, and all who write it |
| `DefaultsProofs` | the inductive invariant of `Defaults`, and `EnvironmentsHold`, proved |
| `Creation` | EXTENDS `Defaults`, `JsonUtil`: the configuration of a new instance, from the line typed in Slack or the form to the merge, against a definition path by path |
| `CreationProofs` | texts, documents, and the properties of `Creation`, proved |
| `MCCreation` | `Creation` for TLC: templates, values, overrides, an old and a new server |
| `ConfigRollout` | edits, pod templates, pods and the volume; the init container's script command by command; inductive invariant |
| `RolloutProofs` | that invariant and the three safety properties, proved |
| `MCRollout` | `ConfigRollout` for TLC |

### Cluster

`cr` is the resource in the API server: resourceVersion, incarnation (`uid`),
existence, finalizer, deletionTimestamp, ConfigGeneration (`gen`), phase, and
the generation observed by the Ready condition (`obs`). `cache` is the
operator's copy and `watch` the versions in between, delivered one at a time by
`Deliver`, which also enqueues the key (`queued`). `obj` and `objCache` are the
children and their cached copies; a kind in the constant `Lagging` is copied by
a step of its own (`SyncChild`), the others at once.

`Commit` is a write: nothing is stored, and nobody hears of it, if nothing
changes; the version goes up otherwise; an object being deleted goes away with
its last finalizer. `UpToDate` is the optimistic-concurrency check.
`CreateInstance`, `EditConfig` and `DeleteInstance` are what the server's
handlers do to the resource; a handler's read and write are one step here
(the version check makes them so, as `Server`, below, shows).
`Purge`, `NamespaceGone`, `PodReady` and `PodUnready` are Kubernetes, external
to the code. One name is enough: the workqueue serialises a key, and no state is
shared between keys.

### Reconciler

`pc` is the API call `Reconcile` makes next, `inst` its local variable
`instance`, `timer` a delayed add of the key (backoff after an error return, or
`RequeueAfter`), `owed` a history variable. The actions follow the function
from top to bottom:

| Action | Code |
|---|---|
| `Begin`, `Entry` | the cached `Get`, the tests on NotFound, deletionTimestamp, finalizer, phase |
| `AddFinalizer`, `SetPending`, `SetCreating` | the three writes before the children |
| `ReconcileChild(k)` | `CreateOrUpdate` of child `k`: cached read, then create, update, or nothing |
| `SetFailed`, `Reworded` | `setFailed` |
| `CheckReady`, `SetStarting`, `SetRunning`, `Notify` | the readiness check and the three ends |
| `SetTerminating`, `DeleteNamespace`, `RemoveFinalizer` | deletion |
| `TimerFires`, `CrashRestart` | workqueue, process |

Every write (`Write`) succeeds and overwrites the copy with the reply, or is
refused, or fails in transit before or after it was stored. What
`CreateOrUpdate` sends depends on the kind: the mutate functions of namespace,
volume claim and network policy leave an existing object as it is, those of
deployment and service overwrite defaulted fields, so these two are sent every
time (`Overwritten`), with the resourceVersion of the cached copy, and fail when
the cache is behind. In a terminating namespace nothing can be created.

### InstanceLifecycle

Four variables: `life` (absent, requested, held, deleting), `phase`, `built`
(the namespace is there and not terminating), `due` (announcements). Phases move
along a fixed diagram and never start over; once a deletion is asked for the
phase can only become Terminating, and only as Terminating does the resource go;
a namespace appears only for a resource that is held, and is razed only for one
that is Terminating. `Reconciler!ImplementsLifecycle` is the refinement:
`life` from existence, finalizer and deletionTimestamp, `due` from `owed`.

### Server

`inst[n]` is the resource of user `n` in the API server (an instance is named
after its user), `req[r]` a request at work: its handler, its user, the name it
is about, the call it makes next (`pc`), its locals (`cfg`, `seen`) and its
answer. `published` is a history variable: every config the API server ever
showed to a watcher, with its incarnation and generation.

| Action | Code |
|---|---|
| `CheckFree`, `LoadDefaults`, `Create` | the three calls of `CreateInstance`, `PageCreateInstance`, `handleCreate` |
| `Refused`, `AuthoriseDelete`, `AuthoriseEdit` | the first `Get` of a handler with an `:id`, and whose instance it is |
| `Reread`, `Delete` | `k8s.DeleteInstance`: a second `Get`, a deletion by name |
| `Find` | `getUserInstance` of `handleDelete` |
| `Update` | `Update` with the resource as it was read |
| `AddFinalizer`, `Report`, `RemoveFinalizer` | what the operator does to the versions meanwhile |

Seven handlers are actions of their own, made of these calls. They differ where
the code differs: the bot lists all instances where the web server asks for one
name, and says "failed" where the web server says "exists"; the bot deletes what
it has found without the second `Get`. Every look-up and every write may fail
(`Faults`), a write also after it was stored; an error of the existence check
counts as absence and one of the authorisation as "not found", as in the code. A
server that dies, or a caller that goes away, is a request that takes no further
step.

### Registry

A registry with one entry per user. A call that has not been answered is
performed, and its caller told so or that something failed; or it is refused and
nothing changes. Only the owner or an admin changes an entry, "exists" is only
said when it is so, and what only somebody who may touch the instance can hear
("invalid", "failed") is said to nobody else. `Server!ImplementsRegistry` is the
refinement; the step that performs a request is its accepted write.

### Accounts

`user` is the table `users`, a row per id, with the two unique columns (`mail`,
`sub`) and the Slack id. A subject is that of an OIDC token or "slack:" and a
Slack id, a pair of front end and person here. `mail` is what the OIDC provider
and Slack have as a person's address; `Move` changes it in one of the two.
`req[r]` is a login or a Slack request: `pc` its next statement, `mail` and `id`
what `claims.Email` and `user.ID` are.

| Action | Code |
|---|---|
| `GetClaims` | token exchange and verification; the user's profile in Slack |
| `FindBySubject`, `FindByEmail` | the look-ups; one that fails counts as "not found", as in the code |
| `LinkSubject` | `UpdateUser` of `CallbackHandler` |
| `LinkSlackId`, `LinkFails` | `UpdateUser` of `resolveUser`, its error dropped |
| `CreateUser` | `CreateUser` of either, rejected where a unique column is taken |

A statement that writes takes effect and is replied to, takes effect and its
reply is lost, or does not run (`Executes`). An address belongs to one person for
good (`Holder`): an organisation that hands addresses on to others is outside of
this model, as it is outside of what README.md of the repository assumes.

### ServerProcess, Messages, Proxy, Traffic

`proc` is where `main` is, `told` whether a signal has arrived. `Prepare` does one of the
four preparations or ends in `log.Fatalf`; the first two use the signal's context and
cannot succeed any more once it is cancelled. `Shutdown` closes the listener; `Drained` is
its return once no request is in use (`Busy`, which knows nothing of goroutines and of
connections that were taken over), `Overdue` the time limit. Then `main` returns, and what
it has deferred runs: `pool.Close`, which gives no connection out any more (`PoolOpen`)
and waits, without a limit, until those that goroutines hold are back (`Closed(Held)`).
Goroutines run on meanwhile. Only then does the process end, and they with it. A process
that ends is not started again: nothing of what it did for its callers outlives it.

`job[j]` is a delivery from Slack or a notice from the operator, and then its goroutine:
the call it makes next, what it wants to post, what was posted, whether its deadline has
passed (`late`), and whether its statement has a connection of the pool (`conn`). `Expire`
may come at any point; from then on each call fails at once, the last one, the message to
the user, too. `cause` tells why a goroutine gave up without a message: Slack refused it,
there was nobody to write to, or, which the code does not tell apart from that, the
statement failed.

| Action | Code |
|---|---|
| `HandleEvents`, `Verified`, `Wanted` | `verifySignature`, `HandleEvents` |
| `Resolve`, `FindByEmail`, `Link`, `CreateUser` | `resolveUser`, call by call (what it writes: `Accounts`) |
| `Acquire`, `Held` | external: a statement gets a connection of the pool, and holds it until it has an answer or has failed |
| `Find` | `getUserInstance` and the phase |
| `Forward`, `Hear` | `forwardToInstance`: the request, and waiting for the answer |
| `NotifyInstanceReady`, `LookUp` | the endpoint and `Bot.NotifyInstanceReady` |
| `Post` | each `PostMessageContext`, its error ignored |

`visit[v]` is a browser's request with the redirects it follows: path, token, the
handler's next step, the answer. A request with `Upgrade: websocket` comes to
`WebSocketMiddleware`, others under `/proxy` to `ProxyToInstance`; whether there is
an instance and whether it is Running is free in each visit. `dir[d]` is one
direction of a WebSocket, cut where the data can be: not read yet, read ahead by
the HTTP server, in the copier's hand, written, received. The data are the
numbers 1, 2, 3; so order and gaps show.

| Action | Code |
|---|---|
| `Admit` | the look-up, the phase, both redirects |
| `Fetch` | `httputil.ReverseProxy` |
| `Dial`, `Upgrade` | `net.Dial`, passing on the request, `Hijack` |
| `Flush`, `Read`, `Write`, `Report` | the two goroutines: what was read ahead, `io.Copy`, `errc` |
| `Return` | `<-errc`, and the deferred closes |
| `Send`, `Receive`, `Leave` | external: the ends. TCP takes `Window` units that nobody has read |

`HungUpAfterLastWord` is as strong as the code allows: the first copier to end
closes both connections. If it ends because its source left, it has passed on all
that the source had said. What the *other* end had said to the one that left may
be lost, for there is nobody to hear it. A copier that ends because it cannot
write to an end that left drops what it has in hand, and with it, when the handler
returns, what that end said last: this is the last disjunct.

### JsonUtil, Defaults, Creation, MCCreation

A document is a function: at each path of keys from its root it has null, a map or a
leaf, with maps above whatever it has. A text is a sequence of tokens, of which a
letter, a digit, the quote, the backslash and a placeholder `{{NAME}}` tell apart all
cases of JSON's strings and numbers that substitution can meet, and the equals sign, a
blank and a run of blanks those that the bot's line can meet. Blanks around a number are
layout (`Numeral`), blanks in a string are part of it. `Scan` reads the
inside of a JSON string, so `Valid`, and what a reader is told, are computed and not
assumed. `SubstitutePlaceholders` fills every text of a document, `ValidateTemplate`
does so with a word.

deepMerge is recursive in Go, and not here. `Taken` says of a path which of the two
documents it comes from: deepMerge descends along the path while both have maps, and
the first key at which one has none decides, for the override if it has that key and
for the base if not. `DeepMerge` puts the paths together. So nothing in these modules
is recursive but reading a text from left to right, which is a function on numbers,
and all of it can be proved about.

`Defaults` has the row, the servers that start (`Migrate`, `SyncRead`, `SyncWrite`,
with `Fail` for `log.Fatalf` or a crash anywhere), and admins (`UpdateDefaults`,
`PageAdminDefaults`, `PageUpdateDefaults`). 
`asked` is history: what admins have asked for in each column, of the page only in the
one they changed. A lost update is no special case here: two admins with the page open, or an
admin who saves while a server starts, cause one, and the run
has the second kind, the proof any number of both. `EnvironmentsHold` is what is left in every
interleaving: nobody is served a value that neither an environment nor an admin
has asked for, and the seed of the migrations not where every environment says
something. That the latest writer's word stands is more than the code guarantees (see
below, where documentation and code disagree).

`Creation` composes the two. A creation takes its copy of the row in one statement,
so it is one step; `Composed` is the common part of `CreateInstance`,
`PageCreateInstance` and `handleCreate`, with one difference: the page takes an empty
value for a missing one.

What the bot gets is not values and an override but one line, and `ValuesRead` and
`OverridesRead` say what `parseCreateArgs` makes of it. The line is split into words, so
a value ends at its first blank (`Cut`), and the words of an override are joined by one
blank, within its strings too (`Squeezed`). An override is marked with `json=`, or is
bare and begins with a brace. But a word with an equals sign in it is a pair before it is
anything else, so if the author has put no blank before the first equals sign of a bare
override, its beginning is a pair (way `early`), and it is dropped, or, if a later word
begins with a brace, read from there, which is no JSON (`Garbage`). `CreatedAsPromised`
asks nothing of a line that does not say what its user means (`Understood`): a blank in a
value, blanks in an override that joining changes, a bare override taken for a pair or
not beginning with a brace. The last but one contradicts the comment on the function
(see below, where documentation and code disagree).

The properties use neither `Taken` nor `Filled`:
`Promised` says what the new configuration must have at each path, and `Meant`
what a reader of the JSON must be told. `Means` excepts a template's string that
is none by itself, such as a backslash before a placeholder and a quote: a value of
nothing then makes it one. An admin cannot save it (`TemplateWorks` below shows why),
but a server's environment may have it.

### ConfigRollout

`spec` and `template` are the configuration in the ClawInstance and in the deployment,
told by its generation and by the saved edits that are in it (`has`). A page shows the
file of a running pod, or the spec, and saving it writes what was shown plus one edit.
`volume` has the two files: `openclaw.json` (missing, torn or whole, from which
generation, and in the pod of which generation it was changed since) and
`.config-gen`.

| Action | Code |
|---|---|
| `PageEditInstanceConfig`, `ReadInstanceConfig` | the page; `cat` in the first pod listed |
| `PageUpdateInstanceConfig` | `ConfigGeneration++` and the new configuration |
| `ReconcileDeployment` | the pod template follows (its other half is in `Reconciler`) |
| `Look`, `Truncate`, `Write`, `WriteMark` | the script: the two tests, opening the file, writing it, writing the mark |
| `EditLive` | openclaw, or a user in its shell, changes the file |
| `Schedule`, `Retire`, `Stop`, `Kill`, `Ended` | external: rolling update, evictions, failures at any command |

Two history variables name what the code does not protect against. `disturbed`: a
script began after that of a newer generation, or while another was running. Then the
older configuration can be written over the newer one, or the mark of one generation be
left beside the file of another, where it stays until the next edit; a rolling update
whose old pod is restarted by an eviction can do that. `hasty`: a page was saved that
was opened before the latest edit, or showed the file of a pod of an older generation.
Then the edit that had not rolled out is taken back. Everything else is promised, a
kill between any two commands included: the mark is written last, so a file that was
torn, or never marked, is written again.

## 3. The runs

The bounds of the operator's runs are in `MCReconciler`: a *budget* says how often each
disturbance may happen in one behaviour (`create`, `edit`, `fault` for a call that fails,
`crash`, `unready`, `resync`, `reword` for a failure that follows another with a different
message). Reconciles, deletions, cache lags and namespace termination are not bounded:
they happen wherever they can.

| Run | Bounds | States | Shows |
|---|---|---|---|
| `recreate` | 2 creations, 1 resync, 1 reword, namespace cache lags | 1.8 M | `TypeOK`, `FinalizerHeld`, `LeftAloneOnlyRunning`, `NamespaceDeletedOnRequest`, `ImplementsLifecycle` |
| `disturbed` | 1 creation, 1 edit, 1 fault, 1 crash, 1 readiness loss, deployment cache lags | 5.0 M | `NoticesExact`, `LeftAloneOnlyRunning`, `EditsReachTemplate`, `DeletionRemovesNamespace` |
| `live` | 1 creation, 1 edit, 1 fault, namespace cache lags | 0.3 M | `IInv`, the invariant of the proofs, `DeletionCompletes`, `BecomesRunning` |
| `orphan` | as `recreate` | | violates `DeletionRemovesNamespace` |
| `backed` | as `recreate`, no cache lags | | violates `RunningIsBacked` |
| `requests` | 1 user with an instance, 1 admin without, 2 configs, 3 requests, 1 failing call, 1 status write | 1.8 M | `TypeOK`, `GenerationIdentifiesConfig`, `ImplementsRegistry` |
| `logins` | 2 people, 3 addresses, 4 requests, 1 failing call, 2 changes of address | 0.5 M | `TypeOK`, `WebAccountStable`, `OneAccount`, `TurnedAwayHasAccount` |
| `unlinked` | 3 requests, 1 failing call, no change of address | | violates `BotMapsToAccount` |
| `traffic` | any 2 of a visit, a message, a notice; 2 units of data up, 1 down, window 1 | 0.7 M | `TypeOK`, `SilenceHasCause`, `RedirectsEnd`, `InOrder`, `HungUpAfterLastWord`, `JobsEnd`, `EndsTogether`, `Stops` |
| `silent` | 1 message | | violates `Answered` |
| `defaults` | 2 servers, 1 failure, 1 update, 1 page, 13 templates, 10 sets of values, 10 overrides, 1 creation | 0.9 M | `TypeOK`, `EnvironmentsHold`, `CreatedAsPromised`, `SavedTemplatesWork`, `CreatedIsJson` |
| `rollout` | 2 pods, 2 pages, 2 edits, 1 kill | 2.1 M | `IInv`, `StartsWithItsConfig`, `LiveEditsKept`, `EditsAccumulate`, `EditsTakeEffect` |

Why these bounds: two incarnations are what it takes for a stale read to hit the
wrong one (a third is to the second as the second to the first; the proofs cover
any number). One edit in any position is an edit in the middle of a reconcile.
One fault and one crash reach every "stored but not replied" and "stored but
not notified"; the second reconcile after it is undisturbed. Only one kind lags
at a time because reconciles read the children independently: the namespace
matters to deletion, the deployment to conflicts and readiness. CHECK_DEADLOCK
is off because users may stop and then the operator rightly has nothing to do;
that it is not stuck earlier is what `LeftAloneOnlyRunning` says.

`TypeOK` is more than typing in one place each: `obs` and `gen` are naturals, so
a write that counts generations wrongly shows; and in `Server` an instance that
exists has a config, so a handler that goes on after a failed look-up shows.

For `Server`, one user starts with an instance that the operator has taken charge
of (`Founded`), the other without. So three requests reach both kinds of race: two
that create at once, with one that deletes or edits what came of it; and an edit or
a deletion begun on one incarnation of a name while a deletion and a creation
replace it by the next. The failing call and the status write (which makes a
version newer without changing the spec) may come anywhere; a create or delete
may be stored and its reply lost, so that the next request is a retry.
Requests, and configs, are interchangeable (symmetry): the properties name none
and nothing is ordered by them; users are not, one is an admin. CHECK_DEADLOCK
is off because the requests of a behaviour come to an end.

**Fairness** (`FairSpec`, only for `live`): the worker, the watch, child
informers, the queue's timer, the namespace controller and a pod that can start
all take their steps eventually. client-go runs each in a goroutine of its own
and the queue re-adds after bounded delays; no strong fairness is needed, since
each stays enabled until taken. Users and disturbances are under no obligation.
`BecomesRunning` ends at a deletion: an instance being deleted owes nobody a
start.

For `Accounts`, two of the people's requests race while a third fails or
follows, and the fourth comes later and compares; the person with two addresses
can be ahead of Slack, or behind, and back again. Three ids are enough: there is
at most one row per address.

For `Traffic`, visits, messages and notices share nothing but the process and its
connection pool, so two at once show what one may do to the other by way of them. Two
units of data are one that was read ahead and one that was not; with a window of one, an
end that does not read stops the copier. Nothing is left to do in a state where the
process has ended, so CHECK_DEADLOCK is off. **Fairness**: `main` and goroutines of the
server go on, timers fire, and an end of a WebSocket that stays reads what it is sent. No
call owes an answer; `pool.Close` returns once nobody holds a connection (weak fairness of
`Closed(Held)`), and that they do give it back is not assumed but shown: each statement
has a context with a deadline. So `JobsEnd` and `Stops` hold though the database,
Kubernetes, Slack and the instance may be silent for ever, which is what the deadlines are
for. Without the assumption on the ends `EndsTogether` is false, since the code sets no
deadline for writing to a WebSocket: a peer that neither reads nor leaves holds both
goroutines.

For `Creation`, one of two servers belongs to an older revision and has other Helm
values. The templates have a placeholder inside and outside of quotes, next to
another, and after a backslash; the environment's has one outside of quotes and one in
an escape; the values are empty, a letter, a digit, a quote, a backslash, another
placeholder, and ones with a blank inside and at the end; the overrides meet the
templates as null, scalar, map, map in map, text that is not JSON, and strings with
equals signs and runs of blanks. One creation is enough, for creations do
not change the row. CHECK_DEADLOCK is off because updates and failures run out.

For `ConfigRollout`, a third pod would start after one of the two that overlap has gone,
which the two names, used again, show. The first edit makes a roll-out, the second lands
in the middle of it, or builds on it. **Fairness**: the operator reconciles what has
changed (`EditsReachTemplate`), the cluster schedules, retires and stops pods, scripts
go on. Users and kills are under no obligation. CHECK_DEADLOCK is off because a cluster
that has rolled out rests.

### Where documentation and code disagree

- `orphan`: docs/usage.md:94 says that deletion removes the namespace and all
  that is in it. `deleteUserNamespace` looks the namespace up in the cache and
  takes NotFound for done. A user who deletes while the first reconcile has just
  created the namespace, and before the namespace informer has seen it, is left
  with a namespace nobody will delete. `DeletionRemoves` proves that this lag is the
  only cause: without it, whatever else lags, fails or crashes, no namespace stays
  (the run `disturbed` is of this kind).
- `backed`: docs/usage.md:70 says that a Running instance is available. The resource goes
  away while its namespace is still terminating. If it is created again in that time, the
  children still exist, the old pod is ready, the phase becomes Running, and nothing
  enqueues the key when the namespace is gone. The instance is repaired only by the
  resync, some ten hours later. `FirstUseIsBacked` proves that it takes a re-creation: as
  long as a name is in use for the first time, a Running instance has its deployment, in a
  namespace that is not going away, whatever lags. (Of the pod it says nothing: an
  instance stays Running when its pod becomes unready.)
- `unlinked`: docs/usage.md:118 says that the bot maps Slack users to accounts.
  If the statement that links the Slack id fails, `resolveUser` returns the zero
  user without an error. A `create` then makes an instance named after the zero
  id, which only an admin can open or delete from the web, and any other person whose
  link fails later is told that it is theirs. `BotMapsWithoutFailures` proves that the
  sentence holds as long as no call fails, however addresses change.

- `silent`: internal/bot/commands.go:317 tells users that a response is posted back. All
  calls of a forward share a context of 30 s, while the HTTP client would wait 120 s for
  the instance. When a slow instance has used up the 30 s, the message about the failure
  is sent with the expired context and goes nowhere.

Five more have no run of their own; they can be followed in the modules:

- A notice is lost to a database failure (`LookUp` in `Messages`, cause `database`). The
  comment at internal/bot/bot.go:162 gives two reasons for which `NotifyInstanceReady`
  does nothing: a user who is not of Slack, or cannot be found. There is a third, any
  error of the statement that looks for the user, and nobody hears of it, nor is it logged.
- A stop cuts goroutines off (`Drained`, `Closed` in `ServerProcess`).
  docs/deployment.md:260 promises a graceful shutdown. `Shutdown` waits for handlers; a
  message or notice that has been answered 200 is a goroutine, which ends with the
  process. Closing the pool waits for statements only.
- An old server restores old values (`Fail`, `SyncRead`, `SyncWrite` in `Defaults`). The
  comment at cmd/server/main.go:131 says that the database is kept in sync with the Helm
  values on every deploy. Every start of a container writes, one of the old revision too:
  if it restarts when the new one is up, the old values are back until the next start.
- A page takes back what another saved (`PageUpdateDefaults` in `Defaults`).
  docs/usage.md:130 says that the page configures what is applied to every new instance.
  It sends all columns as they were when it was rendered, so one admin who changes one
  column takes back what another has saved in the others.
- A bare override is dropped (`EqualsEarly`, `OverridesRead` in `Creation`). The comment
  at internal/bot/commands.go:55 says that a bare override works when there are no pairs.
  `{"a":"b=c"}` is taken for a pair because of its equals sign, and the instance is
  created without the override and without a word about it.

More, seen while modelling but not worth a run. docs/usage.md:14 says that
the first user becomes an admin, while both front ends create every user with
role "user"; and a person whom the bot has created and whose address then changes
before they ever log in to the web server cannot use the bot again, because
`CreateUser` meets their own `slack:` subject (`CreateUser` in `Accounts`).
docs/usage.md:184 has POST where routes.go:41 has PUT for the defaults. docs/usage.md:43
says that all placeholders must be filled; API and bot take empty values. Slack repeats a
delivery that is not answered in time, and it is then forwarded twice. A value with a
blank typed in Slack loses what follows it (`Cut` in `Creation`). An override on top of
a default configuration of `null` makes the handler panic (`Panics` in `JsonUtil`);
`middleware.Recover` answers 500. Of a path under `/proxy` with none of the three
prefixes, `stripRoutePrefix` cuts off as many characters as `/proxy/web` has.

## 4. The proofs

`ReconcilerProofs` and `LifecycleProofs` prove, for every `Budget` and every set
`Lagging` (the only assumptions: `BudgetAssumption`, `LaggingAssumption`):

| Theorem | Statement |
|---|---|
| `TypeCorrect` | `Spec => []TypeOK` |
| `HistoryCorrect` | `Spec => []Base` |
| `FinalizerCorrect` | `Spec => []FinalizerHeld` |
| `NamespaceCorrect` | `Spec => NamespaceDeletedOnRequest` |
| `Invariance` | `Spec => []IInv` |
| `NoticesCorrect` | `Spec => []NoticesExact` |
| `NeverForgotten` | `Spec => []LeftAloneOnlyRunning` |
| `EditsCorrect` | `Spec => []EditsReachTemplate` |
| `DeletionRemoves` | `Spec => []DeletionRemovesNamespace`, if `"ns" \notin Lagging` |
| `FirstUseIsBacked` | `Spec => [](cr.uid <= 1 => RunningIsBacked /\ RunningHasDeployment)` |
| `LifecycleCorrect` | `Spec => ImplementsLifecycle` |

The argument. `FinalizerHeld` speaks of the API server, while the reconcile only
knows its copy, taken from a cache some time ago. The link is the *history*: the
versions from the cached one, through those on the watch, to the current one
(`V(0) .. V(Last)` in `ReconcilerInv`). `HistoryInv` says that they age: versions
and incarnations grow, and within an incarnation a deletion asked for is never
taken back. `HeldInv` says that any version in the history a reconcile could
build from is of the current incarnation, which still has its finalizer. It is
inductive because the finalizer goes away only in `RemoveFinalizer`, whose
version check makes the copy the current version, and then (`DeletionInv`) no
version of that incarnation that does not show the deletion is left to be
delivered. So a reconcile that starts building from the cache, however old,
builds for a resource that cannot vanish.

`FenceInv` is the mirror image for deletion: what protects the namespace of a
re-created instance from a deletion read from a stale cache is the write of the
phase Terminating that comes first. It is refused unless the copy is current;
from then on the resource cannot go away without this very worker.
`TerminatingInv` adds that its phase stays Terminating whatever users do.

`NoticeInv` counts: a write that stores Running first makes a notification due,
and exactly then the copy was not Running, because copy and resource agree when
a write is accepted. `WakeInv` is `LeftAloneOnlyRunning` with the worker's own
steps included: as long as the resource is not settled, the key is queued, a
timer or an event is pending, or a reconcile is at work that is not in its last
step (`Awake`).

`EditInv` says the same of an edit that the pod template does not have. Its only
difficult step is the end of a reconcile, which works on a copy: `TemplateInv` says
that past the deployment the template is of the copy's generation, because the update
of the deployment was accepted and nobody else writes it; and a write of the phase is
refused unless the copy's version is the current one, in which case the generations
are those of the resource. An edit that comes later is on the watch. Neither part
mentions the cached deployment: a stale one makes the update fail, and a failure is
awake.

Two theorems say when the documentation is right where a run finds it wrong. With a
namespace informer that keeps up, `NamespaceInv`: the worker that takes the finalizer
off has seen every namespace there is to delete. For a name in its first use,
`FirstUseInv`: its namespace terminates only for a deletion of that very resource,
and until then the deployment stays. So a Running instance that nobody deletes has it, at
rest and in the middle of a reconcile (`RunningHasDeployment`), and the readiness that
made it Running was that of its own pod.

The refinement maps each action to one step of the contract or to none, with one
lemma per action (`CreateMaps`, `ProgressStep`, `NamespaceMaps`, ...); the hard
ones use `FinalizerHeld` (Build), `FenceInv` and `TerminatingInv` (Raze,
Release) and `NoticeInv` (Announce).

For the server, `ServerProofs` proves for every set of users, admins, configs and requests
and every number of failures and status writes and whoever has an instance at the start
(`AdminsAssumption`, `VeteransAssumption`, `ConfigsAssumption`, `BoundsAssumption`):

| Theorem | Statement |
|---|---|
| `ServerInvariance` | `Spec => []ServerInv` |
| `ServerTypeCorrect` | `Spec => []TypeOK` |
| `GenerationCorrect` | `Spec => []GenerationIdentifiesConfig` |
| `RegistryCorrect` | `Spec => ImplementsRegistry` |

The argument. What a handler checked, or read, may be history when it writes.
For deletion, `RequestInv` and `InstanceInv` say why the check still holds: names
are user ids, so whoever was found to own the instance of a name owns each later
one, and a deletion by name of an incarnation the handler never read is still
one its user may ask for. (This is as much as holds: the deletion may hit the
successor of the instance that was authorised.) For an edit, `SeenInv` says that
a version is what it was when it was read, so an update that the version check
accepts was computed from the current resource. `PublishedInv` says that the
current version has the newest generation of its incarnation; an accepted edit
publishes under a number above all used ones, every other write republishes
config and number unchanged, and so `GenerationIdentifiesConfig` is inductive with
it. Without the version check, two edits that read one generation publish two
configs under the next; with generations compared instead of versions, an edit
can reach the successor of the instance it read, whose numbers start again: these
are the mutants of the runs.

For accounts, `AccountsProofs` proves for every set of people, addresses and
requests, every `Holder`, and every number of failures and changes of address
(`HolderAssumption`, `ZeroAssumption`, `NoOneAssumption`, `BoundsAssumption`):

| Theorem | Statement |
|---|---|
| `AccountsInvariance` | `Spec => []AccountsInv` |
| `AccountsTypeCorrect` | `Spec => []TypeOK` |
| `WebAccountCorrect` | `Spec => []WebAccountStable` |
| `OneAccountCorrect` | `Spec => []OneAccount` |
| `TurnedAwayCorrect` | `Spec => []TurnedAwayHasAccount` |
| `BotMapsWithoutFailures` | `Spec => [](faults = Faults => BotMapsToAccount)` |

The argument. `RowInv` says that address, subject and Slack id of a row are of one
person, `UniqueInv` that no two rows share an address or a subject. Both are kept
because the table rejects what is taken and because a handler only touches a row
it found under its own person's address (`RequestInv`). Rows stay, with their
address (`Grows` in the proofs), and the only thing that ever replaces a subject
is the same person's web login: so a row with that login's subject keeps it, and
by uniqueness is the only one, which is `WebAccountStable`. `HomeInv` adds that
before the first change of address everything has its person's one address, and
`OneAccount` follows from the uniqueness of addresses. `LinkedInv`, in the proofs, says
that the zero user has cost a failure.

For the server process, `TrafficProofs` proves for every set of visits, events and
notices, every `Load`, `Volume` and `Window` (`KindsAssumption` is not needed):

| Theorem | Statement |
|---|---|
| `TrafficInvariant` | `Spec => []TrafficInv` |
| `TypesHold` | `Spec => []TypeOK` |
| `SilenceHasCauseHolds` | `Spec => []SilenceHasCause` |
| `RedirectsEndHolds` | `Spec => []RedirectsEnd` |
| `InOrderHolds` | `Spec => []InOrder` |
| `HangUpInvariant` | `Spec => []HangUpInv` |
| `HungUpAfterLastWordHolds` | `Spec => []HungUpAfterLastWord` |
| `ReportsFindRoom` | a copier that reports finds room in `errc` |

The argument. `Redirected` says what a visit that has been redirected asks for: after one
redirect the front page, after two the front page with a token, which is redirected no
further. `SilenceHasCause` follows from which steps end a goroutine without a message:
each records its cause or is late. For `InOrder`, `Line` says that the five parts of a
direction, put end to end, are the numbers from 1 to what was sent; every step of copiers
and ends moves numbers over a cut, provided that the copier has nothing in hand while it
flushes and nothing is read ahead any more when it copies (`Phased`). `Flowing` excepts
directions whose destination has left, where a failed write may drop data, and a `Flush`
that fails on a closed connection, after which nothing more is written. `HangUpInv` counts
reports: the connections are closed only after one, a copier reports once, and it ends
only at the end of what its source said or before a destination that is gone. With `Line`
this is `HungUpAfterLastWord`; that at most two reports are made is why the channel of two
always has room, and no goroutine stays behind when the handler has gone.

For the defaults, `DefaultsProofs` proves for every set of columns, values, servers,
pages, and every number of updates and failures
(`ValuesAssumption`, `EnvAssumption`, `RowsAssumption`,
`LimitsAssumption`):

| Theorem | Statement |
|---|---|
| `DefaultsInvariant` | `DefaultsSpec => []DefaultsInv` |
| `EnvironmentsHoldAlways` | `DefaultsSpec => []EnvironmentsHold` |

The argument. What makes it inductive is `CopyInv`: not only the row, but every copy that
a starting server or a page still holds has in each column a value that an environment or
an admin asked for (or the seed, where some environment is silent), so it does not matter
whose copy overtakes whose. A server's copy has that because the environment was put over
a row whose columns had it, or over the seed; and what admins have asked for only grows
(`SourcedStays`).

For what comes of the row, `CreationProofs` proves for all templates, values and
overrides, of any length, depth and width, and any number of creations, servers and
admins (the assumptions above, and `TemplatesAssumption` and `InputsAssumption`: that
these are documents and texts, and that what admins may save passes the check that
their handlers make):

| Theorem | Statement |
|---|---|
| `ScanEncoded` | an encoded value, put into any string, is read back as itself |
| `TemplateWorks` | a template that is valid with a word in every hole is valid with all values |
| `CreationInvariant` | `Spec => []CreationInv` |
| `CreationTypes` | `Spec => []TypeOK` |
| `CreatedAsPromisedAlways` | `Spec => []CreatedAsPromised` |
| `SavedTemplatesAlwaysWork` | `Spec => []SavedTemplatesWork` |
| `CreatedIsAlwaysJson` | `Spec => []CreatedIsJson` |

The argument. The library's induction theorems have an operator as a parameter and
are of no use here; induction over *sets* needs none. `SeqSetInduction`: a set that
has the empty sequence, and with each sequence all that are longer by one, has all of
them; it rests on the least element of a set of numbers (`Least`), and that on the
well-foundedness of `<`. `StepsExist` and `StepsAgree` say that a recursion along the
numbers up to a bound has one solution, so that `Scan` and `FlattenSeq` have the
equations for an appended token that one expects of them (`ScanAppend`,
`FlattenAppend`). From these, by induction: `ScanEncoded`; `ScanFilled`, by which a
filled string says what the template's says with the values in it; `ScanDummy`, by
which the dummy decides whether it is a string; and `DummyDigits`, by which nothing
that is accepted has a hole outside of quotes. Documents need no induction. `TakenCases`
splits a path where the descent ends, and three lemmas are the promise: the override
wins where it says something (`OverrideWins`), nothing stays below what it puts there
that is no map (`NothingBelow`), and everything else is the base's (`BaseStays`).
`GatewayInv` adds that every row that is read, held as a copy, or written has a
document in it. Of the line typed in Slack, `ValuesReadType` and `OverrideReadCases`
say that what is read of it are texts and documents again, and `UnderstoodAsTyped` that
for a line that is understood they are those that were typed. `CreatedIsJson` does not
need the row to be accepted: `CreatedValid` splits on what was looked at.

The proof found what the run had not: `CreatedAsPromised` was false of a string with a
placeholder in an escape, for the run had none that only an empty value completes.
`Means` is the exception, and the environment of the run has such a string now.

For roll-outs, `RolloutProofs` proves for every set of pods and pages and any number of
edits and kills (`EditsAssumption`, `KillsAssumption`):

| Theorem | Statement |
|---|---|
| `TypesHold` | `Spec => []TypeOK` |
| `RolloutInvariant` | `Spec => []IInv` |
| `StartsWithItsConfigHolds` | `Spec => []StartsWithItsConfig` |
| `LiveEditsKeptHolds` | `Spec => []LiveEditsKept` |
| `EditsAccumulateHolds` | `Spec => []EditsAccumulate` |

The argument. While scripts run one after the other, in the order of generations
(`ScriptsInOrder`), the mark of the newest generation is only ever beside the newest
file (`NewestMarked`): a script that writes the file begins with an older mark, or none,
and leaves it there until the file is whole. So a pod that finds its own mark finds its
own file, whoever was killed before. `AllComplete` says of every configuration that is
anywhere, on its way or on the volume, that it has all the edits up to its generation;
a page that is neither hasty nor behind shows such a one.

Only model-checked: the liveness properties (`DeletionCompletes`, `BecomesRunning`,
`JobsEnd`, `EndsTogether`, `Stops`, `EditsTakeEffect`), whose fairness is ENABLED of an
action, beyond TLAPS here. Every other property of a run that passes is proved.

## 5. What is abstracted

- Pod specs, resources, ports, labels: only ConfigGeneration is kept.
- Conditions: only the observed generation; that the message of a second failure
  differs from the first is `Reworded`.
- Quantities that do not parse: the mutate function panics, controller-runtime
  turns that into an error return.
- Two operators that both believe to lead: the lease is client-go's.
  `CrashRestart` is a stop, or a hand-over, at any point.
- Failing reads: caches do not fail once synchronised.

- Server: handlers that only read and render; contents of configs, resources and
  placeholders (any config, or "invalid", may come of them); how a request finds
  its user. An edit form that was opened before somebody else's edit and is
  submitted after it replaces that edit: the form carries no version, only the
  handler's own read and write are protected.

- Accounts: names, pictures, roles; the state parameter and the session cookie of
  a login; development logins, which have two fixed accounts and, if the
  database fails, one made-up id for both.

- Proxy: logins (every visit is by a logged-in user); headers, ports and the rewriting
  of `control-ui-config.json`; instances without a gateway token, which no handler
  creates; bodies that `httputil.ReverseProxy` streams.
- Creation: the keys of the values that a line in Slack has (a pair whose key no
  placeholder has is ignored, as in the code); words of a value that a blank has cut off
  and that are themselves pairs, markers or braces: the line is then that of other
  values, or of another override, which are also tried.
- Messages: what is said; the size of the pool, which hands out a connection sooner or
  later, or the statement fails; that the phase and namespace a handler found may be old
  when it uses them, which it does not notice, so what it then meets is free here.
- JsonUtil: a key that occurs twice in one object, of which encoding/json takes the last;
  blanks between the tokens of a document; numbers keep their digits, while encoding/json
  rounds those beyond 53 bits when it merges; arrays are leaves; keys are not templates.
- ConfigRollout: the configuration is put between apostrophes in a shell script and
  written by `echo`: one that contains an apostrophe, or a backslash sequence that the
  shell's `echo` interprets, does not arrive as it is. Here it arrives. The volume of an
  instance that is created again after `orphan` is not empty; here it starts empty.

Not modelled: the web UI, whose one behaviour, that a page stops polling at Failed
though the operator goes on, has no state to relate to; Helm charts and manifests, which
are declarative; handlers that only read.

## 6. Plan

All of it is done, in the order of what the system needs most:

1. `Cluster`, `Reconciler`: the operator, its hazards, its liveness.
2. `InstanceLifecycle` and the refinement.
3. `ReconcilerInv`, `ReconcilerProofs`, `LifecycleProofs`.
4. `Server`, `Registry`, and their proofs.
5. `Accounts`, and its proofs.
6. `ConfigRollout`, and its proofs.
7. `Defaults`, and its proof; `JsonUtil` and `Creation`, and theirs.
8. `ServerProcess`, `Messages`, `Proxy`, `Traffic`, and their proofs.

Left:

- The session cookie of a login: two tabs that log in at once share one `state`.
- Two operators that both believe to lead.
- The configuration's way through shell and `echo`, as a conversion like those of
  `JsonUtil`.
