---------------------------- MODULE ServerProofs ----------------------------
(* Proofs about Server, for every set of users, admins, configurations and  *)
(* requests and every number of failures: the inductive invariant ServerInv *)
(* and, from it, that the handlers implement Registry.                      *)
EXTENDS Server, TLAPS

-----------------------------------------------------------------------------
(* What steps do to the resources *)

\* The part of the invariant that speaks of resources only.
ResourcesOK ==
  /\ inst \in [Users -> Instance]
  /\ published \subseteq Publication
  /\ \A n \in Users : inst[n].live => inst[n].cfg \in Configs
  /\ \A n \in Users : InstanceInv(n)
  /\ PublishedInv
  /\ GenerationIdentifiesConfig

\* Versions only grow, and a resource changes only with its version.
Aged ==
  \A n \in Users :
    /\ inst'[n].rv \in Nat
    /\ inst[n].rv <= inst'[n].rv
    /\ inst'[n].rv = inst[n].rv => inst'[n] = inst[n]

\* What may be stored as the next version of n: the same spec, an edited one,
\* or that of a new incarnation.
NextVersion(n, v) ==
  /\ v \in Instance /\ v.live /\ v.owner = n /\ v.cfg \in Configs
  /\ \/ /\ inst[n].live /\ v.uid = inst[n].uid
        /\ \/ v.gen = inst[n].gen /\ v.cfg = inst[n].cfg
           \/ v.gen = inst[n].gen + 1
     \/ ~inst[n].live /\ v.uid = inst[n].uid + 1

Removes(n) ==
  /\ Changes(n, Gone(n, inst[n].rv + 1, inst[n].uid))
  /\ UNCHANGED published

LEMMA GoneType ==
  ASSUME NEW n \in Users, NEW v \in Nat, NEW u \in Nat
  PROVE  Gone(n, v, u) \in Instance
  BY DEF Gone, Instance

LEMMA StoreKeeps ==
  ASSUME ResourcesOK, NEW n \in Users, NEW v, NextVersion(n, v), Stores(n, v)
  PROVE  ResourcesOK' /\ Aged
<1> DEFINE w == [v EXCEPT !.rv = inst[n].rv + 1]
<1> DEFINE p == [name |-> n, uid |-> w.uid, gen |-> w.gen, cfg |-> w.cfg]
<1>1. inst' = [inst EXCEPT ![n] = w] /\ published' = published \cup {p}
  BY DEF Stores, Changes, Announces
<1>2. inst[n] \in Instance /\ v \in Instance
  BY DEF ResourcesOK, NextVersion
<1>3. inst[n].rv \in Nat
  BY <1>2 DEF Instance
<1>4. /\ w \in Instance /\ w.rv = inst[n].rv + 1 /\ w.live
      /\ w.owner = n /\ w.cfg \in Configs
      /\ w.uid = v.uid /\ w.gen = v.gen /\ w.cfg = v.cfg
  BY <1>2, <1>3 DEF Instance, NextVersion
<1>5. /\ p \in Publication
      /\ p.name = n /\ p.uid = v.uid /\ p.gen = v.gen /\ p.cfg = v.cfg
  BY <1>4 DEF Instance, Publication
<1> HIDE DEF w, p
<1>6. inst' \in [Users -> Instance] /\ published' \subseteq Publication
  BY <1>1, <1>4, <1>5 DEF ResourcesOK
<1>7. inst'[n] = w /\ \A m \in Users \ {n} : inst'[m] = inst[m]
  BY <1>1 DEF ResourcesOK
<1>8. \A m \in Users : inst'[m].live => inst'[m].cfg \in Configs
  BY <1>4, <1>7 DEF ResourcesOK
<1>9. \A m \in Users : InstanceInv(m)'
  BY <1>4, <1>7 DEF ResourcesOK, InstanceInv
<1>10. \A q \in published :
         /\ q \in Publication /\ q.uid \in Nat /\ q.gen \in Nat
         /\ q.name \in Users
  BY DEF ResourcesOK, Publication
<1>11. /\ inst[n].uid \in Nat /\ inst[n].gen \in Nat
       /\ v.uid \in Nat /\ v.gen \in Nat
  BY <1>2 DEF Instance
<1>12. \A q \in published :
         /\ q.uid <= inst[q.name].uid
         /\ inst[q.name].live /\ q.uid = inst[q.name].uid =>
              /\ q.gen <= inst[q.name].gen
              /\ q.gen = inst[q.name].gen => q.cfg = inst[q.name].cfg
  BY DEF ResourcesOK, PublishedInv
\* What was published about n before is older, or is what v says again.
<1>13. \A q \in published :
         q.name = n =>
           /\ q.uid <= v.uid
           /\ q.uid = v.uid => q.gen <= v.gen
           /\ q.uid = v.uid /\ q.gen = v.gen => q.cfg = v.cfg
  BY <1>10, <1>11, <1>12 DEF NextVersion
<1>14. PublishedInv'
  <2> SUFFICES ASSUME NEW q \in published'
               PROVE  /\ q.uid <= inst'[q.name].uid
                      /\ inst'[q.name].live /\ q.uid = inst'[q.name].uid =>
                           /\ q.gen <= inst'[q.name].gen
                           /\ q.gen = inst'[q.name].gen
                                => q.cfg = inst'[q.name].cfg
    BY DEF PublishedInv
  <2>1. CASE q = p
    BY <2>1, <1>4, <1>5, <1>7, <1>11
  <2>2. CASE q \in published /\ q.name = n
    BY <2>2, <1>4, <1>7, <1>13
  <2>3. CASE q \in published /\ q.name # n
    BY <2>3, <1>7, <1>10, <1>12
  <2> QED
    BY <2>1, <2>2, <2>3, <1>1
<1>15. GenerationIdentifiesConfig'
  <2> SUFFICES ASSUME NEW q \in published', NEW s \in published',
                      q.name = s.name, q.uid = s.uid, q.gen = s.gen
               PROVE  q.cfg = s.cfg
    BY DEF GenerationIdentifiesConfig
  <2>1. CASE q \in published /\ s \in published
    BY <2>1 DEF ResourcesOK, GenerationIdentifiesConfig
  <2>2. CASE q = p /\ s \in published
    BY <2>2, <1>5, <1>13
  <2>3. CASE q \in published /\ s = p
    BY <2>3, <1>5, <1>13
  <2>4. CASE q = p /\ s = p
    BY <2>4
  <2> QED
    BY <2>1, <2>2, <2>3, <2>4, <1>1
<1>16. Aged
  <2> SUFFICES ASSUME NEW m \in Users
               PROVE  /\ inst'[m].rv \in Nat
                      /\ inst[m].rv <= inst'[m].rv
                      /\ inst'[m].rv = inst[m].rv => inst'[m] = inst[m]
    BY DEF Aged
  <2>1. inst[m] \in Instance /\ inst[m].rv \in Nat
    BY DEF ResourcesOK, Instance
  <2> QED
    BY <2>1, <1>3, <1>4, <1>7
<1> QED
  BY <1>6, <1>8, <1>9, <1>14, <1>15, <1>16 DEF ResourcesOK

LEMMA RemoveKeeps ==
  ASSUME ResourcesOK, NEW n \in Users, Removes(n)
  PROVE  ResourcesOK' /\ Aged
<1> DEFINE g == Gone(n, inst[n].rv + 1, inst[n].uid)
<1>1. inst' = [inst EXCEPT ![n] = g] /\ published' = published
  BY DEF Removes, Changes
<1>2. \A m \in Users : inst[m] \in Instance /\ inst[m].rv \in Nat
                       /\ inst[m].uid \in Nat
  BY DEF ResourcesOK, Instance
<1>3. g \in Instance
  BY <1>2, GoneType
<1>4. /\ g.rv = inst[n].rv + 1 /\ g.uid = inst[n].uid /\ ~g.live
      /\ g = Gone(n, g.rv, g.uid)
  BY DEF Gone
<1> HIDE DEF g
<1>5. inst' \in [Users -> Instance]
  BY <1>1, <1>3 DEF ResourcesOK
<1>6. inst'[n] = g /\ \A m \in Users \ {n} : inst'[m] = inst[m]
  BY <1>1 DEF ResourcesOK
<1>7. \A m \in Users : inst'[m].live => inst'[m].cfg \in Configs
  BY <1>4, <1>6 DEF ResourcesOK
<1>8. \A m \in Users : InstanceInv(m)'
  BY <1>4, <1>6 DEF ResourcesOK, InstanceInv
<1>9. PublishedInv'
  <2> SUFFICES ASSUME NEW q \in published
               PROVE  /\ q.uid <= inst'[q.name].uid
                      /\ inst'[q.name].live /\ q.uid = inst'[q.name].uid =>
                           /\ q.gen <= inst'[q.name].gen
                           /\ q.gen = inst'[q.name].gen
                                => q.cfg = inst'[q.name].cfg
    BY <1>1 DEF PublishedInv
  <2>1. q.name \in Users
    BY DEF ResourcesOK, Publication
  <2>2. /\ q.uid <= inst[q.name].uid
        /\ inst[q.name].live /\ q.uid = inst[q.name].uid =>
             /\ q.gen <= inst[q.name].gen
             /\ q.gen = inst[q.name].gen => q.cfg = inst[q.name].cfg
    BY DEF ResourcesOK, PublishedInv
  <2>3. CASE q.name = n
    BY <2>2, <2>3, <1>4, <1>6
  <2>4. CASE q.name # n
    BY <2>1, <2>2, <2>4, <1>6
  <2> QED
    BY <2>3, <2>4
<1>10. GenerationIdentifiesConfig'
  BY <1>1 DEF ResourcesOK, GenerationIdentifiesConfig
<1>11. Aged
  <2> SUFFICES ASSUME NEW m \in Users
               PROVE  /\ inst'[m].rv \in Nat
                      /\ inst[m].rv <= inst'[m].rv
                      /\ inst'[m].rv = inst[m].rv => inst'[m] = inst[m]
    BY DEF Aged
  <2> QED
    BY <1>2, <1>4, <1>6
<1>12. published' \subseteq Publication
  BY <1>1 DEF ResourcesOK
<1> QED
  BY <1>5, <1>7, <1>8, <1>9, <1>10, <1>11, <1>12 DEF ResourcesOK

LEMMA SameKeeps ==
  ASSUME ResourcesOK, UNCHANGED <<inst, published>>
  PROVE  ResourcesOK' /\ Aged
<1>1. ResourcesOK'
  BY DEF ResourcesOK, InstanceInv, PublishedInv, GenerationIdentifiesConfig
<1>2. Aged
  BY DEF Aged, ResourcesOK, Instance
<1> QED
  BY <1>1, <1>2

-----------------------------------------------------------------------------
(* What steps do to the requests *)

RequestsOK ==
  /\ req \in [Requests -> Request]
  /\ \A r \in Requests : RequestInv(r) /\ SeenInv(r)

\* The request r is now q, and q is fine.
Becomes(r, q) ==
  /\ req' = [req EXCEPT ![r] = q]
  /\ q \in Request
  /\ q.pc \in Calls(q.handler)
  /\ q.handler \in Creators \cup {"handleDelete"} => q.name = q.user
  /\ q.pc # "done" => q.answer = "none"
  /\ q.pc \in {"reread", "delete", "update"} =>
       q.user \in Admins \/ q.user = q.name
  /\ q.pc \in {"create", "update"} => q.cfg \in Configs
  /\ q.pc = "update" => q.seen.live /\ q.seen = inst[q.name] /\ UNCHANGED inst

\* The same request, called by the same user, about the same name.
Same(q, s) ==
  q.handler = s.handler /\ q.user = s.user /\ q.name = s.name

LEMMA OtherKeeps ==
  ASSUME RequestsOK, ResourcesOK, Aged, NEW s \in Requests, req'[s] = req[s]
  PROVE  RequestInv(s)' /\ SeenInv(s)'
<1>1. RequestInv(s)'
  BY DEF RequestsOK, RequestInv
<1>2. SeenInv(s)'
  <2> SUFFICES ASSUME req[s].pc = "update"
               PROVE  /\ req[s].seen.live
                      /\ req[s].seen.rv <= inst'[req[s].name].rv
                      /\ req[s].seen.rv = inst'[req[s].name].rv
                           => req[s].seen = inst'[req[s].name]
    BY DEF SeenInv
  <2>1. req[s].name \in Users /\ req[s].seen.rv \in Nat
    BY DEF RequestsOK, Request, Instance
  <2>2. /\ req[s].seen.live
        /\ req[s].seen.rv <= inst[req[s].name].rv
        /\ req[s].seen.rv = inst[req[s].name].rv
             => req[s].seen = inst[req[s].name]
    BY DEF RequestsOK, SeenInv
  <2>3. inst[req[s].name].rv \in Nat
    BY <2>1 DEF ResourcesOK, Instance
  <2>4. /\ inst'[req[s].name].rv \in Nat
        /\ inst[req[s].name].rv <= inst'[req[s].name].rv
        /\ inst'[req[s].name].rv = inst[req[s].name].rv
             => inst'[req[s].name] = inst[req[s].name]
    BY <2>1 DEF Aged
  <2> QED
    BY <2>1, <2>2, <2>3, <2>4
<1> QED
  BY <1>1, <1>2

LEMMA BecomesKeeps ==
  ASSUME RequestsOK, ResourcesOK, Aged, NEW r \in Requests, NEW q,
         Becomes(r, q)
  PROVE  RequestsOK'
<1>1. req' \in [Requests -> Request]
  BY DEF RequestsOK, Becomes
<1>2. req'[r] = q /\ \A s \in Requests \ {r} : req'[s] = req[s]
  BY DEF RequestsOK, Becomes
<1>3. RequestInv(r)'
  BY <1>2 DEF Becomes, RequestInv
<1>4. SeenInv(r)'
  <2>1. q.name \in Users
    BY DEF Becomes, Request
  <2>2. inst[q.name].rv \in Nat
    BY <2>1 DEF ResourcesOK, Instance
  <2> QED
    BY <1>2, <2>2 DEF Becomes, SeenInv
<1>5. \A s \in Requests \ {r} : RequestInv(s)' /\ SeenInv(s)'
  BY <1>2, OtherKeeps
<1> QED
  BY <1>1, <1>3, <1>4, <1>5 DEF RequestsOK

LEMMA NoRequestKeeps ==
  ASSUME RequestsOK, ResourcesOK, Aged, UNCHANGED req
  PROVE  RequestsOK'
<1>1. \A s \in Requests : RequestInv(s)' /\ SeenInv(s)'
  BY OtherKeeps
<1> QED
  BY <1>1 DEF RequestsOK

LEMMA AnswerBecomes ==
  ASSUME RequestsOK, NEW r \in Requests,
         NEW a \in {"created", "edited", "deleted", "exists", "notfound",
                    "invalid", "failed"},
         Answer(r, a)
  PROVE  \E q : /\ Becomes(r, q) /\ Same(q, req[r])
               /\ q.pc = "done" /\ q.answer = a
<1> DEFINE q == [req[r] EXCEPT !.pc = "done", !.answer = a]
<1>1. req[r] \in Request /\ RequestInv(r)
  BY DEF RequestsOK
<1>2. req' = [req EXCEPT ![r] = q]
  BY DEF Answer, RequestsOK
<1>3. /\ q \in Request /\ q.pc = "done" /\ q.answer = a
      /\ q.handler = req[r].handler /\ q.user = req[r].user
      /\ q.name = req[r].name
  BY <1>1 DEF Request
<1>4. "done" \in Calls(q.handler)
  BY DEF Calls
<1> HIDE DEF q
<1> QED
  BY <1>1, <1>2, <1>3, <1>4 DEF Becomes, Same, RequestInv

LEMMA GotoBecomes ==
  ASSUME RequestsOK, NEW r \in Requests,
         NEW p \in {"defaults", "reread", "delete"},
         req[r].pc # "done", p \in Calls(req[r].handler),
         p \in {"reread", "delete"} =>
           req[r].user \in Admins \/ req[r].user = req[r].name,
         Goto(r, p)
  PROVE  \E q : /\ Becomes(r, q) /\ Same(q, req[r])
               /\ q.pc = p /\ q.answer = "none"
<1> DEFINE q == [req[r] EXCEPT !.pc = p]
<1>1. req[r] \in Request /\ RequestInv(r)
  BY DEF RequestsOK
<1>2. req' = [req EXCEPT ![r] = q]
  BY DEF Goto, RequestsOK
<1>3. /\ q \in Request /\ q.pc = p /\ q.answer = req[r].answer
      /\ q.handler = req[r].handler /\ q.user = req[r].user
      /\ q.name = req[r].name
  BY <1>1 DEF Request
<1>4. req[r].answer = "none"
  BY <1>1 DEF RequestInv
<1>5. req[r].handler \in Creators \cup {"handleDelete"}
        => req[r].name = req[r].user
  BY <1>1 DEF RequestInv
<1> HIDE DEF q
<1> QED
  BY <1>2, <1>3, <1>4, <1>5 DEF Becomes, Same

-----------------------------------------------------------------------------
(* What handlers do: nothing, or one thing they are entitled to *)

Entitled(r) == req[r].user \in Admins \/ req[r].user = req[r].name

\* A step that leaves the resources alone.
Quiet(r) ==
  /\ req[r].pc # "done"
  /\ UNCHANGED <<inst, published>>
  /\ \E q :
       /\ Becomes(r, q) /\ Same(q, req[r])
       /\ q.answer \in {"none", "exists", "notfound", "invalid", "failed"}
       /\ q.answer = "exists" =>
            req[r].handler \in Creators /\ inst[req[r].name].live
       /\ q.answer \in {"invalid", "failed"} => Entitled(r)

\* A step that stores v for the creation, or the edit, that r asks for.
StoresFor(r, v) ==
  /\ NextVersion(req[r].name, v) /\ Stores(req[r].name, v)
  /\ \/ /\ req[r].handler \in Creators
        /\ ~inst[req[r].name].live /\ v.gen = 0 /\ ~v.del
     \/ /\ req[r].handler = "PageUpdateInstanceConfig"
        /\ inst[req[r].name].live
        /\ v.gen = inst[req[r].name].gen + 1
        /\ v.del = inst[req[r].name].del

DeletesFor(r) ==
  /\ req[r].handler \in Deleters
  /\ inst[req[r].name].live
  /\ Deletion(req[r].name)

\* A step that does what the request asks for.
Acts(r) ==
  /\ req[r].pc # "done" /\ Entitled(r)
  /\ DeletesFor(r) \/ \E v : StoresFor(r, v)
  /\ \E q :
       /\ Becomes(r, q) /\ Same(q, req[r])
       /\ q.answer \in {Abstract!Success[Operation(req[r].handler)], "failed"}

LEMMA InvParts ==
  ASSUME ServerInv
  PROVE  RequestsOK /\ ResourcesOK
  BY DEF ServerInv, TypeOK, RequestsOK, ResourcesOK

LEMMA EndsQuiet ==
  ASSUME RequestsOK, NEW r \in Requests, req[r].pc # "done",
         NEW a \in {"exists", "notfound", "invalid", "failed"},
         Answer(r, a), UNCHANGED <<inst, published>>,
         a = "exists" => req[r].handler \in Creators /\ inst[req[r].name].live,
         a \in {"invalid", "failed"} => Entitled(r)
  PROVE  Quiet(r)
<1>1. \E q : Becomes(r, q) /\ Same(q, req[r]) /\ q.answer = a
  BY AnswerBecomes
<1> QED
  BY <1>1 DEF Quiet

LEMMA GotoQuiet ==
  ASSUME RequestsOK, NEW r \in Requests,
         NEW p \in {"defaults", "reread", "delete"},
         req[r].pc # "done", p \in Calls(req[r].handler),
         p \in {"reread", "delete"} => Entitled(r),
         Goto(r, p), UNCHANGED <<inst, published>>
  PROVE  Quiet(r)
<1>1. \E q : Becomes(r, q) /\ Same(q, req[r]) /\ q.answer = "none"
  BY GotoBecomes DEF Entitled
<1> QED
  BY <1>1 DEF Quiet

LEMMA UnsentQuiet ==
  ASSUME RequestsOK, NEW r \in Requests, req[r].pc # "done",
         Entitled(r), Unsent(r)
  PROVE  Quiet(r)
  BY EndsQuiet DEF Unsent

\* Which handlers can be at a call.
LEMMA Whose ==
  ASSUME RequestsOK, NEW r \in Requests
  PROVE  /\ req[r] \in Request
         /\ req[r].pc \in {"check", "defaults", "create"} =>
              req[r].handler \in Creators /\ req[r].name = req[r].user
         /\ req[r].pc = "find" =>
              req[r].handler = "handleDelete" /\ req[r].name = req[r].user
         /\ req[r].pc = "reread" =>
              req[r].handler \in {"DeleteInstance", "PageDeleteInstance"}
         /\ req[r].pc = "delete" => req[r].handler \in Deleters
         /\ req[r].pc = "update" =>
              req[r].handler = "PageUpdateInstanceConfig"
         /\ req[r].pc \in {"check", "defaults", "create", "reread",
                           "delete", "update"} => Entitled(r)
<1>1. /\ req[r] \in Request /\ req[r].pc \in Calls(req[r].handler)
      /\ RequestInv(r)
  BY DEF RequestsOK, RequestInv
<1>2. req[r].handler \in Handlers
  BY <1>1 DEF Request
<1>3. /\ req[r].pc \in {"check", "defaults", "create"} =>
           req[r].handler \in Creators
      /\ req[r].pc = "find" => req[r].handler = "handleDelete"
      /\ req[r].pc = "reread" =>
           req[r].handler \in {"DeleteInstance", "PageDeleteInstance"}
      /\ req[r].pc = "delete" => req[r].handler \in Deleters
      /\ req[r].pc = "update" => req[r].handler = "PageUpdateInstanceConfig"
  BY <1>1, <1>2 DEF Calls, Creators, Deleters, Handlers
<1> QED
  BY <1>1, <1>3 DEF RequestInv, Entitled

LEMMA CheckFreeSteps ==
  ASSUME ServerInv, NEW r \in Requests, CheckFree(r)
  PROVE  Quiet(r)
<1>1. RequestsOK /\ ResourcesOK
  BY InvParts
<1>2. /\ req[r].pc = "check" /\ req[r].handler \in Creators
      /\ req[r].name = req[r].user /\ req[r].name \in Users
  BY <1>1, Whose DEF CheckFree, Request
<1>3. "defaults" \in Calls(req[r].handler)
  BY <1>2 DEF Calls, Creators
<1>4. HasInstance(req[r].user) => inst[req[r].name].live
  BY <1>1, <1>2 DEF HasInstance, ResourcesOK, InstanceInv
<1>5. CASE Ends(r, "exists") /\ inst[req[r].name].live
  BY <1>1, <1>2, <1>5, EndsQuiet DEF Ends
<1>6. CASE Goto(r, "defaults") /\ UNCHANGED <<inst, published>>
  BY <1>1, <1>2, <1>3, <1>6, GotoQuiet
<1> QED
  BY <1>4, <1>5, <1>6 DEF CheckFree

LEMMA LoadDefaultsSteps ==
  ASSUME ServerInv, NEW r \in Requests, LoadDefaults(r)
  PROVE  Quiet(r)
<1>1. RequestsOK /\ ResourcesOK
  BY InvParts
<1>2. /\ req[r].pc = "defaults" /\ req[r].handler \in Creators
      /\ req[r].name = req[r].user /\ Entitled(r) /\ req[r] \in Request
  BY <1>1, Whose DEF LoadDefaults
<1>3. ASSUME NEW c \in Configs,
             req' = [req EXCEPT ![r].pc = "create", ![r].cfg = c],
             UNCHANGED <<inst, published>>
      PROVE  Quiet(r)
  <2> DEFINE q == [req[r] EXCEPT !.pc = "create", !.cfg = c]
  <2>1. req' = [req EXCEPT ![r] = q]
    BY <1>1, <1>3 DEF RequestsOK
  <2>2. /\ q \in Request /\ q.pc = "create" /\ q.cfg = c
        /\ q.answer = req[r].answer /\ Same(q, req[r])
    BY <1>2 DEF Request, Same
  <2>3. req[r].answer = "none" /\ "create" \in Calls(req[r].handler)
    BY <1>1, <1>2 DEF RequestsOK, RequestInv, Calls, Creators
  <2> HIDE DEF q
  <2>4. Becomes(r, q)
    BY <1>2, <2>1, <2>2, <2>3 DEF Becomes, Same
  <2> QED
    BY <1>2, <1>3, <2>2, <2>3, <2>4 DEF Quiet
<1>4. CASE Ends(r, "invalid")
  BY <1>1, <1>2, <1>4, EndsQuiet DEF Ends
<1>5. CASE Unsent(r)
  BY <1>1, <1>2, <1>5, UnsentQuiet
<1> QED
  BY <1>3, <1>4, <1>5 DEF LoadDefaults

LEMMA CreateSteps ==
  ASSUME ServerInv, NEW r \in Requests, Create(r)
  PROVE  Quiet(r) \/ Acts(r)
<1>1. RequestsOK /\ ResourcesOK
  BY InvParts
<1>2. /\ req[r].pc = "create" /\ req[r].handler \in Creators
      /\ req[r].name = req[r].user /\ Entitled(r) /\ req[r] \in Request
      /\ req[r].name \in Users /\ req[r].cfg \in Configs
  BY <1>1, Whose DEF Create, Request, RequestsOK, RequestInv
<1>3. CASE inst[req[r].name].live /\ (Ends(r, "failed") \/ Ends(r, "exists"))
  BY <1>1, <1>2, <1>3, EndsQuiet DEF Ends
<1>4. CASE /\ ~inst[req[r].name].live
           /\ Accepted(r, Stores(req[r].name, Composed(r)), "created")
  <2> DEFINE n == req[r].name
             v == Composed(r)
  <2>1. inst[n] = Gone(n, inst[n].rv, inst[n].uid) /\ inst[n] \in Instance
    BY <1>1, <1>2, <1>4 DEF ResourcesOK, InstanceInv
  <2>2. inst[n].gen = 0 /\ ~inst[n].del
    BY <2>1 DEF Gone
  <2>3. v = [inst[n] EXCEPT !.uid = @ + 1, !.live = TRUE,
                            !.owner = n, !.cfg = req[r].cfg]
    BY <1>2 DEF Composed
  <2>4. inst[n].uid + 1 \in Nat
    BY <2>1 DEF Instance
  <2> HIDE DEF v, n
  <2>5. /\ v.live /\ v.owner = n /\ v.cfg = req[r].cfg
        /\ v.uid = inst[n].uid + 1 /\ v.gen = 0 /\ ~v.del
    BY <2>1, <2>2, <2>3 DEF Instance
  <2>6. v \in Instance
    BY <1>2, <2>1, <2>3, <2>4 DEF Instance, n
  <2>7. StoresFor(r, v)
    BY <1>2, <1>4, <2>5, <2>6 DEF StoresFor, NextVersion, Accepted, v, n
  <2>8. \E a \in {"created", "failed"} : Answer(r, a)
    BY <1>4 DEF Accepted
  <2>9. \E q : /\ Becomes(r, q) /\ Same(q, req[r])
              /\ q.answer \in {"created", "failed"}
    BY <1>1, <2>8, AnswerBecomes
  <2>10. Abstract!Success[Operation(req[r].handler)] = "created"
    BY <1>2 DEF Abstract!Success, Operation, Creators, Deleters
  <2> QED
    BY <1>2, <2>7, <2>9, <2>10 DEF Acts
<1>5. CASE Unsent(r)
  BY <1>1, <1>2, <1>5, UnsentQuiet
<1> QED
  BY <1>3, <1>4, <1>5 DEF Create

\* Owning an instance is owning its name.
LEMMA AuthorisedEntitled ==
  ASSUME ServerInv, NEW r \in Requests, Authorised(r)
  PROVE  Entitled(r)
<1>1. RequestsOK /\ ResourcesOK
  BY InvParts
<1>2. req[r].name \in Users
  BY <1>1 DEF RequestsOK, Request
<1> QED
  BY <1>1, <1>2 DEF Authorised, Entitled, ResourcesOK, InstanceInv

LEMMA RefusedSteps ==
  ASSUME ServerInv, NEW r \in Requests, Refused(r)
  PROVE  Quiet(r)
<1>1. RequestsOK /\ req[r].pc # "done"
  BY InvParts DEF Refused
<1>2. Answer(r, "notfound") /\ UNCHANGED <<inst, published>>
  BY DEF Refused, Ends
<1> QED
  BY <1>1, <1>2, EndsQuiet

LEMMA AuthoriseDeleteSteps ==
  ASSUME ServerInv, NEW r \in Requests, AuthoriseDelete(r),
         req[r].handler \in {"DeleteInstance", "PageDeleteInstance"}
  PROVE  Quiet(r)
<1>1. RequestsOK /\ req[r].pc # "done"
  BY InvParts DEF AuthoriseDelete
<1>2. Entitled(r) /\ Goto(r, "reread") /\ UNCHANGED <<inst, published>>
  BY AuthorisedEntitled DEF AuthoriseDelete
<1>3. "reread" \in Calls(req[r].handler)
  BY DEF Calls, Creators
<1> QED
  BY <1>1, <1>2, <1>3, GotoQuiet

LEMMA RereadSteps ==
  ASSUME ServerInv, NEW r \in Requests, Reread(r)
  PROVE  Quiet(r)
<1>1. RequestsOK /\ req[r].pc # "done"
  BY InvParts DEF Reread
<1>2. /\ req[r].handler \in {"DeleteInstance", "PageDeleteInstance"}
      /\ Entitled(r)
  BY <1>1, Whose DEF Reread
<1>3. "delete" \in Calls(req[r].handler)
  BY <1>2 DEF Calls, Creators
<1>4. CASE Ends(r, "failed")
  BY <1>1, <1>2, <1>4, EndsQuiet DEF Ends
<1>5. CASE Goto(r, "delete") /\ UNCHANGED <<inst, published>>
  BY <1>1, <1>2, <1>3, <1>5, GotoQuiet
<1>6. CASE Unsent(r)
  BY <1>1, <1>2, <1>6, UnsentQuiet
<1> QED
  BY <1>4, <1>5, <1>6 DEF Reread

LEMMA FindSteps ==
  ASSUME ServerInv, NEW r \in Requests, Find(r)
  PROVE  Quiet(r)
<1>1. RequestsOK /\ ResourcesOK /\ req[r].pc # "done"
  BY InvParts DEF Find
<1>2. /\ req[r].handler = "handleDelete" /\ req[r].name = req[r].user
      /\ req[r] \in Request
  BY <1>1, Whose DEF Find
<1>3. CASE Answer(r, "notfound") /\ UNCHANGED <<inst, published>>
  BY <1>1, <1>3, EndsQuiet
<1>4. ASSUME NEW n \in Users, inst[n].live, inst[n].owner = req[r].user,
             req' = [req EXCEPT ![r].pc = "delete", ![r].name = n],
             UNCHANGED <<inst, published>>
      PROVE  Quiet(r)
  <2>1. n = req[r].name
    BY <1>1, <1>2, <1>4 DEF ResourcesOK, InstanceInv
  <2>2. Goto(r, "delete")
    <3>1. [req[r] EXCEPT !.pc = "delete", !.name = n]
            = [req[r] EXCEPT !.pc = "delete"]
      BY <1>2, <2>1 DEF Request
    <3> QED
      BY <1>1, <1>4, <3>1 DEF Goto, RequestsOK
  <2>3. "delete" \in Calls(req[r].handler) /\ Entitled(r)
    BY <1>2 DEF Calls, Creators, Entitled
  <2> QED
    BY <1>1, <1>4, <2>2, <2>3, GotoQuiet
<1> QED
  BY <1>3, <1>4 DEF Find, Ends

LEMMA DeleteSteps ==
  ASSUME ServerInv, NEW r \in Requests, Delete(r)
  PROVE  Quiet(r) \/ Acts(r)
<1>1. RequestsOK /\ req[r].pc # "done"
  BY InvParts DEF Delete
<1>2. req[r].handler \in Deleters /\ Entitled(r)
  BY <1>1, Whose DEF Delete
<1>3. CASE Ends(r, "failed")
  BY <1>1, <1>2, <1>3, EndsQuiet DEF Ends
<1>4. CASE /\ inst[req[r].name].live
           /\ Accepted(r, Deletion(req[r].name), "deleted")
  <2>1. \E a \in {"deleted", "failed"} : Answer(r, a)
    BY <1>4 DEF Accepted
  <2>2. \E q : /\ Becomes(r, q) /\ Same(q, req[r])
              /\ q.answer \in {"deleted", "failed"}
    BY <1>1, <2>1, AnswerBecomes
  <2>3. Abstract!Success[Operation(req[r].handler)] = "deleted"
    BY <1>2 DEF Abstract!Success, Operation, Creators, Deleters
  <2>4. DeletesFor(r)
    BY <1>2, <1>4 DEF DeletesFor, Accepted
  <2> QED
    BY <1>1, <1>2, <2>2, <2>3, <2>4 DEF Acts
<1>5. CASE Unsent(r)
  BY <1>1, <1>2, <1>5, UnsentQuiet
<1> QED
  BY <1>3, <1>4, <1>5 DEF Delete

LEMMA AuthoriseEditSteps ==
  ASSUME ServerInv, NEW r \in Requests, AuthoriseEdit(r),
         req[r].handler = "PageUpdateInstanceConfig"
  PROVE  Quiet(r)
<1>1. RequestsOK /\ ResourcesOK /\ req[r].pc # "done"
  BY InvParts DEF AuthoriseEdit
<1>2. /\ Entitled(r) /\ inst[req[r].name].live
      /\ req[r] \in Request /\ req[r].answer = "none"
  BY <1>1, AuthorisedEntitled
     DEF AuthoriseEdit, Authorised, RequestsOK, RequestInv
<1>3. inst[req[r].name] \in Instance
  BY <1>1, <1>2 DEF ResourcesOK, Request
<1>4. ASSUME NEW c \in Configs,
             req' = [req EXCEPT ![r].pc = "update", ![r].cfg = c,
                                ![r].seen = inst[req[r].name]],
             UNCHANGED <<inst, published>>
      PROVE  Quiet(r)
  <2> DEFINE q == [req[r] EXCEPT !.pc = "update", !.cfg = c,
                                 !.seen = inst[req[r].name]]
  <2>1. req' = [req EXCEPT ![r] = q]
    BY <1>1, <1>4 DEF RequestsOK
  <2>2. q \in Request
    BY <1>2, <1>3 DEF Request
  <2>3. /\ q.pc = "update" /\ q.cfg = c /\ q.seen = inst[req[r].name]
        /\ q.answer = "none" /\ Same(q, req[r])
    BY <1>2 DEF Request, Same
  <2>4. "update" \in Calls(req[r].handler)
    BY DEF Calls, Creators
  <2>5. req[r].handler \notin Creators \cup {"handleDelete"}
    BY DEF Creators
  <2> HIDE DEF q
  <2>6. Becomes(r, q)
    BY <1>2, <1>4, <2>1, <2>2, <2>3, <2>4, <2>5
       DEF Becomes, Same, Entitled
  <2> QED
    BY <1>1, <1>4, <2>3, <2>6 DEF Quiet
<1>5. CASE Ends(r, "invalid")
  BY <1>1, <1>2, <1>5, EndsQuiet DEF Ends
<1> QED
  BY <1>4, <1>5 DEF AuthoriseEdit

\* The update that the API server takes is of the current version.
LEMMA UpdateSteps ==
  ASSUME ServerInv, NEW r \in Requests, Update(r)
  PROVE  Quiet(r) \/ Acts(r)
<1>1. RequestsOK /\ ResourcesOK /\ req[r].pc = "update"
  BY InvParts DEF Update
<1>2. /\ req[r].handler = "PageUpdateInstanceConfig" /\ Entitled(r)
      /\ req[r] \in Request /\ req[r].cfg \in Configs
      /\ req[r].name \in Users
  BY <1>1, Whose DEF RequestsOK, RequestInv, Request
<1>3. CASE Ends(r, "failed")
  BY <1>1, <1>2, <1>3, EndsQuiet DEF Ends
<1>4. CASE /\ Current(r)
           /\ Accepted(r, Stores(req[r].name, Edited(r)), "edited")
  <2> DEFINE n == req[r].name
             v == Edited(r)
  <2>1. inst[n].live /\ req[r].seen = inst[n]
    BY <1>1, <1>4 DEF Current, RequestsOK, SeenInv
  <2>2. inst[n] \in Instance /\ inst[n].owner = n
    BY <1>1, <1>2, <2>1 DEF ResourcesOK, InstanceInv
  <2>3. v = [inst[n] EXCEPT !.cfg = req[r].cfg, !.gen = @ + 1]
    BY <2>1 DEF Edited
  <2>4. inst[n].gen + 1 \in Nat
    BY <2>2 DEF Instance
  <2> HIDE DEF v, n
  <2>5. /\ v.live /\ v.owner = n /\ v.cfg = req[r].cfg
        /\ v.uid = inst[n].uid /\ v.gen = inst[n].gen + 1
        /\ v.del = inst[n].del
    BY <2>1, <2>2, <2>3 DEF Instance
  <2>6. v \in Instance
    BY <1>2, <2>2, <2>3, <2>4 DEF Instance
  <2>7. StoresFor(r, v)
    BY <1>2, <1>4, <2>1, <2>5, <2>6 DEF StoresFor, NextVersion, Accepted, v, n
  <2>8. \E a \in {"edited", "failed"} : Answer(r, a)
    BY <1>4 DEF Accepted
  <2>9. \E q : /\ Becomes(r, q) /\ Same(q, req[r])
              /\ q.answer \in {"edited", "failed"}
    BY <1>1, <2>8, AnswerBecomes
  <2>10. Abstract!Success[Operation(req[r].handler)] = "edited"
    BY <1>2 DEF Abstract!Success, Operation, Creators, Deleters
  <2> QED
    BY <1>1, <1>2, <2>7, <2>9, <2>10 DEF Acts
<1>5. CASE Unsent(r)
  BY <1>1, <1>2, <1>5, UnsentQuiet
<1> QED
  BY <1>3, <1>4, <1>5 DEF Update

LEMMA HandleSteps ==
  ASSUME ServerInv, NEW r \in Requests, Handle(r)
  PROVE  Quiet(r) \/ Acts(r)
<1>1. CASE CreateInstance(r) \/ PageCreateInstance(r) \/ HandleCreate(r)
  BY <1>1, CheckFreeSteps, LoadDefaultsSteps, CreateSteps
     DEF CreateInstance, PageCreateInstance, HandleCreate
<1>2. CASE DeleteInstance(r) \/ PageDeleteInstance(r)
  BY <1>2, RefusedSteps, AuthoriseDeleteSteps, RereadSteps, DeleteSteps
     DEF DeleteInstance, PageDeleteInstance
<1>3. CASE HandleDelete(r)
  BY <1>3, FindSteps, DeleteSteps DEF HandleDelete
<1>4. CASE PageUpdateInstanceConfig(r)
  BY <1>4, RefusedSteps, AuthoriseEditSteps, UpdateSteps
     DEF PageUpdateInstanceConfig
<1> QED
  BY <1>1, <1>2, <1>3, <1>4 DEF Handle

-----------------------------------------------------------------------------
(* What the operator does *)

LEMMA DeletionKeeps ==
  ASSUME ResourcesOK, NEW n \in Users, inst[n].live, Deletion(n)
  PROVE  ResourcesOK' /\ Aged
<1>1. inst[n] \in Instance /\ inst[n].owner = n /\ inst[n].cfg \in Configs
  BY DEF ResourcesOK, InstanceInv
<1>2. CASE Stores(n, [inst[n] EXCEPT !.del = TRUE])
  <2> DEFINE v == [inst[n] EXCEPT !.del = TRUE]
  <2>1. NextVersion(n, v)
    BY <1>1 DEF NextVersion, Instance
  <2> QED
    BY <1>2, <2>1, StoreKeeps
<1>3. CASE UNCHANGED <<inst, published>>
  BY <1>3, SameKeeps
<1>4. CASE Removes(n)
  BY <1>4, RemoveKeeps
<1> QED
  BY <1>2, <1>3, <1>4 DEF Deletion, Removes

LEMMA OperateKeeps ==
  ASSUME ResourcesOK, NEW n \in Users, Operate(n)
  PROVE  ResourcesOK' /\ Aged /\ UNCHANGED req
<1>1. inst[n].live /\ UNCHANGED req
  BY DEF Operate, AddFinalizer, Report, RemoveFinalizer
<1>2. inst[n] \in Instance /\ inst[n].owner = n /\ inst[n].cfg \in Configs
  BY <1>1 DEF ResourcesOK, InstanceInv
<1>3. CASE AddFinalizer(n)
  <2> DEFINE v == [inst[n] EXCEPT !.fin = TRUE]
  <2>1. NextVersion(n, v)
    BY <1>1, <1>2 DEF NextVersion, Instance
  <2> QED
    BY <1>1, <1>3, <2>1, StoreKeeps DEF AddFinalizer
<1>4. CASE Report(n)
  <2>1. NextVersion(n, inst[n])
    BY <1>1, <1>2 DEF NextVersion
  <2> QED
    BY <1>1, <1>4, <2>1, StoreKeeps DEF Report
<1>5. CASE RemoveFinalizer(n)
  BY <1>1, <1>5, RemoveKeeps DEF RemoveFinalizer, Removes
<1> QED
  BY <1>3, <1>4, <1>5 DEF Operate

-----------------------------------------------------------------------------
(* The invariant *)

LEMMA CountersType ==
  ASSUME TypeOK, Next
  PROVE  faults' \in Nat /\ reports' \in Nat
<1>1. faults \in Nat /\ reports \in Nat
  BY DEF TypeOK
<1>2. ASSUME NEW r \in Requests, Handle(r)
      PROVE  reports' = reports /\ (faults' = faults \/ Fault)
  BY <1>2
     DEF Handle, CreateInstance, PageCreateInstance, HandleCreate,
         DeleteInstance, PageDeleteInstance, HandleDelete,
         PageUpdateInstanceConfig, CheckFree, LoadDefaults, Create, Refused,
         AuthoriseDelete, Reread, Find, Delete, AuthoriseEdit, Update, Ends,
         Unsent, Accepted
<1>3. ASSUME NEW n \in Users, Operate(n)
      PROVE  /\ faults' = faults
             /\ reports' = reports \/ (reports > 0 /\ reports' = reports - 1)
  BY <1>3 DEF Operate, AddFinalizer, Report, RemoveFinalizer
<1>4. /\ Fault => faults' \in Nat
      /\ reports > 0 /\ reports' = reports - 1 => reports' \in Nat
  BY <1>1 DEF Fault
<1> QED
  BY <1>1, <1>2, <1>3, <1>4 DEF Next

LEMMA InvInit ==
  ASSUME Init
  PROVE  ServerInv
<1>1. /\ req \in [Requests -> Arrivals]
      /\ faults \in Nat /\ reports \in Nat
  BY BoundsAssumption DEF Init
<1>2. \A n \in Users : /\ Gone(n, 0, 0) \in Instance /\ ~Gone(n, 0, 0).live
                       /\ Gone(n, 0, 0).rv = 0 /\ Gone(n, 0, 0).uid = 0
  BY DEF Gone, Instance
<1>f. PICK f \in [Users -> Configs] :
        /\ inst = [n \in Users |-> IF n \in Veterans THEN Founded(n, f[n])
                                                    ELSE Gone(n, 0, 0)]
        /\ published = {[name |-> n, uid |-> 1, gen |-> 0, cfg |-> f[n]] :
                          n \in Veterans}
  BY DEF Init
<1>g. ASSUME NEW n \in Users
      PROVE  /\ inst[n] \in Instance
             /\ inst[n].live => /\ n \in Veterans
                               /\ inst[n] = Founded(n, f[n])
                               /\ inst[n].cfg \in Configs
                               /\ inst[n].owner = n
             /\ ~inst[n].live => inst[n] = Gone(n, 0, 0)
             /\ n \in Veterans => inst[n].uid = 1 /\ inst[n].gen = 0
                                  /\ inst[n].cfg = f[n]
  <2>1. Founded(n, f[n]) \in Instance
    BY DEF Founded, Instance
  <2>2. CASE n \in Veterans
    <3>1. inst[n] = Founded(n, f[n])
      BY <1>f, <2>2
    <3> QED
      BY <2>1, <2>2, <3>1 DEF Founded
  <2>3. CASE n \notin Veterans
    <3>1. inst[n] = Gone(n, 0, 0)
      BY <1>f, <2>3
    <3> QED
      BY <1>2, <2>3, <3>1
  <2> QED
    BY <2>2, <2>3
<1>p. ASSUME NEW p \in published
      PROVE  /\ p \in Publication /\ p.name \in Veterans
             /\ p.uid = 1 /\ p.gen = 0 /\ p.cfg = f[p.name]
  BY <1>f, VeteransAssumption DEF Publication
<1>3. ASSUME NEW h \in Handlers, NEW u \in Users, NEW n \in Users,
             h \in Creators \cup {"handleDelete"} => n = u,
             NEW q, q = Arrival(h, u, n)
      PROVE  /\ q \in Request
             /\ q.pc \in Calls(q.handler)
             /\ q.handler \in Creators \cup {"handleDelete"}
                  => q.name = q.user
             /\ q.answer = "none"
             /\ q.pc \in {"check", "find", "authorise"}
  <2> DEFINE p == CASE h \in Creators -> "check"
                    [] h = "handleDelete" -> "find"
                    [] OTHER -> "authorise"
  <2>1. p \in {"check", "find", "authorise"} /\ p \in Calls(h)
    BY DEF Calls, Creators, Handlers, Deleters
  <2>2. q = [handler |-> h, user |-> u, name |-> n, pc |-> p,
             cfg |-> NoConfig, seen |-> Gone(n, 0, 0), answer |-> "none"]
    BY <1>3 DEF Arrival
  <2> HIDE DEF p
  <2>3. q \in Request
    BY <1>2, <2>1, <2>2 DEF Request
  <2> QED
    BY <1>3, <2>1, <2>2, <2>3
<1>4. ASSUME NEW r \in Requests
      PROVE  /\ req[r] \in Request
             /\ req[r].pc \in Calls(req[r].handler)
             /\ req[r].handler \in Creators \cup {"handleDelete"}
                  => req[r].name = req[r].user
             /\ req[r].answer = "none"
             /\ req[r].pc \in {"check", "find", "authorise"}
  <2>1. PICK h \in Handlers, u \in Users, n \in Users :
          /\ h \in Creators \cup {"handleDelete"} => n = u
          /\ req[r] = Arrival(h, u, n)
    <3>1. req[r] \in Arrivals
      BY <1>1, <1>4
    <3>2. Creators \cup {"handleDelete"} \subseteq Handlers
      BY DEF Handlers, Deleters
    <3> QED
      BY <3>1, <3>2 DEF Arrivals
  <2> QED
    BY <1>3, <2>1
<1>5. \A r \in Requests : RequestInv(r) /\ SeenInv(r)
  BY <1>4 DEF RequestInv, SeenInv
<1>6. \A n \in Users : InstanceInv(n)
  <2>1. \A n \in Users : Gone(n, 0, 0).rv = 0 /\ Gone(n, 0, 0).uid = 0
    BY <1>2
  <2> QED
    BY <1>g, <2>1 DEF InstanceInv
<1>7. TypeOK
  <2>1. inst \in [Users -> Instance]
    <3>1. inst = [n \in Users |-> inst[n]]
      BY <1>f
    <3> QED
      BY <1>g, <3>1
  <2>2. published \subseteq Publication
    BY <1>p
  <2>3. req \in [Requests -> Request]
    <3>1. req = [r \in Requests |-> req[r]]
      BY <1>1
    <3> QED
      BY <1>4, <3>1
  <2> QED
    BY <1>1, <1>g, <2>1, <2>2, <2>3 DEF TypeOK
<1>8. PublishedInv /\ GenerationIdentifiesConfig
  <2>1. ASSUME NEW p \in published
        PROVE  /\ inst[p.name].uid = 1 /\ inst[p.name].gen = 0
               /\ inst[p.name].cfg = p.cfg /\ p.uid = 1 /\ p.gen = 0
    BY <1>p, <1>g, VeteransAssumption
  <2> QED
    BY <2>1, <1>p DEF PublishedInv, GenerationIdentifiesConfig
<1> QED
  BY <1>5, <1>6, <1>7, <1>8 DEF ServerInv

LEMMA InvNext ==
  ASSUME ServerInv, [Next]_vars
  PROVE  ServerInv'
<1>1. RequestsOK /\ ResourcesOK
  BY InvParts
<1>2. CASE Next
  <2>1. RequestsOK' /\ ResourcesOK'
    <3>1. ASSUME NEW r \in Requests, Quiet(r)
          PROVE  RequestsOK' /\ ResourcesOK'
      <4>1. ResourcesOK' /\ Aged
        BY <1>1, <3>1, SameKeeps DEF Quiet
      <4> QED
        BY <1>1, <3>1, <4>1, BecomesKeeps DEF Quiet
    <3>2. ASSUME NEW r \in Requests, Acts(r)
          PROVE  RequestsOK' /\ ResourcesOK'
      <4>1. req[r].name \in Users
        BY <1>1 DEF RequestsOK, Request
      <4>2. ResourcesOK' /\ Aged
        BY <1>1, <3>2, <4>1, StoreKeeps, DeletionKeeps
           DEF Acts, StoresFor, DeletesFor
      <4> QED
        BY <1>1, <3>2, <4>2, BecomesKeeps DEF Acts
    <3>3. ASSUME NEW n \in Users, Operate(n)
          PROVE  RequestsOK' /\ ResourcesOK'
      BY <1>1, <3>3, OperateKeeps, NoRequestKeeps
    <3> QED
      BY <1>2, <3>1, <3>2, <3>3, HandleSteps DEF Next
  <2>2. faults' \in Nat /\ reports' \in Nat
    BY <1>2, CountersType DEF ServerInv
  <2> QED
    BY <2>1, <2>2 DEF ServerInv, TypeOK, RequestsOK, ResourcesOK
<1>3. CASE UNCHANGED vars
  BY <1>3 DEF vars, ServerInv, TypeOK, RequestInv, SeenInv, InstanceInv,
              PublishedInv, GenerationIdentifiesConfig
<1> QED
  BY <1>2, <1>3

\* The invariant of the handlers holds in every state.
THEOREM ServerInvariance == Spec => []ServerInv
<1>1. Init => ServerInv
  BY InvInit
<1>2. ServerInv /\ [Next]_vars => ServerInv'
  BY InvNext
<1> QED
  BY <1>1, <1>2, PTL DEF Spec

\* Resources and requests are always well formed, and no instance exists
\* without a config (instance.go: a failing GetDefaults ends the handler).
THEOREM ServerTypeCorrect == Spec => []TypeOK
<1>1. ServerInv => TypeOK
  BY DEF ServerInv
<1> QED
  BY <1>1, ServerInvariance, PTL

\* Whatever is edited at once, a generation of an incarnation is one config
\* (pages.go, PageUpdateInstanceConfig), as the operator's pods assume.
THEOREM GenerationCorrect == Spec => []GenerationIdentifiesConfig
<1>1. ServerInv => GenerationIdentifiesConfig
  BY DEF ServerInv
<1> QED
  BY <1>1, ServerInvariance, PTL

-----------------------------------------------------------------------------
(* Server implements Registry: what a handler stores is what its request asks *)
(* for, on behalf of somebody entitled to it, and its answer says so.         *)

RStep == [Abstract!RegistryNext]_(Abstract!registryVars)

-----------------------------------------------------------------------------
(* The refinement mapping *)

EntryOf(v) ==
  [owner |-> v.owner, gen |-> v.gen, cfg |-> v.cfg, closing |-> v.del]

LEMMA EntryPresent ==
  ASSUME NEW v
  PROVE  EntryOf(v) # Abstract!Absent
<1>1. "gen" \in DOMAIN EntryOf(v)
  BY DEF EntryOf
<1>2. "gen" \notin DOMAIN Abstract!Absent
  BY DEF Abstract!Absent
<1> QED
  BY <1>1, <1>2

LEMMA RegistryValue ==
  /\ registryNow = [n \in Users |-> IF inst[n].live THEN EntryOf(inst[n])
                                                    ELSE Abstract!Absent]
  /\ \A n \in Users :
       /\ inst[n].live => registryNow[n] = EntryOf(inst[n])
       /\ ~inst[n].live => registryNow[n] = Abstract!Absent
  BY DEF registryNow, EntryOf, Abstract!Absent

LEMMA RegistryStored ==
  ASSUME NEW n \in Users, NEW v, inst \in [Users -> Instance],
         v \in Instance, v.live, Stores(n, v)
  PROVE  registryNow' = [registryNow EXCEPT ![n] = EntryOf(v)]
<1> DEFINE w == [v EXCEPT !.rv = inst[n].rv + 1]
<1>1. inst' = [inst EXCEPT ![n] = w]
  BY DEF Stores, Changes
<1>2. w.live /\ EntryOf(w) = EntryOf(v)
  BY DEF Instance, EntryOf
<1> HIDE DEF w
<1>3. inst'[n] = w /\ \A m \in Users \ {n} : inst'[m] = inst[m]
  BY <1>1
<1>4. registryNow' = [m \in Users |-> IF inst'[m].live THEN EntryOf(inst'[m])
                                                       ELSE Abstract!Absent]
  BY RegistryValue DEF registryNow, EntryOf, Abstract!Absent
<1> QED
  BY <1>2, <1>3, <1>4, RegistryValue

LEMMA RegistryRemoved ==
  ASSUME NEW n \in Users, inst \in [Users -> Instance], Removes(n)
  PROVE  registryNow' = [registryNow EXCEPT ![n] = Abstract!Absent]
<1>1. /\ inst' = [inst EXCEPT ![n] = Gone(n, inst[n].rv + 1, inst[n].uid)]
      /\ ~Gone(n, inst[n].rv + 1, inst[n].uid).live
  BY DEF Removes, Changes, Gone
<1>2. ~inst'[n].live /\ \A m \in Users \ {n} : inst'[m] = inst[m]
  BY <1>1
<1>3. registryNow' = [m \in Users |-> IF inst'[m].live THEN EntryOf(inst'[m])
                                                       ELSE Abstract!Absent]
  BY DEF registryNow, EntryOf, Abstract!Absent
<1> QED
  BY <1>2, <1>3, RegistryValue

CallOf(q) ==
  [op |-> Operation(q.handler), user |-> q.user, name |-> q.name,
   answer |-> q.answer]

LEMMA CallValue ==
  /\ callNow = [r \in Requests |-> CallOf(req[r])]
  /\ \A r \in Requests :
       /\ callNow[r].op = Operation(req[r].handler)
       /\ callNow[r].user = req[r].user
       /\ callNow[r].name = req[r].name
       /\ callNow[r].answer = req[r].answer
  BY DEF callNow, CallOf

\* The call of r gets an answer, or none yet.
LEMMA CallAnswered ==
  ASSUME NEW r \in Requests, NEW q, RequestsOK, Becomes(r, q), Same(q, req[r])
  PROVE  Abstract!Answered(r, q.answer)
<1>1. req'[r] = q /\ \A s \in Requests \ {r} : req'[s] = req[s]
  BY DEF RequestsOK, Becomes
<1>2. callNow' = [s \in Requests |-> CallOf(req'[s])]
  BY DEF callNow, CallOf
<1>3. CallOf(q) = [CallOf(req[r]) EXCEPT !.answer = q.answer]
  BY DEF CallOf, Same
<1>4. callNow' = [callNow EXCEPT ![r] = CallOf(q)]
  BY <1>1, <1>2, CallValue
<1>5. callNow' = [callNow EXCEPT ![r].answer = q.answer]
  BY <1>3, <1>4, CallValue
<1> QED
  BY <1>5 DEF Abstract!Answered

-----------------------------------------------------------------------------
(* The steps, mapped *)

LEMMA QuietMaps ==
  ASSUME ServerInv, NEW r \in Requests, Quiet(r)
  PROVE  RStep
<1>1. RequestsOK /\ ResourcesOK
  BY InvParts
<1>2. registryNow' = registryNow
  BY DEF Quiet, registryNow
<1>3. PICK q :
        /\ Becomes(r, q) /\ Same(q, req[r])
        /\ q.answer \in {"none", "exists", "notfound", "invalid", "failed"}
        /\ q.answer = "exists" =>
             req[r].handler \in Creators /\ inst[req[r].name].live
        /\ q.answer \in {"invalid", "failed"} => Entitled(r)
  BY DEF Quiet
<1>4. Abstract!Answered(r, q.answer)
  BY <1>1, <1>3, CallAnswered
<1>5. callNow[r].answer = "none"
  BY <1>1, CallValue DEF Quiet, RequestsOK, RequestInv
<1>6. CASE q.answer = "none"
  <2>1. callNow' = [callNow EXCEPT ![r].answer = "none"]
    BY <1>4, <1>6 DEF Abstract!Answered
  <2>2. callNow[r] = [callNow[r] EXCEPT !.answer = "none"]
    BY <1>5, CallValue DEF CallOf
  <2>3. callNow' = callNow
    BY <2>1, <2>2, CallValue
  <2> QED
    BY <1>2, <2>3 DEF RStep, Abstract!registryVars
<1>7. CASE q.answer \in {"exists", "notfound", "invalid", "failed"}
  <2>1. req[r].name \in Users
    BY <1>1 DEF RequestsOK, Request
  <2>2. q.answer = "exists" =>
          /\ callNow[r].op = "create"
          /\ registryNow[callNow[r].name] # Abstract!Absent
    BY <1>3, <2>1, CallValue, RegistryValue, EntryPresent DEF Operation,
       Creators, Deleters
  <2>3. q.answer \in {"invalid", "failed"} =>
          callNow[r].user \in Admins \/ callNow[r].user = callNow[r].name
    BY <1>3, CallValue DEF Entitled
  <2>4. Abstract!Refuse(r)
    BY <1>2, <1>4, <1>5, <1>7, <2>2, <2>3 DEF Abstract!Refuse
  <2> QED
    BY <2>4 DEF RStep, Abstract!RegistryNext
<1> QED
  BY <1>3, <1>6, <1>7

LEMMA StoresForMaps ==
  ASSUME ServerInv, NEW r \in Requests, NEW v, StoresFor(r, v), Entitled(r)
  PROVE  \/ Abstract!EntryCreated(callNow[r])
         \/ Abstract!EntryEdited(callNow[r])
<1> DEFINE n == req[r].name
<1>1. RequestsOK /\ ResourcesOK /\ req[r] \in Request /\ n \in Users
  BY InvParts DEF RequestsOK, Request
<1>2. v \in Instance /\ v.live /\ v.owner = n /\ v.cfg \in Configs
  BY DEF StoresFor, NextVersion
<1>3. registryNow' = [registryNow EXCEPT ![n] = EntryOf(v)]
  BY <1>1, <1>2, RegistryStored DEF StoresFor, ResourcesOK
<1>4. CASE /\ req[r].handler \in Creators
           /\ ~inst[n].live /\ v.gen = 0 /\ ~v.del
  <2>1. callNow[r].op = "create" /\ registryNow[n] = Abstract!Absent
    BY <1>1, <1>4, CallValue, RegistryValue DEF Operation, Creators, Deleters
  <2>2. req[r].name = req[r].user
    BY <1>1, <1>4 DEF RequestsOK, RequestInv
  <2>3. v.del = FALSE
    BY <1>2, <1>4 DEF Instance
  <2>4. EntryOf(v) = [owner |-> callNow[r].user, gen |-> 0, cfg |-> v.cfg,
                      closing |-> FALSE]
    BY <1>2, <1>4, <2>2, <2>3, CallValue DEF EntryOf
  <2>5. Abstract!EntryCreated(callNow[r])
    BY <1>2, <1>3, <2>1, <2>2, <2>4, CallValue DEF Abstract!EntryCreated
  <2> QED
    BY <2>5
<1>5. CASE /\ req[r].handler = "PageUpdateInstanceConfig"
           /\ inst[n].live
           /\ v.gen = inst[n].gen + 1 /\ v.del = inst[n].del
  <2>1. callNow[r].op = "edit" /\ registryNow[n] = EntryOf(inst[n])
    BY <1>1, <1>5, CallValue, RegistryValue DEF Operation, Creators, Deleters
  <2>2. inst[n].owner = n
    BY <1>1, <1>5 DEF ResourcesOK, InstanceInv
  <2>3. EntryOf(v) = Abstract!Revised(registryNow[n], registryNow[n].gen + 1,
                                      v.cfg, registryNow[n].closing)
    BY <1>2, <1>5, <2>1, <2>2 DEF EntryOf, Abstract!Revised
  <2>4. Abstract!MayTouch(callNow[r])
    BY <2>1, <2>2, CallValue DEF Abstract!MayTouch, EntryOf, Entitled
  <2>5. registryNow[n] # Abstract!Absent
    BY <2>1, EntryPresent
  <2> HIDE DEF n
  <2>6. callNow[r].name = n
    BY CallValue DEF n
  <2>7. Abstract!EntryEdited(callNow[r])
    BY <1>2, <1>3, <2>1, <2>3, <2>4, <2>5, <2>6 DEF Abstract!EntryEdited
  <2> QED
    BY <2>7
<1> QED
  BY <1>4, <1>5 DEF StoresFor

LEMMA DeletesForMaps ==
  ASSUME ServerInv, NEW r \in Requests, DeletesFor(r), Entitled(r)
  PROVE  Abstract!EntryDeleted(callNow[r])
<1> DEFINE n == req[r].name
           e == Abstract!Revised(registryNow[n], registryNow[n].gen,
                                 registryNow[n].cfg, TRUE)
<1>1. RequestsOK /\ ResourcesOK /\ n \in Users /\ inst[n].live
  BY InvParts DEF RequestsOK, Request, DeletesFor
<1>2. inst[n] \in Instance /\ inst[n].owner = n
  BY <1>1 DEF ResourcesOK, InstanceInv
<1>3. registryNow[n] = EntryOf(inst[n]) /\ registryNow[n] # Abstract!Absent
  BY <1>1, RegistryValue, EntryPresent
<1>4. callNow[r].op = "delete" /\ callNow[r].name = n
  BY CallValue DEF DeletesFor, Operation, Creators, Deleters
<1>5. Abstract!MayTouch(callNow[r])
  BY <1>2, <1>3, <1>4, CallValue DEF Abstract!MayTouch, EntryOf, Entitled
<1>6. e = [owner |-> inst[n].owner, gen |-> inst[n].gen, cfg |-> inst[n].cfg,
           closing |-> TRUE]
  BY <1>3 DEF EntryOf, Abstract!Revised
<1> HIDE DEF e
<1>7. \/ registryNow' = [registryNow EXCEPT ![n] = Abstract!Absent]
      \/ registryNow' = [registryNow EXCEPT ![n] = e]
  <2>1. CASE Stores(n, [inst[n] EXCEPT !.del = TRUE])
    <3> DEFINE v == [inst[n] EXCEPT !.del = TRUE]
    <3>1. v \in Instance /\ v.live
      BY <1>1, <1>2 DEF Instance
    <3>2. /\ v.owner = inst[n].owner /\ v.gen = inst[n].gen
          /\ v.cfg = inst[n].cfg /\ v.del = TRUE
      BY <1>2 DEF Instance
    <3> HIDE DEF v
    <3>3. EntryOf(v) = e
      BY <1>6, <3>2 DEF EntryOf
    <3>4. registryNow' = [registryNow EXCEPT ![n] = EntryOf(v)]
      BY <1>1, <2>1, <3>1, RegistryStored DEF ResourcesOK, v
    <3> QED
      BY <3>3, <3>4
  <2>2. CASE inst[n].del /\ UNCHANGED <<inst, published>>
    <3>1. registryNow' = registryNow
      BY <2>2 DEF registryNow
    <3>2. inst[n].del = TRUE
      BY <1>2, <2>2 DEF Instance
    <3>3. EntryOf(inst[n]) = e
      BY <1>6, <3>2 DEF EntryOf
    <3> QED
      BY <1>3, <3>1, <3>3, RegistryValue
  <2>3. CASE Removes(n)
    BY <1>1, <2>3, RegistryRemoved DEF ResourcesOK
  <2> QED
    BY <2>1, <2>2, <2>3 DEF DeletesFor, Deletion, Removes
<1> HIDE DEF n
<1> QED
  BY <1>3, <1>4, <1>5, <1>7 DEF Abstract!EntryDeleted, e

LEMMA ActsMaps ==
  ASSUME ServerInv, NEW r \in Requests, Acts(r)
  PROVE  RStep
<1>1. RequestsOK
  BY InvParts
<1>2. PICK q : /\ Becomes(r, q) /\ Same(q, req[r])
               /\ q.answer \in {Abstract!Success[callNow[r].op], "failed"}
  BY CallValue DEF Acts
<1>3. Abstract!Answered(r, q.answer)
  BY <1>1, <1>2, CallAnswered
<1>4. callNow[r].answer = "none"
  BY <1>1, CallValue DEF Acts, RequestsOK, RequestInv
<1>5. \/ Abstract!EntryCreated(callNow[r]) \/ Abstract!EntryEdited(callNow[r])
      \/ Abstract!EntryDeleted(callNow[r])
  BY StoresForMaps, DeletesForMaps DEF Acts
<1>6. Abstract!Perform(r)
  BY <1>2, <1>3, <1>4, <1>5 DEF Abstract!Perform
<1> QED
  BY <1>6 DEF RStep, Abstract!RegistryNext

LEMMA OperateMaps ==
  ASSUME ServerInv, NEW n \in Users, Operate(n)
  PROVE  RStep
<1>1. ResourcesOK /\ inst[n].live /\ UNCHANGED req
  BY InvParts DEF Operate, AddFinalizer, Report, RemoveFinalizer
<1>2. inst[n] \in Instance /\ inst \in [Users -> Instance]
  BY <1>1 DEF ResourcesOK
<1>3. callNow' = callNow
  BY <1>1 DEF callNow
<1>4. registryNow[n] = EntryOf(inst[n]) /\ registryNow[n] # Abstract!Absent
  BY <1>1, RegistryValue, EntryPresent
<1>5. ASSUME NEW v \in Instance, v.live, EntryOf(v) = EntryOf(inst[n]),
             Stores(n, v)
      PROVE  RStep
  <2>1. registryNow' = [registryNow EXCEPT ![n] = EntryOf(v)]
    BY <1>2, <1>5, RegistryStored
  <2>2. registryNow' = registryNow
    BY <1>4, <1>5, <2>1, RegistryValue
  <2> QED
    BY <1>3, <2>2 DEF RStep, Abstract!registryVars
<1>6. CASE AddFinalizer(n)
  <2> DEFINE v == [inst[n] EXCEPT !.fin = TRUE]
  <2>1. v \in Instance /\ v.live /\ EntryOf(v) = EntryOf(inst[n])
    BY <1>1, <1>2 DEF Instance, EntryOf
  <2> QED
    BY <1>5, <1>6, <2>1 DEF AddFinalizer
<1>7. CASE Report(n)
  BY <1>1, <1>2, <1>5, <1>7 DEF Report
<1>8. CASE RemoveFinalizer(n)
  <2>1. registryNow[n].closing
    BY <1>4, <1>8 DEF EntryOf, RemoveFinalizer
  <2>2. registryNow' = [registryNow EXCEPT ![n] = Abstract!Absent]
    BY <1>2, <1>8, RegistryRemoved DEF RemoveFinalizer, Removes
  <2>3. Abstract!Remove(n)
    BY <1>3, <1>4, <2>1, <2>2 DEF Abstract!Remove
  <2> QED
    BY <2>3 DEF RStep, Abstract!RegistryNext
<1> QED
  BY <1>6, <1>7, <1>8 DEF Operate

LEMMA RegistryStarts ==
  ASSUME Init
  PROVE  Abstract!RegistryInit
<1>1. ServerInv
  BY InvInit
<1>2. ASSUME NEW n \in Users, inst[n].live
      PROVE  /\ EntryOf(inst[n]) \in Abstract!Entry
             /\ EntryOf(inst[n]).gen = 0 /\ ~EntryOf(inst[n]).closing
  <2>1. inst[n] \in Instance /\ inst[n].cfg \in Configs
    BY <1>1, <1>2 DEF ServerInv, TypeOK
  <2>2. inst[n].gen = 0 /\ ~inst[n].del
    BY <1>2 DEF Init, Founded, Gone
  <2> QED
    BY <2>1, <2>2 DEF EntryOf, Abstract!Entry, Instance
<1>3. registryNow \in
        [Users -> {Abstract!Absent}
                  \cup {e \in Abstract!Entry : e.gen = 0 /\ ~e.closing}]
  BY <1>2, RegistryValue
<1>4. ASSUME NEW r \in Requests
      PROVE  CallOf(req[r]) \in Abstract!Call /\ CallOf(req[r]).answer = "none"
  <2>1. req[r] \in Request
    BY <1>1 DEF ServerInv, TypeOK
  <2>2. req[r].answer = "none"
    <3>1. req[r] \in Arrivals
      BY DEF Init
    <3> QED
      BY <3>1 DEF Arrivals, Arrival
  <2>3. Operation(req[r].handler) \in DOMAIN Abstract!Success
    BY <2>1 DEF Request, Handlers, Operation, Creators, Deleters,
                Abstract!Success
  <2> QED
    BY <2>1, <2>2, <2>3 DEF CallOf, Abstract!Call, Request
<1>5. callNow \in [Requests -> {c \in Abstract!Call : c.answer = "none"}]
  BY <1>4, CallValue
<1> QED
  BY <1>3, <1>5 DEF Abstract!RegistryInit

\* The handlers implement the registry: every request has its effect at once,
\* at most once, and only for who is entitled to it, and answers are true.
THEOREM RegistryCorrect == Spec => ImplementsRegistry
<1>1. Init => Abstract!RegistryInit
  BY RegistryStarts
<1>2. ServerInv /\ [Next]_vars => [Abstract!RegistryNext]_(Abstract!registryVars)
  <2> SUFFICES ASSUME ServerInv, [Next]_vars
               PROVE  RStep
    BY DEF RStep
  <2>1. CASE \E r \in Requests : Handle(r)
    BY <2>1, HandleSteps, QuietMaps, ActsMaps
  <2>2. CASE \E n \in Users : Operate(n)
    BY <2>2, OperateMaps
  <2>3. CASE UNCHANGED vars
    <3>1. registryNow' = registryNow /\ callNow' = callNow
      BY <2>3 DEF vars, registryNow, callNow
    <3> QED
      BY <3>1 DEF RStep, Abstract!registryVars
  <2> QED
    BY <2>1, <2>2, <2>3 DEF Next
<1> QED
  BY <1>1, <1>2, ServerInvariance, PTL
     DEF Spec, ImplementsRegistry, Abstract!RegistrySpec

=============================================================================
