--------------------------- MODULE AccountsProofs ---------------------------
(* Proofs about Accounts, for every set of people, addresses and requests   *)
(* and every number of failures and changes of address.                     *)
EXTENDS Accounts, TLAPS

-----------------------------------------------------------------------------
(* What a step does to the table *)

TableOK ==
  /\ user \in [Ids -> Row]
  /\ \A i \in Ids : RowInv(i)
  /\ UniqueInv

\* Rows stay, with their address; a subject only gives way to that of the
\* person's web login.
Grows ==
  \A i \in Ids : user[i].mail # NoOne =>
    /\ user'[i].mail = user[i].mail
    /\ \/ user'[i].sub = user[i].sub
       \/ user'[i].sub = <<"web", Holder[user[i].mail]>>

\* What the row i may become.
Allowed(i, v) ==
  /\ v \in Row /\ v.mail # NoOne
  /\ v.sub \in {<<f, Holder[v.mail]>> : f \in Fronts}
  /\ v.slack \in {NoOne, Holder[v.mail]}
  /\ \A j \in Ids : j # i => user[j].mail # v.mail /\ user[j].sub # v.sub
  /\ user[i].mail # NoOne =>
       /\ v.mail = user[i].mail
       /\ v.sub = user[i].sub \/ v.sub = <<"web", Holder[v.mail]>>

LEMMA SaveKeeps ==
  ASSUME TableOK, NEW i \in Ids, NEW v, Allowed(i, v), Saves(i, v)
  PROVE  TableOK' /\ Grows
<1>1. /\ user' = [user EXCEPT ![i] = v]
      /\ user \in [Ids -> Row] /\ v \in Row
  BY DEF TableOK, Allowed, Saves
<1>2. /\ user' \in [Ids -> Row] /\ user'[i] = v
      /\ \A j \in Ids : j # i => user'[j] = user[j]
  BY <1>1
<1>3. \A j \in Ids : RowInv(j)'
  <2> SUFFICES ASSUME NEW j \in Ids PROVE RowInv(j)'
    OBVIOUS
  <2>1. CASE j = i
    BY <2>1, <1>2 DEF Allowed, RowInv
  <2>2. CASE j # i
    BY <2>2, <1>2 DEF TableOK, RowInv
  <2> QED BY <2>1, <2>2
<1>4. UniqueInv'
  BY <1>2 DEF UniqueInv, TableOK, Allowed
<1>5. Grows
  BY <1>2 DEF Grows, Allowed
<1> QED BY <1>2, <1>3, <1>4, <1>5 DEF TableOK

LEMMA SameTable ==
  ASSUME TableOK, UNCHANGED user
  PROVE  TableOK' /\ Grows
BY DEF TableOK, Grows, RowInv, UniqueInv

-----------------------------------------------------------------------------
(* What a step does to the requests *)

Busy == {"subject", "email", "link", "create"}

\* All that matters of a step of r.
Handled(r) ==
  /\ TableOK' /\ Grows
  /\ req' \in [Requests -> Request]
  /\ \A q \in Requests : q # r => req'[q] = req[q]
  /\ req'[r].who = req[r].who
  /\ RequestInv(r)'
  /\ UNCHANGED <<mail, moves>>
  /\ faults' \in Nat /\ faults' <= faults
  /\ \A i \in Ids :
       \/ user'[i].mail = user[i].mail
       \/ req[r].pc = "create" /\ user'[i].mail = req[r].mail
  /\ req'[r].pc \in Busy =>
       \/ req[r].pc \in Busy /\ req'[r].mail = req[r].mail
       \/ req'[r].mail = mail[req[r].front][req[r].who]
  /\ req'[r].pc = "failed" /\ faults' = faults =>
       \E i \in Ids : Owns(i, req[r].who)'

LEMMA OthersKeep ==
  ASSUME TableOK, Grows, NEW q \in Requests, RequestInv(q), req'[q] = req[q]
  PROVE  RequestInv(q)'
<1>1. req[q].id \in Ids /\ Owns(req[q].id, req[q].who)
        => Owns(req[q].id, req[q].who)'
  BY DEF Grows, Owns
<1>2. ASSUME req[q].id \in Ids, Owns(req[q].id, req[q].who),
             user[req[q].id].sub = <<"web", req[q].who>>
      PROVE  user'[req[q].id].sub = <<"web", req[q].who>>
  BY <1>2 DEF Grows, Owns
<1> QED BY <1>1, <1>2 DEF RequestInv

\* An unused row is NoUser, a used one is not.
LEMMA UsedRow ==
  ASSUME TableOK, NEW i \in Ids
  PROVE  user[i] = NoUser <=> user[i].mail = NoOne
BY DEF TableOK, RowInv, NoUser

LEMMA HandledKeeps ==
  ASSUME AccountsInv, NEW r \in Requests, Handled(r)
  PROVE  AccountsInv'
<1> USE BoundsAssumption
<1>0. /\ TableOK /\ TypeOK /\ BudgetInv /\ MailInv /\ HomeInv
      /\ TurnedAwayHasAccount
      /\ \A q \in Requests : RequestInv(q)
  BY DEF AccountsInv, TableOK, TypeOK
<1>1. /\ TableOK' /\ Grows
      /\ \A q \in Requests : q # r => req'[q] = req[q]
      /\ mail' = mail /\ moves' = moves
      /\ faults' \in Nat /\ faults' <= faults
      /\ req' \in [Requests -> Request]
      /\ req'[r].who = req[r].who
  BY DEF Handled
<1>2. \A q \in Requests : RequestInv(q)'
  <2> SUFFICES ASSUME NEW q \in Requests PROVE RequestInv(q)'
    OBVIOUS
  <2>1. CASE q = r
    BY <2>1 DEF Handled
  <2>2. CASE q # r
    BY <2>2, <1>0, <1>1, OthersKeep
  <2> QED BY <2>1, <2>2
<1>3. TypeOK'
  <2>1. \A q \in Requests :
          /\ req'[q].pc = "link" => req'[q].id \in Ids
          /\ req'[q].front = "web" /\ req'[q].pc = "known" => req'[q].id \in Ids
    BY <1>2 DEF RequestInv
  <2> QED BY <2>1, <1>0, <1>1 DEF TypeOK, TableOK
<1>4. BudgetInv' /\ MailInv'
  BY <1>0, <1>1 DEF BudgetInv, MailInv, TypeOK
<1>5. HomeInv'
  <2> SUFFICES ASSUME moves = Moves
               PROVE  /\ \A i \in Ids : user'[i].mail # NoOne =>
                           user'[i].mail = mail["web"][Holder[user'[i].mail]]
                      /\ \A q \in Requests : req'[q].pc \in Busy =>
                           req'[q].mail = mail["web"][req'[q].who]
    BY <1>0, <1>1 DEF HomeInv, Busy
  <2>1. /\ \A p \in People : mail["web"][p] = mail["slack"][p]
        /\ \A i \in Ids : user[i].mail # NoOne =>
             user[i].mail = mail["web"][Holder[user[i].mail]]
        /\ \A q \in Requests : req[q].pc \in Busy =>
             req[q].mail = mail["web"][req[q].who]
    BY <1>0 DEF HomeInv, Busy
  <2>2. ASSUME NEW i \in Ids, user'[i].mail # NoOne
        PROVE  user'[i].mail = mail["web"][Holder[user'[i].mail]]
    <3>1. CASE user'[i].mail = user[i].mail
      BY <3>1, <2>1, <2>2
    <3>2. CASE req[r].pc = "create" /\ user'[i].mail = req[r].mail
      <4>1. Holder[req[r].mail] = req[r].who
        BY <3>2, <1>0 DEF RequestInv
      <4>2. req[r].mail = mail["web"][req[r].who]
        BY <3>2, <2>1 DEF Busy
      <4> QED BY <3>2, <4>1, <4>2
    <3> QED BY <3>1, <3>2 DEF Handled
  <2>3. ASSUME NEW q \in Requests, req'[q].pc \in Busy
        PROVE  req'[q].mail = mail["web"][req'[q].who]
    <3>1. CASE q # r
      BY <3>1, <2>1, <2>3, <1>1
    <3>2. CASE q = r
      <4>1. req[r].front \in Fronts /\ req[r].who \in People
        BY <1>0 DEF TypeOK, Request
      <4>2. mail[req[r].front][req[r].who] = mail["web"][req[r].who]
        BY <4>1, <2>1 DEF Fronts
      <4>3. CASE req[r].pc \in Busy /\ req'[r].mail = req[r].mail
        BY <4>3, <3>2, <2>1, <1>1
      <4>4. CASE req'[r].mail = mail[req[r].front][req[r].who]
        BY <4>4, <4>2, <3>2, <1>1
      <4> QED BY <4>3, <4>4, <2>3, <3>2 DEF Handled
    <3> QED BY <3>1, <3>2
  <2> QED BY <2>2, <2>3
<1>6. TurnedAwayHasAccount'
  <2> SUFFICES ASSUME faults' = Faults, NEW q \in Requests, req'[q].pc = "failed"
               PROVE  \E i \in Ids : Owns(i, req[q].who)'
    <3>1. \A i \in Ids : user'[i].mail # NoOne => user'[i] # NoUser
      BY DEF NoUser
    <3> QED BY <3>1 DEF TurnedAwayHasAccount, Owns
  <2>1. faults' = faults /\ faults = Faults
    BY <1>0, <1>1 DEF BudgetInv, TypeOK
  <2>2. CASE q = r
    BY <2>2, <2>1 DEF Handled
  <2>3. CASE q # r
    <3>1. req'[q] = req[q]
      BY <2>3, <1>1
    <3>2. PICK i \in Ids :
            user[i] # NoUser /\ Holder[user[i].mail] = req[q].who
      BY <3>1, <2>1, <1>0 DEF TurnedAwayHasAccount
    <3>3. Owns(i, req[q].who)
      BY <3>2, <1>0, UsedRow DEF Owns
    <3>4. Owns(i, req[q].who)'
      BY <3>1, <3>3, <1>1 DEF Owns, Grows
    <3> QED BY <3>4
  <2> QED BY <2>2, <2>3
<1> QED BY <1>1, <1>2, <1>3, <1>4, <1>5, <1>6 DEF AccountsInv, TableOK

-----------------------------------------------------------------------------
(* The steps of a request *)

\* What a step of r starts from.
LEMMA StepFacts ==
  ASSUME AccountsInv, NEW r \in Requests
  PROVE  /\ TableOK /\ RequestInv(r)
         /\ user \in [Ids -> Row] /\ req \in [Requests -> Request]
         /\ req[r] \in Request
         /\ faults \in Nat
         /\ mail[req[r].front][req[r].who] \in Mails
         /\ Holder[mail[req[r].front][req[r].who]] = req[r].who
<1>1. /\ TableOK /\ RequestInv(r)
      /\ user \in [Ids -> Row] /\ req \in [Requests -> Request]
      /\ faults \in Nat
      /\ mail \in [Fronts -> [People -> Mails]] /\ MailInv
  BY DEF AccountsInv, TableOK, TypeOK
<1>2. req[r] \in Request /\ req[r].front \in Fronts /\ req[r].who \in People
  BY <1>1 DEF Request
<1> QED BY <1>1, <1>2 DEF MailInv

LEMMA FaultFacts ==
  ASSUME faults \in Nat, Fault
  PROVE  faults' \in Nat /\ faults' <= faults /\ faults' # faults
BY DEF Fault

LEMMA ClaimsHandled ==
  ASSUME AccountsInv, NEW r \in Requests, GetClaims(r)
  PROVE  Handled(r)
<1>1. /\ TableOK /\ RequestInv(r)
      /\ req \in [Requests -> Request] /\ req[r] \in Request
      /\ faults \in Nat
      /\ mail[req[r].front][req[r].who] \in Mails
      /\ Holder[mail[req[r].front][req[r].who]] = req[r].who
      /\ NoOne \notin Mails
  BY StepFacts, NoOneAssumption
<1>2. req[r].pc = "claims" /\ req[r].id = Zero /\ UNCHANGED <<user, mail, moves>>
  BY <1>1 DEF GetClaims, RequestInv
<1>3. TableOK' /\ Grows
  BY <1>1, <1>2, SameTable
<1>4. CASE /\ req' = [req EXCEPT
                 ![r].mail = mail[req[r].front][req[r].who],
                 ![r].pc = IF req[r].front = "web" THEN "subject" ELSE "email"]
           /\ UNCHANGED faults
  <2>1. /\ req' \in [Requests -> Request]
        /\ \A q \in Requests : q # r => req'[q] = req[q]
        /\ req'[r].who = req[r].who /\ req'[r].id = Zero
        /\ req'[r].mail = mail[req[r].front][req[r].who]
        /\ req'[r].pc \in {"subject", "email"}
    BY <1>4, <1>1, <1>2 DEF Request
  <2>2. RequestInv(r)'
    BY <2>1, <1>1 DEF RequestInv
  <2> QED BY <2>1, <2>2, <1>1, <1>2, <1>3, <1>4 DEF Handled
<1>5. CASE Goto(r, "failed") /\ Fault
  <2>1. /\ req' \in [Requests -> Request]
        /\ \A q \in Requests : q # r => req'[q] = req[q]
        /\ req'[r].who = req[r].who /\ req'[r].pc = "failed"
    BY <1>5, <1>1 DEF Goto, Request
  <2>2. RequestInv(r)'
    BY <2>1 DEF RequestInv
  <2> QED BY <2>1, <2>2, <1>1, <1>2, <1>3, <1>5, FaultFacts DEF Handled, Busy
<1> QED BY <1>4, <1>5 DEF GetClaims

\* A look-up that finds nothing, or fails, goes on to the next step.
LEMMA LookupMisses ==
  ASSUME AccountsInv, NEW r \in Requests, NEW p \in {"email", "create"},
         req[r].pc \in {"subject", "email"}, Goto(r, p),
         UNCHANGED <<user, mail, moves>>, UNCHANGED faults \/ Fault
  PROVE  Handled(r)
<1>1. /\ TableOK /\ RequestInv(r)
      /\ req \in [Requests -> Request] /\ req[r] \in Request
      /\ faults \in Nat
  BY StepFacts
<1>2. TableOK' /\ Grows
  BY <1>1, SameTable
<1>3. /\ req' \in [Requests -> Request]
      /\ \A q \in Requests : q # r => req'[q] = req[q]
      /\ req'[r] = [req[r] EXCEPT !.pc = p]
  BY <1>1 DEF Goto, Request
<1>4. /\ req'[r].who = req[r].who /\ req'[r].mail = req[r].mail
      /\ req'[r].id = req[r].id /\ req'[r].pc = p
  BY <1>3, <1>1 DEF Request
<1>5. RequestInv(r)'
  BY <1>4, <1>1 DEF RequestInv
<1>6. faults' \in Nat /\ faults' <= faults
  BY <1>1, FaultFacts
<1> QED BY <1>1, <1>2, <1>3, <1>4, <1>5, <1>6 DEF Handled, Busy

\* A look-up that finds the row i.
LEMMA LookupFinds ==
  ASSUME AccountsInv, NEW r \in Requests, NEW i \in Ids,
         req[r].pc \in {"subject", "email"},
         Owns(i, req[r].who),
         UNCHANGED <<user, mail, moves, faults>>,
         \/ Known(r, i) /\ (req[r].front = "web" => user[i].sub = SubjectOf(r))
         \/ req' = [req EXCEPT ![r].id = i, ![r].pc = "link"]
  PROVE  Handled(r)
<1>1. /\ TableOK /\ RequestInv(r)
      /\ req \in [Requests -> Request] /\ req[r] \in Request
      /\ faults \in Nat
  BY StepFacts
<1>2. TableOK' /\ Grows
  BY <1>1, SameTable
<1>3. /\ req' \in [Requests -> Request]
      /\ \A q \in Requests : q # r => req'[q] = req[q]
      /\ req'[r].who = req[r].who /\ req'[r].mail = req[r].mail
      /\ req'[r].front = req[r].front
      /\ req'[r].id = i /\ req'[r].pc \in {"known", "link"}
      /\ req'[r].pc = "known" /\ req[r].front = "web" =>
           user[i].sub = SubjectOf(r)
  BY <1>1 DEF Known, Request
<1>4. i # Zero
  BY ZeroAssumption
<1>5. RequestInv(r)'
  BY <1>4, <1>3, <1>1 DEF RequestInv, Owns, SubjectOf
<1> QED BY <1>1, <1>2, <1>3, <1>5 DEF Handled, Busy

LEMMA SubjectHandled ==
  ASSUME AccountsInv, NEW r \in Requests, FindBySubject(r),
         req[r].front = "web"
  PROVE  Handled(r)
<1>1. TableOK /\ req[r] \in Request /\ user \in [Ids -> Row]
  BY StepFacts
<1>2. req[r].pc = "subject" /\ UNCHANGED <<user, mail, moves>>
  BY DEF FindBySubject
<1>3. CASE Goto(r, "email") /\ (UNCHANGED faults \/ Fault)
  BY <1>2, <1>3, LookupMisses
<1>4. CASE (\E i \in Ids : user[i].sub = SubjectOf(r) /\ Known(r, i))
           /\ UNCHANGED faults
  <2>1. PICK i \in Ids : user[i].sub = SubjectOf(r) /\ Known(r, i)
    BY <1>4
  <2>2. SubjectOf(r) \in {"web", "slack"} \X People
    BY <1>1 DEF SubjectOf, Request, Fronts
  <2>3. user[i].sub # NoOne
    BY <2>1, <2>2, NoOneAssumption
  <2>4. user[i].mail # NoOne
    BY <2>3, <1>1 DEF TableOK, RowInv, NoUser
  <2>5. PICK f \in Fronts : SubjectOf(r) = <<f, Holder[user[i].mail]>>
    BY <2>1, <2>4, <1>1 DEF TableOK, RowInv
  <2>6. Owns(i, req[r].who)
    BY <2>4, <2>5 DEF Owns, SubjectOf
  <2> QED BY <2>1, <2>6, <1>2, <1>4, LookupFinds
<1> QED BY <1>3, <1>4 DEF FindBySubject

LEMMA EmailHandled ==
  ASSUME AccountsInv, NEW r \in Requests, FindByEmail(r)
  PROVE  Handled(r)
<1>1. TableOK /\ req[r] \in Request /\ user \in [Ids -> Row] /\ RequestInv(r)
  BY StepFacts
<1>2. req[r].pc = "email" /\ UNCHANGED <<user, mail, moves>>
  BY DEF FindByEmail
<1>3. CASE Goto(r, "create") /\ (UNCHANGED faults \/ Fault)
  BY <1>2, <1>3, LookupMisses
<1>4. CASE /\ UNCHANGED faults
           /\ \E i \in Ids :
                /\ user[i].mail = req[r].mail
                /\ IF req[r].front = "slack" /\ user[i].slack # NoOne
                     THEN Known(r, i)
                     ELSE req' = [req EXCEPT ![r].id = i, ![r].pc = "link"]
  <2>1. PICK i \in Ids :
          /\ user[i].mail = req[r].mail
          /\ IF req[r].front = "slack" /\ user[i].slack # NoOne
               THEN Known(r, i)
               ELSE req' = [req EXCEPT ![r].id = i, ![r].pc = "link"]
    BY <1>4
  <2>2. Owns(i, req[r].who)
    BY <2>1, <1>1, <1>2 DEF RequestInv, Owns
  <2>3. CASE req[r].front = "slack" /\ Known(r, i)
    BY <2>2, <2>3, <1>2, <1>4, LookupFinds
  <2>4. CASE req' = [req EXCEPT ![r].id = i, ![r].pc = "link"]
    BY <2>2, <2>4, <1>2, <1>4, LookupFinds
  <2> QED BY <2>1, <2>3, <2>4
<1> QED BY <1>3, <1>4 DEF FindByEmail

-----------------------------------------------------------------------------
(* Statements that write *)

\* After the step, the row i is one of r's person.
Keeps(i, r) == user'[i].mail # NoOne /\ Holder[user'[i].mail] = req[r].who

\* The three ways a handler can end, given what became of the table.
LEMMA ReplyHandled ==
  ASSUME AccountsInv, NEW r \in Requests, TableOK', Grows,
         UNCHANGED <<mail, moves>>, UNCHANGED faults \/ Fault,
         \A j \in Ids :
           \/ user'[j].mail = user[j].mail
           \/ req[r].pc = "create" /\ user'[j].mail = req[r].mail,
         \/ \E i \in Ids : /\ Known(r, i) /\ Keeps(i, r)
                           /\ req[r].front = "web" =>
                                user'[i].sub = SubjectOf(r)
         \/ Known(r, Zero) /\ req[r].front = "slack"
         \/ /\ Goto(r, "failed")
            /\ faults' # faults \/ \E i \in Ids : Keeps(i, r)
  PROVE  Handled(r)
<1>1. /\ req \in [Requests -> Request] /\ req[r] \in Request
      /\ faults \in Nat
  BY StepFacts
<1>2. faults' \in Nat /\ faults' <= faults
  BY <1>1, FaultFacts
<1>3. CASE \E i \in Ids : /\ Known(r, i) /\ Keeps(i, r)
                          /\ req[r].front = "web" =>
                               user'[i].sub = SubjectOf(r)
  <2>1. PICK i \in Ids : /\ Known(r, i) /\ Keeps(i, r)
                         /\ req[r].front = "web" =>
                              user'[i].sub = SubjectOf(r)
    BY <1>3
  <2>2. /\ req' \in [Requests -> Request]
        /\ \A q \in Requests : q # r => req'[q] = req[q]
        /\ req'[r].who = req[r].who /\ req'[r].front = req[r].front
        /\ req'[r].id = i /\ req'[r].pc = "known"
    BY <2>1, <1>1 DEF Known, Request
  <2>3. i # Zero
    BY ZeroAssumption
  <2>4. RequestInv(r)'
    BY <2>1, <2>2, <2>3 DEF RequestInv, Owns, Keeps, SubjectOf
  <2> QED BY <2>2, <2>4, <1>2 DEF Handled, Busy
<1>4. CASE Known(r, Zero) /\ req[r].front = "slack"
  <2>1. /\ req' \in [Requests -> Request]
        /\ \A q \in Requests : q # r => req'[q] = req[q]
        /\ req'[r].who = req[r].who /\ req'[r].front = "slack"
        /\ req'[r].id = Zero /\ req'[r].pc = "known"
    BY <1>4, <1>1 DEF Known, Request
  <2>2. RequestInv(r)'
    BY <2>1 DEF RequestInv
  <2> QED BY <2>1, <2>2, <1>2 DEF Handled, Busy
<1>5. CASE /\ Goto(r, "failed")
           /\ faults' # faults \/ \E i \in Ids : Keeps(i, r)
  <2>1. /\ req' \in [Requests -> Request]
        /\ \A q \in Requests : q # r => req'[q] = req[q]
        /\ req'[r].who = req[r].who /\ req'[r].pc = "failed"
    BY <1>5, <1>1 DEF Goto, Request
  <2>2. RequestInv(r)'
    BY <2>1 DEF RequestInv
  <2>3. faults' = faults => \E i \in Ids : Keeps(i, r)
    BY <1>5
  <2> QED BY <2>1, <2>2, <2>3, <1>2 DEF Handled, Busy, Owns, Keeps
<1> QED BY <1>3, <1>4, <1>5

\* A statement is carried out, or it is not.
LEMMA StatementHandled ==
  ASSUME AccountsInv, NEW r \in Requests, NEW i \in Ids, NEW v,
         Allowed(i, v), Holder[v.mail] = req[r].who,
         req[r].front = "web" => v.sub = SubjectOf(r),
         \/ v.mail = user[i].mail
         \/ req[r].pc = "create" /\ v.mail = req[r].mail,
         UNCHANGED <<mail, moves>>,
         \/ Executes(r, i, v, Goto(r, "failed"))
         \/ req[r].front = "slack" /\ Executes(r, i, v, Known(r, Zero))
  PROVE  Handled(r)
<1>1. TableOK /\ user \in [Ids -> Row] /\ faults \in Nat
  BY StepFacts
<1>2. CASE /\ Saves(i, v)
           /\ \/ Known(r, i) /\ UNCHANGED faults
              \/ Goto(r, "failed") /\ Fault
              \/ Known(r, Zero) /\ req[r].front = "slack" /\ Fault
  <2>1. TableOK' /\ Grows
    BY <1>1, <1>2, SaveKeeps
  <2>2. user'[i] = v /\ \A j \in Ids : j # i => user'[j] = user[j]
    BY <1>1, <1>2 DEF Saves
  <2>3. Keeps(i, r)
    BY <2>2 DEF Keeps, Allowed
  <2>4. req[r].front = "web" => user'[i].sub = SubjectOf(r)
    BY <2>2
  <2>5. \A j \in Ids :
          \/ user'[j].mail = user[j].mail
          \/ req[r].pc = "create" /\ user'[j].mail = req[r].mail
    BY <2>2
  <2>6. CASE Known(r, i) /\ UNCHANGED faults
    BY <2>1, <2>3, <2>4, <2>5, <2>6, ReplyHandled
  <2>7. CASE Goto(r, "failed") /\ Fault
    <3>1. faults' # faults
      BY <2>7, <1>1, FaultFacts
    <3> QED BY <3>1, <2>1, <2>5, <2>7, ReplyHandled
  <2>8. CASE Known(r, Zero) /\ req[r].front = "slack" /\ Fault
    BY <2>1, <2>5, <2>8, ReplyHandled
  <2> QED BY <2>6, <2>7, <2>8, <1>2
<1>3. CASE UNCHANGED user /\ Fault
           /\ (Goto(r, "failed") \/ (Known(r, Zero) /\ req[r].front = "slack"))
  <2>1. TableOK' /\ Grows
    BY <1>1, <1>3, SameTable
  <2>2. faults' # faults
    BY <1>1, <1>3, FaultFacts
  <2> QED BY <2>1, <2>2, <1>3, ReplyHandled
<1>4. CASE Executes(r, i, v, Goto(r, "failed"))
  <2>1. \/ Saves(i, v) /\ Known(r, i) /\ UNCHANGED faults
        \/ Saves(i, v) /\ Goto(r, "failed") /\ Fault
        \/ Goto(r, "failed") /\ Fault /\ UNCHANGED user
    BY <1>4 DEF Executes
  <2> QED BY <2>1, <1>2, <1>3
<1>5. CASE req[r].front = "slack" /\ Executes(r, i, v, Known(r, Zero))
  <2>1. \/ Saves(i, v) /\ Known(r, i) /\ UNCHANGED faults
        \/ Saves(i, v) /\ Known(r, Zero) /\ Fault
        \/ Known(r, Zero) /\ Fault /\ UNCHANGED user
    BY <1>5 DEF Executes
  <2> QED BY <2>1, <1>2, <1>3, <1>5
<1> QED BY <1>4, <1>5

LEMMA LinkSubjectHandled ==
  ASSUME AccountsInv, NEW r \in Requests, LinkSubject(r)
  PROVE  Handled(r)
<1>1. /\ TableOK /\ RequestInv(r) /\ user \in [Ids -> Row]
      /\ req[r] \in Request
  BY StepFacts
<1>2. /\ req[r].pc = "link" /\ req[r].front = "web"
      /\ UNCHANGED <<mail, moves>>
  BY DEF LinkSubject
<1>3. req[r].id \in Ids /\ Owns(req[r].id, req[r].who)
  BY <1>1, <1>2 DEF RequestInv
<1>4. CASE SubjectTaken(r) /\ LinkFails(r) /\ UNCHANGED <<user, faults>>
  <2>1. TableOK' /\ Grows
    BY <1>1, <1>4, SameTable
  <2>2. Keeps(req[r].id, r)
    BY <1>3, <1>4 DEF Keeps, Owns
  <2>3. Goto(r, "failed")
    BY <1>2, <1>4 DEF LinkFails
  <2> QED BY <2>1, <2>2, <2>3, <1>2, <1>3, <1>4, ReplyHandled
<1>5. CASE /\ ~SubjectTaken(r)
           /\ Executes(r, req[r].id,
                [user[req[r].id] EXCEPT !.sub = SubjectOf(r)], LinkFails(r))
  <2> DEFINE u == user[req[r].id]
             v == [u EXCEPT !.sub = SubjectOf(r)]
  <2>1. u \in Row /\ SubjectOf(r) = <<"web", req[r].who>>
        /\ SubjectOf(r) \in Subjects
    BY <1>1, <1>2, <1>3 DEF SubjectOf, Request, Subjects
  <2>2. /\ v \in Row /\ v.mail = u.mail /\ v.slack = u.slack
        /\ v.sub = SubjectOf(r)
    BY <2>1 DEF Row
  <2>3. u.mail # NoOne /\ Holder[u.mail] = req[r].who
    BY <1>3 DEF Owns
  <2>4. u.slack \in {NoOne, Holder[u.mail]}
    BY <2>3, <1>1, <1>3 DEF TableOK, RowInv
  <2>5. \A j \in Ids : j # req[r].id =>
          user[j].mail # v.mail /\ user[j].sub # v.sub
    BY <2>2, <2>3, <1>1, <1>3, <1>5 DEF SubjectTaken, TableOK, UniqueInv
  <2>6. Allowed(req[r].id, v)
    BY <2>1, <2>2, <2>3, <2>4, <2>5 DEF Allowed, Fronts
  <2>7. Executes(r, req[r].id, v, Goto(r, "failed"))
    BY <1>5, <1>2 DEF LinkFails, Executes
  <2> HIDE DEF v
  <2> QED BY <2>2, <2>3, <2>6, <2>7, <1>2, <1>3, StatementHandled
<1> QED BY <1>4, <1>5 DEF LinkSubject

LEMMA LinkSlackHandled ==
  ASSUME AccountsInv, NEW r \in Requests, LinkSlackId(r)
  PROVE  Handled(r)
<1>1. /\ TableOK /\ RequestInv(r) /\ user \in [Ids -> Row]
      /\ req[r] \in Request
  BY StepFacts
<1>2. /\ req[r].pc = "link" /\ req[r].front = "slack"
      /\ UNCHANGED <<mail, moves>>
  BY DEF LinkSlackId
<1>3. req[r].id \in Ids /\ Owns(req[r].id, req[r].who)
  BY <1>1, <1>2 DEF RequestInv
<1> DEFINE u == user[req[r].id]
           v == [u EXCEPT !.slack = req[r].who]
<1>4. u \in Row /\ req[r].who \in People
  BY <1>1, <1>3 DEF Request
<1>5. /\ v \in Row /\ v.mail = u.mail /\ v.slack = req[r].who
      /\ v.sub = u.sub
  BY <1>4 DEF Row
<1>6. u.mail # NoOne /\ Holder[u.mail] = req[r].who
  BY <1>3 DEF Owns
<1>7. u.sub \in {<<f, Holder[u.mail]>> : f \in Fronts}
  BY <1>6, <1>1, <1>3 DEF TableOK, RowInv
<1>8. \A j \in Ids : j # req[r].id =>
        user[j].mail # v.mail /\ user[j].sub # v.sub
  BY <1>5, <1>6, <1>1, <1>3 DEF TableOK, UniqueInv
<1>9. Allowed(req[r].id, v)
  BY <1>5, <1>6, <1>7, <1>8 DEF Allowed
<1>10. Executes(r, req[r].id, v, Known(r, Zero))
  BY <1>2 DEF LinkSlackId, LinkFails, Executes
<1> HIDE DEF v
<1> QED BY <1>2, <1>3, <1>5, <1>6, <1>9, <1>10, StatementHandled

LEMMA CreateHandled ==
  ASSUME AccountsInv, NEW r \in Requests, CreateUser(r)
  PROVE  Handled(r)
<1>1. /\ TableOK /\ RequestInv(r) /\ user \in [Ids -> Row]
      /\ req[r] \in Request
  BY StepFacts
<1>2. /\ req[r].pc = "create" /\ req[r].id = Zero
      /\ req[r].mail # NoOne /\ Holder[req[r].mail] = req[r].who
      /\ UNCHANGED <<mail, moves>>
  BY <1>1 DEF CreateUser, RequestInv
<1>3. SubjectOf(r) \in Subjects /\ SubjectOf(r) # NoOne
  BY <1>1, NoOneAssumption DEF SubjectOf, Request, Subjects, Fronts
<1>4. CASE /\ MailTaken(r) \/ SubjectTaken(r)
           /\ Goto(r, "failed") /\ UNCHANGED <<user, faults>>
  <2>1. TableOK' /\ Grows
    BY <1>1, <1>4, SameTable
  <2>2. \E i \in Ids : Keeps(i, r)
    <3>1. CASE MailTaken(r)
      BY <3>1, <1>2, <1>4 DEF MailTaken, Keeps
    <3>2. CASE SubjectTaken(r)
      <4>1. PICK i \in Ids : user[i].sub = SubjectOf(r)
        BY <3>2 DEF SubjectTaken
      <4>2. user[i].mail # NoOne
        BY <4>1, <1>1, <1>3 DEF TableOK, RowInv, NoUser
      <4>3. PICK f \in Fronts : SubjectOf(r) = <<f, Holder[user[i].mail]>>
        BY <4>1, <4>2, <1>1 DEF TableOK, RowInv
      <4> QED BY <4>2, <4>3, <1>4 DEF Keeps, SubjectOf
    <3> QED BY <3>1, <3>2, <1>4
  <2> QED BY <2>1, <2>2, <1>2, <1>4, ReplyHandled
<1>5. CASE /\ ~MailTaken(r) /\ ~SubjectTaken(r)
           /\ \E i \in Ids :
                /\ user[i] = NoUser
                /\ Executes(r, i,
                     [mail |-> req[r].mail, sub |-> SubjectOf(r),
                      slack |-> IF req[r].front = "slack" THEN req[r].who
                                                          ELSE NoOne],
                     Goto(r, "failed"))
  <2> DEFINE v == [mail |-> req[r].mail, sub |-> SubjectOf(r),
                   slack |-> IF req[r].front = "slack" THEN req[r].who
                                                       ELSE NoOne]
  <2>1. PICK i \in Ids :
          user[i] = NoUser /\ Executes(r, i, v, Goto(r, "failed"))
    BY <1>5
  <2>2. /\ v \in Row /\ v.mail = req[r].mail /\ v.sub = SubjectOf(r)
        /\ v.slack \in {NoOne, req[r].who}
    BY <1>1, <1>2, <1>3 DEF Row, Request
  <2>3. v.sub \in {<<f, Holder[v.mail]>> : f \in Fronts}
    BY <2>2, <1>1, <1>2 DEF SubjectOf, Request
  <2>4. \A j \in Ids : user[j].mail # v.mail /\ user[j].sub # v.sub
    BY <2>2, <1>2, <1>5, ZeroAssumption DEF MailTaken, SubjectTaken
  <2>5. user[i].mail = NoOne
    BY <2>1 DEF NoUser
  <2>6. Allowed(i, v)
    BY <2>2, <2>3, <2>4, <2>5, <1>2 DEF Allowed
  <2> HIDE DEF v
  <2> QED BY <2>1, <2>2, <2>6, <1>2, StatementHandled
<1> QED BY <1>4, <1>5 DEF CreateUser

-----------------------------------------------------------------------------
(* The invariant *)

LEMMA AccountsInvInit == Init => AccountsInv
<1> USE BoundsAssumption
<1> SUFFICES ASSUME Init PROVE AccountsInv
  OBVIOUS
<1>1. PICK home \in [People -> Mails] :
        /\ \A p \in People : Holder[home[p]] = p
        /\ mail = [f \in Fronts |-> home]
  BY DEF Init
<1>2. /\ user \in [Ids -> Row] /\ \A i \in Ids : user[i] = NoUser
      /\ faults = Faults /\ moves = Moves
  BY DEF Init, NoUser, Row
<1>3. \A r \in Requests :
        /\ req[r] \in Request /\ req[r].pc = "claims" /\ req[r].id = Zero
  BY DEF Init, Arrival, Request
<1>4. req \in [Requests -> Request]
  BY <1>3 DEF Init
<1>5. TypeOK
  BY <1>1, <1>2, <1>3, <1>4 DEF TypeOK
<1>6. BudgetInv /\ MailInv
  BY <1>1, <1>2 DEF BudgetInv, MailInv
<1>7. \A i \in Ids : RowInv(i)
  BY <1>2 DEF RowInv, NoUser
<1>8. UniqueInv
  BY <1>2 DEF UniqueInv, NoUser
<1>9. \A r \in Requests : RequestInv(r)
  BY <1>3 DEF RequestInv
<1>10. HomeInv
  BY <1>1, <1>2, <1>3 DEF HomeInv, NoUser, Fronts
<1>11. TurnedAwayHasAccount
  BY <1>3 DEF TurnedAwayHasAccount
<1> QED BY <1>5, <1>6, <1>7, <1>8, <1>9, <1>10, <1>11 DEF AccountsInv

LEMMA MoveKeeps ==
  ASSUME AccountsInv, NEW f \in Fronts, NEW p \in People, Move(f, p)
  PROVE  AccountsInv'
<1> USE BoundsAssumption
<1>1. /\ moves > 0 /\ moves' = moves - 1
      /\ UNCHANGED <<user, req, faults>>
  BY DEF Move
<1>2. PICK m \in Mails :
        Holder[m] = p /\ mail' = [mail EXCEPT ![f][p] = m]
  BY DEF Move
<1>3. /\ TypeOK /\ BudgetInv /\ MailInv /\ UniqueInv /\ TurnedAwayHasAccount
      /\ \A i \in Ids : RowInv(i)
      /\ \A r \in Requests : RequestInv(r)
  BY DEF AccountsInv
<1>4. mail' \in [Fronts -> [People -> Mails]]
  BY <1>2, <1>3 DEF TypeOK
<1>5. moves' \in Nat /\ moves' < Moves
  BY <1>1, <1>3 DEF TypeOK, BudgetInv
<1>6. TypeOK'
  BY <1>1, <1>3, <1>4, <1>5 DEF TypeOK
<1>7. BudgetInv'
  BY <1>1, <1>3, <1>5 DEF BudgetInv
<1>8. MailInv'
  BY <1>2, <1>3 DEF MailInv, TypeOK
<1>9. HomeInv'
  BY <1>5 DEF HomeInv
<1>10. /\ UniqueInv' /\ TurnedAwayHasAccount'
       /\ \A i \in Ids : RowInv(i)'
       /\ \A r \in Requests : RequestInv(r)'
  BY <1>1, <1>3 DEF UniqueInv, TurnedAwayHasAccount, RowInv, RequestInv, Owns
<1> QED BY <1>6, <1>7, <1>8, <1>9, <1>10 DEF AccountsInv

LEMMA AccountsInvStep == AccountsInv /\ [Next]_vars => AccountsInv'
<1> SUFFICES ASSUME AccountsInv, [Next]_vars PROVE AccountsInv'
  OBVIOUS
<1>1. ASSUME NEW r \in Requests, CallbackHandler(r) PROVE AccountsInv'
  <2>1. Handled(r)
    BY <1>1, ClaimsHandled, SubjectHandled, EmailHandled, LinkSubjectHandled,
       CreateHandled DEF CallbackHandler
  <2> QED BY <2>1, HandledKeeps
<1>2. ASSUME NEW r \in Requests, ResolveUser(r) PROVE AccountsInv'
  <2>1. Handled(r)
    BY <1>2, ClaimsHandled, EmailHandled, LinkSlackHandled, CreateHandled
       DEF ResolveUser
  <2> QED BY <2>1, HandledKeeps
<1>3. ASSUME NEW f \in Fronts, NEW p \in People, Move(f, p) PROVE AccountsInv'
  BY <1>3, MoveKeeps
<1>4. CASE UNCHANGED vars
  BY <1>4 DEF vars, AccountsInv, TypeOK, BudgetInv, MailInv, RowInv, UniqueInv,
              RequestInv, Owns, HomeInv, TurnedAwayHasAccount
<1> QED BY <1>1, <1>2, <1>3, <1>4 DEF Next

\* AccountsInv holds in every behaviour of CallbackHandler, resolveUser and
\* people who change their addresses.
THEOREM AccountsInvariance == Spec => []AccountsInv
BY AccountsInvInit, AccountsInvStep, PTL DEF Spec

\* Every variable of Accounts keeps its range; in particular a login of the
\* web server that succeeds has an account.
THEOREM AccountsTypeCorrect == Spec => []TypeOK
<1>1. AccountsInv => TypeOK
  BY DEF AccountsInv
<1> QED BY <1>1, AccountsInvariance, PTL

\* All web logins of a person end in the same account, whatever fails and
\* whichever addresses they use.
THEOREM WebAccountCorrect == Spec => []WebAccountStable
<1>1. ASSUME AccountsInv PROVE WebAccountStable
  <2> SUFFICES ASSUME NEW r \in Requests, NEW q \in Requests,
                      req[r].front = "web", req[r].pc = "known",
                      req[q].front = "web", req[q].pc = "known",
                      req[r].who = req[q].who
               PROVE  req[r].id = req[q].id
    BY DEF WebAccountStable
  <2>1. /\ req[r].id \in Ids /\ Owns(req[r].id, req[r].who)
        /\ req[q].id \in Ids
        /\ user[req[r].id].sub = <<"web", req[r].who>>
        /\ user[req[q].id].sub = <<"web", req[r].who>>
    BY <1>1 DEF AccountsInv, RequestInv
  <2> QED BY <2>1, <1>1 DEF AccountsInv, UniqueInv, Owns
<1> QED BY <1>1, AccountsInvariance, PTL

\* While nobody changes an address, a person has one account, and the web
\* server and the bot agree on it.
THEOREM OneAccountCorrect == Spec => []OneAccount
<1>1. ASSUME AccountsInv PROVE OneAccount
  <2> SUFFICES ASSUME moves = Moves
               PROVE  /\ \A i, j \in Ids :
                           user[i] # NoUser /\ user[j] # NoUser /\ i # j =>
                             Holder[user[i].mail] # Holder[user[j].mail]
                      /\ \A r, q \in Requests :
                           /\ req[r].pc = "known" /\ req[r].id # Zero
                           /\ req[q].pc = "known" /\ req[q].id # Zero
                           /\ req[r].who = req[q].who
                           => req[r].id = req[q].id
    BY DEF OneAccount
  <2>1. \A i \in Ids : user[i].mail # NoOne =>
          user[i].mail = mail["web"][Holder[user[i].mail]]
    BY <1>1 DEF AccountsInv, HomeInv
  <2>2. \A i \in Ids : user[i] # NoUser => user[i].mail # NoOne
    BY <1>1 DEF AccountsInv, RowInv
  <2>3. \A i, j \in Ids :
          user[i].mail # NoOne /\ user[j].mail # NoOne /\ i # j =>
            Holder[user[i].mail] # Holder[user[j].mail]
    BY <2>1, <1>1 DEF AccountsInv, UniqueInv
  <2>4. ASSUME NEW r \in Requests, NEW q \in Requests,
               req[r].pc = "known", req[r].id # Zero,
               req[q].pc = "known", req[q].id # Zero,
               req[r].who = req[q].who
        PROVE  req[r].id = req[q].id
    <3>1. /\ req[r].id \in Ids /\ Owns(req[r].id, req[r].who)
          /\ req[q].id \in Ids /\ Owns(req[q].id, req[r].who)
      BY <2>4, <1>1 DEF AccountsInv, RequestInv
    <3> QED BY <3>1, <2>3 DEF Owns
  <2> QED BY <2>2, <2>3, <2>4
<1> QED BY <1>1, AccountsInvariance, PTL

\* Without failing calls, nobody is turned away who has no account.
THEOREM TurnedAwayCorrect == Spec => []TurnedAwayHasAccount
<1>1. AccountsInv => TurnedAwayHasAccount
  BY DEF AccountsInv
<1> QED BY <1>1, AccountsInvariance, PTL

-----------------------------------------------------------------------------
(* When the bot does map users to accounts *)

\* The zero user only comes of a call that failed.
LinkedInv ==
  \A r \in Requests : req[r].pc = "known" /\ req[r].id = Zero => faults # Faults

\* What a step of r tells of the user it found.
Finds(r) == req'[r].pc = "known" /\ req'[r].id = Zero => faults' # faults

LEMMA KnownFinds ==
  ASSUME NEW r \in Requests, req \in [Requests -> Request], NEW i \in Ids, Known(r, i)
  PROVE  Finds(r)
<1>1. req'[r].id = i
  BY DEF Known, Request
<1> QED BY <1>1, ZeroAssumption DEF Finds

LEMMA ElsewhereFinds ==
  ASSUME NEW r \in Requests, req \in [Requests -> Request], NEW p,
         p # "known", Goto(r, p)
  PROVE  Finds(r)
<1>1. req'[r].pc = p
  BY DEF Goto, Request
<1> QED BY <1>1 DEF Finds

LEMMA ExecutesFinds ==
  ASSUME AccountsInv, NEW r \in Requests, NEW i \in Ids, NEW v,
         \/ Executes(r, i, v, Goto(r, "failed"))
         \/ Executes(r, i, v, LinkFails(r))
  PROVE  Finds(r)
<1>1. req \in [Requests -> Request] /\ faults \in Nat
  BY StepFacts
<1>2. (Known(r, i) /\ UNCHANGED faults) \/ Fault
  BY DEF Executes
<1> QED BY <1>1, <1>2, KnownFinds, FaultFacts DEF Finds

LEMMA StepFinds ==
  ASSUME AccountsInv, NEW r \in Requests, CallbackHandler(r) \/ ResolveUser(r)
  PROVE  Finds(r)
<1>1. req \in [Requests -> Request] /\ req[r] \in Request /\ RequestInv(r) /\ faults \in Nat
  BY StepFacts
<1>2. ASSUME GetClaims(r) PROVE Finds(r)
  <2>1. CASE req' = [req EXCEPT
               ![r].mail = mail[req[r].front][req[r].who],
               ![r].pc = IF req[r].front = "web" THEN "subject" ELSE "email"]
    <3>1. req'[r].pc \in {"subject", "email"}
      BY <1>1, <2>1 DEF Request
    <3> QED BY <3>1 DEF Finds
  <2>2. CASE Goto(r, "failed")
    BY <1>1, <2>2, ElsewhereFinds
  <2> QED BY <1>2, <2>1, <2>2 DEF GetClaims
<1>3. ASSUME FindBySubject(r) PROVE Finds(r)
  BY <1>1, <1>3, KnownFinds, ElsewhereFinds DEF FindBySubject
<1>4. ASSUME FindByEmail(r) PROVE Finds(r)
  <2>1. ASSUME NEW i \in Ids, req' = [req EXCEPT ![r].id = i, ![r].pc = "link"]
        PROVE  Finds(r)
    <3>1. req'[r].pc = "link"
      BY <1>1, <2>1 DEF Request
    <3> QED BY <3>1 DEF Finds
  <2>2. CASE Goto(r, "create")
    BY <1>1, <2>2, ElsewhereFinds
  <2>3. CASE \E i \in Ids :
               Known(r, i) \/ req' = [req EXCEPT ![r].id = i, ![r].pc = "link"]
    BY <1>1, <2>1, <2>3, KnownFinds
  <2> QED BY <1>4, <2>2, <2>3 DEF FindByEmail
<1>5. ASSUME LinkSubject(r) PROVE Finds(r)
  <2>1. req[r].front = "web" /\ req[r].id \in Ids
    BY <1>1, <1>5 DEF LinkSubject, RequestInv
  <2>2. LinkFails(r) => Goto(r, "failed")
    BY <2>1 DEF LinkFails
  <2> QED BY <1>1, <1>5, <2>1, <2>2, ElsewhereFinds, ExecutesFinds DEF LinkSubject
<1>6. ASSUME LinkSlackId(r) PROVE Finds(r)
  <2>1. req[r].id \in Ids
    BY <1>1, <1>6 DEF LinkSlackId, RequestInv
  <2> QED BY <1>6, <2>1, ExecutesFinds DEF LinkSlackId
<1>7. ASSUME CreateUser(r) PROVE Finds(r)
  BY <1>1, <1>7, ElsewhereFinds, ExecutesFinds DEF CreateUser
<1> QED BY <1>2, <1>3, <1>4, <1>5, <1>6, <1>7 DEF CallbackHandler, ResolveUser

LEMMA LinkedKeeps ==
  ASSUME AccountsInv, LinkedInv, [Next]_vars
  PROVE  LinkedInv'
<1> USE BoundsAssumption
<1>1. ASSUME NEW r \in Requests, CallbackHandler(r) \/ ResolveUser(r) PROVE LinkedInv'
  <2>1. Handled(r)
    BY <1>1, ClaimsHandled, SubjectHandled, EmailHandled, LinkSubjectHandled,
       LinkSlackHandled, CreateHandled DEF CallbackHandler, ResolveUser
  <2>2. /\ faults' \in Nat /\ faults' <= faults /\ faults \in Nat /\ faults <= Faults
        /\ \A q \in Requests : q # r => req'[q] = req[q]
    BY <2>1 DEF Handled, AccountsInv, BudgetInv, TypeOK
  <2>3. Finds(r)
    BY <1>1, StepFinds
  <2>4. faults' = Faults => faults' = faults /\ faults = Faults
    BY <2>2
  <2> QED BY <2>2, <2>3, <2>4 DEF LinkedInv, Finds
<1>2. ASSUME NEW f \in Fronts, NEW p \in People, Move(f, p) PROVE LinkedInv'
  BY <1>2 DEF Move, LinkedInv
<1>3. CASE UNCHANGED vars
  BY <1>3 DEF vars, LinkedInv
<1> QED BY <1>1, <1>2, <1>3 DEF Next

\* The documentation's "the bot maps Slack users to accounts" holds as long as no
\* call fails, whatever addresses people use and whichever requests run at once: the
\* dropped error of resolveUser is the only way to the zero user, and no way leads to
\* an account of somebody else.
THEOREM BotMapsWithoutFailures == Spec => [](faults = Faults => BotMapsToAccount)
<1>1. Init => LinkedInv
  BY DEF Init, LinkedInv, Arrival
<1>2. AccountsInv /\ LinkedInv => (faults = Faults => BotMapsToAccount)
  <2> SUFFICES ASSUME AccountsInv, LinkedInv, faults = Faults, NEW r \in Requests,
                      req[r].front = "slack", req[r].pc = "known"
               PROVE  /\ req[r].id \in Ids
                      /\ Holder[user[req[r].id].mail] = req[r].who
    BY DEF BotMapsToAccount
  <2>1. req[r].id # Zero /\ RequestInv(r)
    BY DEF LinkedInv, AccountsInv
  <2> QED BY <2>1 DEF RequestInv, Owns
<1> QED BY <1>1, <1>2, LinkedKeeps, AccountsInvariance, PTL DEF Spec

=============================================================================
