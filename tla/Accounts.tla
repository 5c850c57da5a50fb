------------------------------ MODULE Accounts ------------------------------
(***************************************************************************)
(* How a person gets an account: the OIDC callback of the web server       *)
(* (internal/auth/oidc.go) and resolveUser of the Slack bot                *)
(* (internal/bot/bot.go) on the table "users".  Both look a row up, link   *)
(* it or create one, a statement at a time and without a transaction, in   *)
(* goroutines of their own; only the uniqueness of columns keeps them      *)
(* apart.  Any statement may fail, one that writes also after it took      *)
(* effect.                                                                 *)
(*                                                                         *)
(* Not covered: the state parameter and the session cookie of a login,     *)
(* names, pictures and roles, development logins.                          *)
(***************************************************************************)
EXTENDS Naturals

CONSTANTS
  People,    \* each has one OIDC subject and one Slack id
  Mails,     \* email addresses
  Holder,    \* [Mails -> People]: whose address it is, for ever
  Ids,       \* what gen_random_uuid() may return
  Zero,      \* the id of database.User{}
  NoOne,     \* NULL
  Requests,  \* the logins and Slack requests of a behaviour
  Faults,    \* how many calls may fail in a behaviour
  Moves      \* how many changes of address there may be

ASSUME HolderAssumption == Holder \in [Mails -> People]
ASSUME ZeroAssumption == Zero \notin Ids
ASSUME NoOneAssumption ==
  NoOne \notin People \cup Mails \cup ({"web", "slack"} \X People)
ASSUME BoundsAssumption == Faults \in Nat /\ Moves \in Nat

VARIABLES
  user,   \* [Ids -> Row]: the table "users"
  mail,   \* [Fronts -> [People -> Mails]]: addresses, in OIDC and in Slack
  req,    \* [Requests -> Request]
  faults, \* failures still allowed
  moves   \* changes of address still allowed

vars == <<user, mail, req, faults, moves>>

-----------------------------------------------------------------------------
(* Types *)

Fronts == {"web", "slack"}

\* oidc_subject: the subject of an OIDC token, or "slack:" and a Slack id.
Subjects == Fronts \X People

Row ==
  [mail: Mails \cup {NoOne}, sub: Subjects \cup {NoOne},
   slack: People \cup {NoOne}]

NoUser == [mail |-> NoOne, sub |-> NoOne, slack |-> NoOne]

\* At "known" the request goes on as the user "id", at "failed" its caller is
\* told of an error.
Request ==
  [front: Fronts, who: People,
   pc: {"claims", "subject", "email", "link", "create", "known", "failed"},
   mail: Mails \cup {NoOne},
   id: Ids \cup {Zero}]

TypeOK ==
  /\ user \in [Ids -> Row]
  /\ mail \in [Fronts -> [People -> Mails]]
  /\ req \in [Requests -> Request]
  /\ faults \in Nat /\ moves \in Nat
  /\ \A r \in Requests :
       /\ req[r].pc = "link" => req[r].id \in Ids
       /\ req[r].front = "web" /\ req[r].pc = "known" => req[r].id \in Ids

-----------------------------------------------------------------------------
Arrival(f, p) ==
  [front |-> f, who |-> p, pc |-> "claims", mail |-> NoOne, id |-> Zero]

Init ==
  /\ user = [i \in Ids |-> NoUser]
  /\ \E home \in [People -> Mails] :
       /\ \A p \in People : Holder[home[p]] = p
       /\ mail = [f \in Fronts |-> home]
  /\ req \in [Requests -> {Arrival(f, p) : f \in Fronts, p \in People}]
  /\ faults = Faults
  /\ moves = Moves

-----------------------------------------------------------------------------
(* Statements and replies *)

Goto(r, p) == req' = [req EXCEPT ![r].pc = p]

Known(r, i) == req' = [req EXCEPT ![r].pc = "known", ![r].id = i]

\* A callback that drops the error of UpdateUser as the bot does.
LinkFailsUnseen(r) == Known(r, Zero)

\* The web server reports the error of UpdateUser.  The bot drops it, together
\* with the user it should have returned, and goes on.
LinkFails(r) ==
  IF req[r].front = "web" THEN Goto(r, "failed") ELSE Known(r, Zero)

Fault == faults > 0 /\ faults' = faults - 1

Saves(i, v) == user' = [user EXCEPT ![i] = v]

\* The row i becomes v and the handler goes on as i; or it does not hear of
\* that, or the statement never ran, and what follows is Failure.
Executes(r, i, v, Failure) ==
  \/ Saves(i, v) /\ Known(r, i) /\ UNCHANGED faults
  \/ Saves(i, v) /\ Failure /\ Fault
  \/ Failure /\ Fault /\ UNCHANGED user

\* The subject under which a request's front knows its person.
SubjectOf(r) == <<req[r].front, req[r].who>>

-----------------------------------------------------------------------------
(* The steps of both front ends *)

\* The verified token, or the user's profile in Slack.
GetClaims(r) ==
  /\ req[r].pc = "claims"
  /\ \/ /\ req' = [req EXCEPT
               ![r].mail = mail[req[r].front][req[r].who],
               ![r].pc = IF req[r].front = "web" THEN "subject" ELSE "email"]
        /\ UNCHANGED faults
     \/ Goto(r, "failed") /\ Fault
  /\ UNCHANGED <<user, mail, moves>>

\* A failing look-up counts as "not found".
FindBySubject(r) ==
  /\ req[r].pc = "subject"
  /\ \/ /\ \E i \in Ids : user[i].sub = SubjectOf(r) /\ Known(r, i)
        /\ UNCHANGED faults
     \/ /\ \A i \in Ids : user[i].sub # SubjectOf(r)
        /\ Goto(r, "email") /\ UNCHANGED faults
     \/ Goto(r, "email") /\ Fault
  /\ UNCHANGED <<user, mail, moves>>

\* A front end that knows only who has an account.
FindByEmailOrFail(r) ==
  /\ req[r].pc = "email"
  /\ \/ \E i \in Ids :
          /\ user[i].mail = req[r].mail
          /\ req' = [req EXCEPT ![r].id = i, ![r].pc = "link"]
          /\ UNCHANGED faults
     \/ /\ \A i \in Ids : user[i].mail # req[r].mail
        /\ Goto(r, "failed") /\ UNCHANGED faults
  /\ UNCHANGED <<user, mail, moves>>

\* The bot leaves a row alone that has a Slack id.
FindByEmail(r) ==
  /\ req[r].pc = "email"
  /\ \/ \E i \in Ids :
          /\ user[i].mail = req[r].mail
          /\ IF req[r].front = "slack" /\ user[i].slack # NoOne
               THEN Known(r, i)
               ELSE req' = [req EXCEPT ![r].id = i, ![r].pc = "link"]
          /\ UNCHANGED faults
     \/ /\ \A i \in Ids : user[i].mail # req[r].mail
        /\ Goto(r, "create") /\ UNCHANGED faults
     \/ Goto(r, "create") /\ Fault
  /\ UNCHANGED <<user, mail, moves>>

\* A table without the constraint on oidc_subject.
SubjectTakenNever(r) == FALSE

\* Another row has what must be unique.
SubjectTaken(r) ==
  \E i \in Ids : i # req[r].id /\ user[i].sub = SubjectOf(r)

\* A table without the constraint on email.
MailTakenNever(r) == FALSE

MailTaken(r) == \E i \in Ids : user[i].mail = req[r].mail

-----------------------------------------------------------------------------
LinkSubject(r) ==
  /\ req[r].pc = "link" /\ req[r].front = "web"
  /\ \/ SubjectTaken(r) /\ LinkFails(r) /\ UNCHANGED <<user, faults>>
     \/ /\ ~SubjectTaken(r)
        /\ Executes(r, req[r].id,
                    [user[req[r].id] EXCEPT !.sub = SubjectOf(r)], LinkFails(r))
  /\ UNCHANGED <<mail, moves>>

LinkSlackId(r) ==
  /\ req[r].pc = "link" /\ req[r].front = "slack"
  /\ Executes(r, req[r].id,
              [user[req[r].id] EXCEPT !.slack = req[r].who], LinkFails(r))
  /\ UNCHANGED <<mail, moves>>

CreateUser(r) ==
  /\ req[r].pc = "create"
  /\ \/ /\ MailTaken(r) \/ SubjectTaken(r)
        /\ Goto(r, "failed") /\ UNCHANGED <<user, faults>>
     \/ /\ ~MailTaken(r) /\ ~SubjectTaken(r)
        /\ \E i \in Ids :
             /\ user[i] = NoUser
             /\ Executes(r, i,
                  [mail |-> req[r].mail, sub |-> SubjectOf(r),
                   slack |-> IF req[r].front = "slack" THEN req[r].who
                                                       ELSE NoOne],
                  Goto(r, "failed"))
  /\ UNCHANGED <<mail, moves>>

-----------------------------------------------------------------------------
CallbackHandler(r) ==
  /\ req[r].front = "web"
  /\ \/ GetClaims(r) \/ FindBySubject(r) \/ FindByEmail(r)
     \/ LinkSubject(r) \/ CreateUser(r)

ResolveUser(r) ==
  /\ req[r].front = "slack"
  /\ GetClaims(r) \/ FindByEmail(r) \/ LinkSlackId(r) \/ CreateUser(r)

\* Somebody changes an address of theirs, in one of the two directories.
Move(f, p) ==
  /\ moves > 0 /\ moves' = moves - 1
  /\ \E m \in Mails :
       /\ Holder[m] = p /\ m # mail[f][p]
       /\ mail' = [mail EXCEPT ![f][p] = m]
  /\ UNCHANGED <<user, req, faults>>

Next ==
  \/ \E r \in Requests : CallbackHandler(r) \/ ResolveUser(r)
  \/ \E f \in Fronts, p \in People : Move(f, p)

Spec == Init /\ [][Next]_vars

-----------------------------------------------------------------------------
(* Properties *)

\* Whatever addresses a person uses, whichever look-ups fail and whoever logs
\* in at the same time: all web logins of a person end in the same account.
\* CallbackHandler takes a failed look-up for a first login and goes on to
\* link or create; that this finds no second row rests on the uniqueness of
\* oidc_subject and on no step ever overwriting the subject of an OIDC user.
WebAccountStable ==
  \A r, q \in Requests :
    /\ req[r].front = "web" /\ req[r].pc = "known"
    /\ req[q].front = "web" /\ req[q].pc = "known"
    /\ req[r].who = req[q].who
    => req[r].id = req[q].id

\* As long as nobody changes an address, a person has one account, and web and
\* Slack agree on it: CallbackHandler links the row that resolveUser created
\* and the other way round, also when both run at once.
OneAccount ==
  moves = Moves =>
    /\ \A i, j \in Ids :
         user[i] # NoUser /\ user[j] # NoUser /\ i # j =>
           Holder[user[i].mail] # Holder[user[j].mail]
    /\ \A r, q \in Requests :
         /\ req[r].pc = "known" /\ req[r].id # Zero
         /\ req[q].pc = "known" /\ req[q].id # Zero
         /\ req[r].who = req[q].who
         => req[r].id = req[q].id

\* Without failing calls, nobody is turned away who has no account: the loser
\* of two first logins at once, whose CreateUser or UpdateUser the table
\* rejects, has one when told so and may try again.
TurnedAwayHasAccount ==
  faults = Faults =>
    \A r \in Requests :
      req[r].pc = "failed" =>
        \E i \in Ids : user[i] # NoUser /\ Holder[user[i].mail] = req[r].who

\* docs/usage.md:118: "The bot maps Slack users to Clawbake accounts by email
\* address"; resolveUser in internal/bot/bot.go returns one or an error.
BotMapsToAccount ==
  \A r \in Requests :
    req[r].front = "slack" /\ req[r].pc = "known" =>
      /\ req[r].id \in Ids
      /\ Holder[user[req[r].id].mail] = req[r].who

-----------------------------------------------------------------------------
(* The inductive invariant *)

BudgetInv == faults <= Faults /\ moves <= Moves

MailInv == \A f \in Fronts, p \in People : Holder[mail[f][p]] = p

\* What a row says is about one person, and nothing else says the same.
RowInv(i) ==
  LET u == user[i] IN
  /\ u.mail = NoOne => u = NoUser
  /\ u.mail # NoOne =>
       /\ u.sub \in {<<f, Holder[u.mail]>> : f \in Fronts}
       /\ u.slack \in {NoOne, Holder[u.mail]}

UniqueInv ==
  \A i, j \in Ids :
    i # j /\ user[i].mail # NoOne =>
      user[i].mail # user[j].mail /\ user[i].sub # user[j].sub

\* The row i is one of p.
Owns(i, p) == user[i].mail # NoOne /\ Holder[user[i].mail] = p

\* A request works on the row of its person; one that has logged in has left
\* its subject there.
RequestInv(r) ==
  LET q == req[r] IN
  /\ q.pc \in {"claims", "subject", "email", "create"} => q.id = Zero
  /\ q.pc \in {"subject", "email", "link", "create"} =>
       q.mail # NoOne /\ Holder[q.mail] = q.who
  /\ q.pc = "link" => q.id \in Ids /\ Owns(q.id, q.who)
  /\ q.pc = "known" /\ q.id # Zero => q.id \in Ids /\ Owns(q.id, q.who)
  /\ q.pc = "known" /\ q.front = "web" =>
       q.id # Zero /\ user[q.id].sub = <<"web", q.who>>

\* Before anybody moves, everything has the address of its person.
HomeInv ==
  moves = Moves =>
    /\ \A p \in People : mail["web"][p] = mail["slack"][p]
    /\ \A i \in Ids :
         user[i].mail # NoOne => user[i].mail = mail["web"][Holder[user[i].mail]]
    /\ \A r \in Requests :
         req[r].pc \in {"subject", "email", "link", "create"} =>
           req[r].mail = mail["web"][req[r].who]

AccountsInv ==
  /\ TypeOK /\ BudgetInv /\ MailInv
  /\ \A i \in Ids : RowInv(i)
  /\ UniqueInv
  /\ \A r \in Requests : RequestInv(r)
  /\ HomeInv
  /\ TurnedAwayHasAccount

=============================================================================
