------------------------------ MODULE Messages ------------------------------
(***************************************************************************)
(* What the server does after it has answered 200: messages from Slack     *)
(* that are forwarded to the user's instance (internal/bot/events.go,      *)
(* bot.go, behind verify.go), and the notice to a user whose instance is   *)
(* ready (internal/handler/notification.go).  Each is a goroutine of its   *)
(* own with one deadline, 30 s or 10 s, for all the calls it makes.        *)
(*                                                                         *)
(* A call whose context has expired fails at once; until then it may take  *)
(* any time.  The HTTP client's own 120 s never run out before the 30 s.   *)
(* A statement needs a connection of the pool, and holds it until it has   *)
(* an answer or has failed.                                                *)
(* What a call finds, the phase of the instance too, is read once and is   *)
(* free here: anybody may have changed it since.                           *)
(***************************************************************************)
EXTENDS ServerProcess

CONSTANTS
  Events,    \* the deliveries of Slack's Events API
  Notices    \* the operator's notifications

ASSUME KindsAssumption == Events \cap Notices = {}

Jobs == Events \cup Notices

VARIABLE job   \* [Jobs -> Job]: the deliveries, and the goroutines they start

\* A request that may arrive at /slack/events: with both headers, how old, with
\* the right signature; then the type of the event and whether a bot wrote it.
Delivery ==
  [headers: BOOLEAN, age: {0, 300, 301}, signed: BOOLEAN,
   type: {"malformed", "challenge", "mention", "message", "other"},
   bot: BOOLEAN]

\* "conn" says that a statement holds a connection of the pool, "text" is what is
\* to be posted (any of the messages that say why there is no reply is a "failure"),
\* "posted" what Slack has taken; "late" says that the context has expired, "cause"
\* why a goroutine gave up without a message.
Job ==
  [pc: {"none", "ignored", "resolve", "mail", "link", "create", "find", "forward",
        "waiting", "lookup", "post", "done"},
   conn: BOOLEAN,
   text: {"none", "failure", "reply", "ready"},
   posted: SUBSET {"failure", "reply", "ready"},
   late: BOOLEAN,
   cause: {"none", "slack", "nobody", "database"}]

NoJob == [pc |-> "none", conn |-> FALSE, text |-> "none", posted |-> {},
          late |-> FALSE, cause |-> "none"]

MessagesInit == job = [j \in Jobs |-> NoJob]

Working(j) == job[j].pc \notin {"none", "ignored", "done"}

\* A call that returns has given its connection back.
Goto(j, p) == job' = [job EXCEPT ![j].pc = p, ![j].conn = FALSE]

Says(j, t) == job' = [job EXCEPT ![j].pc = "post", ![j].conn = FALSE, ![j].text = t]

GivesUp(j, why) ==
  job' = [job EXCEPT ![j].pc = "done", ![j].conn = FALSE, ![j].text = "none",
                     ![j].cause = why]

Delivers(j) ==
  job' = [job EXCEPT ![j].pc = "done", ![j].text = "none", ![j].posted = {job[j].text}]

InTime(j) == Alive /\ ~job[j].late

-----------------------------------------------------------------------------
(* Arrivals *)

Verified(d) == d.headers /\ d.age <= 300 /\ d.signed

\* A bot is recognised in a message only, not in a mention.
Wanted(d) == d.type = "mention" \/ (d.type = "message" /\ ~d.bot)

\* 200 before the work is done; 401 and 400, and what is answered without work,
\* end here.
HandleEvents(e) ==
  /\ Listening /\ job[e].pc = "none"
  /\ \E d \in Delivery :
       Goto(e, IF Verified(d) /\ Wanted(d) THEN "resolve" ELSE "ignored")
  /\ UNCHANGED process

\* Without a bot, or with a body that names no user, there is nothing to do.
NotifyInstanceReady(n) ==
  /\ Listening /\ job[n].pc = "none"
  /\ \E understood \in BOOLEAN :
       Goto(n, IF understood THEN "lookup" ELSE "ignored")
  /\ UNCHANGED process

Receives(j) ==
  \/ j \in Events /\ HandleEvents(j)
  \/ j \in Notices /\ NotifyInstanceReady(j)

-----------------------------------------------------------------------------
(* Statements *)

Querying(j) == job[j].pc \in {"mail", "link", "create", "lookup"}

\* The pool hands out a connection until it is closed; a statement that gets none
\* fails.
Acquire(j) ==
  /\ Querying(j) /\ ~job[j].conn /\ InTime(j) /\ PoolOpen
  /\ job' = [job EXCEPT ![j].conn = TRUE]
  /\ UNCHANGED process

Answers(j) == InTime(j) /\ job[j].conn

\* What pool.Close waits for.
Held == \E j \in Jobs : job[j].conn

-----------------------------------------------------------------------------
(* handleMessage *)

\* Slack says who the user is, with an address or without.
Resolve(j) ==
  /\ Alive /\ job[j].pc = "resolve"
  /\ \/ InTime(j) /\ Goto(j, "mail")
     \/ Says(j, "failure")

\* Mutant: a statement without the context, it waits for the database as long as
\* it takes.
FindByEmailUnbounded(j) ==
  /\ job[j].pc = "mail" /\ Answers(j)
  /\ \E p \in {"find", "link", "create"} : Goto(j, p)

\* There is such a user, who is linked or not; no row and a failure look alike.
FindByEmail(j) ==
  /\ Alive /\ job[j].pc = "mail"
  /\ \/ Answers(j) /\ \E p \in {"find", "link"} : Goto(j, p)
     \/ Goto(j, "create")

\* Whether the link is stored is not looked at.
Link(j) == Alive /\ job[j].pc = "link" /\ Goto(j, "find")

CreateUser(j) ==
  /\ Alive /\ job[j].pc = "create"
  /\ \/ Answers(j) /\ Goto(j, "find")
     \/ Says(j, "failure")

\* Mutant: a handler that ends silently when it finds no instance.
FindSilently(j) ==
  /\ Alive /\ job[j].pc = "find"
  /\ \/ InTime(j) /\ (Goto(j, "forward") \/ Says(j, "failure"))
     \/ Goto(j, "done")

\* The instance is Running or not, or there is none; a failing List is taken for
\* the last.
Find(j) ==
  /\ Alive /\ job[j].pc = "find"
  /\ \/ InTime(j) /\ (Goto(j, "forward") \/ Says(j, "failure"))
     \/ Says(j, "failure")

\* The request reaches the pod, or the connection fails.
Forward(j) ==
  /\ Alive /\ job[j].pc = "forward"
  /\ \/ InTime(j) /\ Goto(j, "waiting")
     \/ Says(j, "failure")

\* The instance answers, for better or worse, or the context expires.
Hear(j) ==
  /\ Alive /\ job[j].pc = "waiting"
  /\ \/ InTime(j) /\ Says(j, "reply")
     \/ Says(j, "failure")

-----------------------------------------------------------------------------
(* Bot.NotifyInstanceReady *)

\* The name may be no user's id, which is seen before anything is asked.  The user
\* may be gone, or not be a Slack user.  Or the statement fails, and nobody hears
\* of it.
LookUp(j) ==
  /\ Alive /\ job[j].pc = "lookup"
  /\ \/ Answers(j) /\ Says(j, "ready")
     \/ (Answers(j) \/ ~job[j].conn) /\ GivesUp(j, "nobody")
     \/ GivesUp(j, "database")

-----------------------------------------------------------------------------
(* The end of either *)

\* Mutant: a post without the context, it waits for Slack as long as it takes.
PostUnbounded(j) ==
  InTime(j) /\ job[j].pc = "post" /\ (Delivers(j) \/ GivesUp(j, "slack"))

\* chat.postMessage, its error ignored.
Post(j) ==
  /\ Alive /\ job[j].pc = "post"
  /\ \/ InTime(j) /\ (Delivers(j) \/ GivesUp(j, "slack"))
     \/ job[j].late /\ GivesUp(j, "none")

\* The goroutine's context expires.
Expire(j) ==
  /\ InTime(j) /\ Working(j)
  /\ job' = [job EXCEPT ![j].late = TRUE]
  /\ UNCHANGED process

Proceed(j) ==
  /\ \/ Resolve(j) \/ FindByEmail(j) \/ Link(j) \/ CreateUser(j)
     \/ Find(j) \/ Forward(j) \/ Hear(j) \/ LookUp(j) \/ Post(j)
  /\ UNCHANGED process

\* Nobody owes a call an answer; what is owed is the timer, and that a goroutine
\* whose calls fail at once goes on.
MessagesFairness ==
  \A j \in Jobs : /\ WF_<<process, job>>(Expire(j))
                  /\ WF_<<process, job>>(job[j].late /\ Proceed(j))

-----------------------------------------------------------------------------
(* Properties *)

MessagesTypeOK == job \in [Jobs -> Job]

\* A goroutine that ends without a message to its user was out of time or was
\* refused by Slack; a notice may also have found nobody to write to, or no
\* answer in the database.  None of the early returns is silent for another
\* reason (events.go:66-103, bot.go:163-189).
SilenceHasCause ==
  \A j \in Jobs :
    job[j].pc = "done" /\ job[j].posted = {} =>
      \/ job[j].late
      \/ job[j].cause = "slack"
      \/ j \in Notices /\ job[j].cause \in {"nobody", "database"}

\* Whatever Slack, the database, Kubernetes and the instance do or fail to do, a
\* goroutine ends, unless its process does first (events.go:67,
\* notification.go:30).
JobsEnd == \A j \in Jobs : Working(j) ~> (~Working(j) \/ Ended)

\* commands.go:317: "Your message will be forwarded to the instance and the
\* response posted back to you."  At the least the user hears of a failure,
\* unless Slack itself is the one that fails.
Answered ==
  \A j \in Events :
    job[j].pc = "done" /\ job[j].cause # "slack" => job[j].posted # {}

=============================================================================
