---------------------------- MODULE TrafficProofs ----------------------------
(***************************************************************************)
(* Traffic for any number of visits, messages and notices, any amount of   *)
(* data and any window: types, the redirects, the causes of silence, the   *)
(* order of data, and when a WebSocket is hung up.  The steps of messages  *)
(* and of visits are taken separately, for neither touches what the other  *)
(* keeps.                                                                  *)
(***************************************************************************)
EXTENDS Traffic, SequenceTheorems, TLAPS

-----------------------------------------------------------------------------
(* The process *)

LEMMA ProcessInitTypes == ProcessInit => ProcessTypeOK
  BY DEF ProcessInit, ProcessTypeOK, Preparations

LEMMA MainTypes ==
  ASSUME ProcessTypeOK, NEW busy, NEW held, Main(busy, held)
  PROVE  ProcessTypeOK'
<1>1. CASE Prepare
  <2>1. \A p \in Preparations :
          Prepared[p] \in
            Preparations \cup {"serving", "draining", "closing", "stopped", "failed"}
    BY DEF Preparations, Prepared
  <2>2. proc' \in Preparations \cup {"serving", "draining", "closing", "stopped", "failed"}
    BY <1>1, <2>1 DEF Prepare
  <2> QED
    BY <1>1, <2>2 DEF Prepare, ProcessTypeOK
<1>2. CASE Signal
  BY <1>2 DEF Signal, ProcessTypeOK
<1> QED
  BY <1>1, <1>2 DEF Main, Shutdown, Drained, Closed, Overdue, Crash, ProcessTypeOK

-----------------------------------------------------------------------------
(* Messages and notices *)

\* What a job leaves behind: a message, or a reason for its silence.
Accounted(j, x) ==
  \/ x.posted # {} \/ x.late \/ x.cause = "slack"
  \/ j \in Notices /\ x.cause \in {"nobody", "database"}

Reasoned == \A j \in Jobs : job[j].pc = "done" => Accounted(j, job[j])

\* Only a notice is looked up.
Separate == \A j \in Jobs : job[j].pc = "lookup" => j \in Notices

\* A job that posts has something to say.
Spoken == \A j \in Jobs : job[j].pc = "post" => job[j].text # "none"

MessagesInv == MessagesTypeOK /\ Spoken /\ Separate /\ Reasoned

LEMMA MessagesInitKeeps == MessagesInit => MessagesInv
<1> SUFFICES ASSUME MessagesInit PROVE MessagesInv
  OBVIOUS
<1>1. NoJob \in Job
  BY DEF NoJob, Job
<1>2. \A j \in Jobs : job[j] = NoJob
  BY DEF MessagesInit
<1>3. MessagesTypeOK
  BY <1>1 DEF MessagesInit, MessagesTypeOK
<1> QED
  BY <1>2, <1>3 DEF MessagesInv, Spoken, Separate, Reasoned, NoJob

\* A step of one job, seen by the others.
LEMMA OneJob ==
  ASSUME MessagesInv, NEW j \in Jobs, NEW new \in Job,
         job' = [job EXCEPT ![j] = new],
         new.pc = "post" => new.text # "none",
         new.pc = "lookup" => j \in Notices,
         new.pc = "done" => Accounted(j, new)
  PROVE  MessagesInv'
<1>1. job'[j] = new /\ \A k \in Jobs : k # j => job'[k] = job[k]
  BY DEF MessagesInv, MessagesTypeOK
<1>2. MessagesTypeOK'
  BY DEF MessagesInv, MessagesTypeOK
<1>3. Spoken' /\ Separate'
  BY <1>1 DEF MessagesInv, Spoken, Separate
<1>4. Reasoned'
  BY <1>1 DEF MessagesInv, Reasoned
<1> QED
  BY <1>2, <1>3, <1>4 DEF MessagesInv

LEMMA GotoKeeps ==
  ASSUME MessagesInv, NEW j \in Jobs,
         NEW p \in {"ignored", "resolve", "mail", "link", "create", "find", "forward",
                    "waiting", "lookup"},
         Goto(j, p), p = "lookup" => j \in Notices
  PROVE  MessagesInv'
<1> DEFINE new == [job[j] EXCEPT !.pc = p, !.conn = FALSE]
<1>1. job[j] \in Job
  BY DEF MessagesInv, MessagesTypeOK
<1>2. new \in Job /\ new.pc = p
  BY <1>1 DEF Job
<1>3. job' = [job EXCEPT ![j] = new]
  BY DEF Goto
<1> HIDE DEF new
<1> QED
  BY <1>2, <1>3, OneJob

LEMMA SaysKeeps ==
  ASSUME MessagesInv, NEW j \in Jobs,
         NEW t \in {"failure", "reply", "ready"},
         Says(j, t)
  PROVE  MessagesInv'
<1> DEFINE new == [job[j] EXCEPT !.pc = "post", !.conn = FALSE, !.text = t]
<1>1. job[j] \in Job
  BY DEF MessagesInv, MessagesTypeOK
<1>2. new \in Job /\ new.pc = "post" /\ new.text # "none"
  BY <1>1 DEF Job
<1>3. job' = [job EXCEPT ![j] = new]
  BY DEF Says
<1> HIDE DEF new
<1> QED
  BY <1>2, <1>3, OneJob

\* Who gives up is late, was refused by Slack, or has a notice to send.
LEMMA GivesUpKeeps ==
  ASSUME MessagesInv, NEW j \in Jobs, NEW why \in {"none", "slack", "nobody", "database"},
         GivesUp(j, why),
         \/ job[j].late \/ why = "slack"
         \/ j \in Notices /\ why \in {"nobody", "database"}
  PROVE  MessagesInv'
<1> DEFINE new == [job[j] EXCEPT !.pc = "done", !.conn = FALSE, !.text = "none",
                                 !.cause = why]
<1>1. job[j] \in Job
  BY DEF MessagesInv, MessagesTypeOK
<1>2. new \in Job /\ new.pc = "done" /\ new.cause = why /\ new.late = job[j].late
  BY <1>1 DEF Job
<1>3. job' = [job EXCEPT ![j] = new]
  BY DEF GivesUp
<1> HIDE DEF new
<1> QED
  BY <1>2, <1>3, OneJob DEF Accounted

LEMMA DeliversKeeps ==
  ASSUME MessagesInv, NEW j \in Jobs, job[j].pc = "post", Delivers(j)
  PROVE  MessagesInv'
<1> DEFINE new == [job[j] EXCEPT !.pc = "done", !.text = "none",
                                 !.posted = {job[j].text}]
<1>1. job[j] \in Job /\ job[j].text # "none"
  BY DEF MessagesInv, MessagesTypeOK, Spoken
<1>2. new \in Job /\ new.pc = "done" /\ new.posted # {}
  BY <1>1 DEF Job
<1>3. job' = [job EXCEPT ![j] = new]
  BY DEF Delivers
<1> HIDE DEF new
<1> QED
  BY <1>2, <1>3, OneJob DEF Accounted

LEMMA ReceivesKeeps ==
  ASSUME MessagesInv, NEW j \in Jobs, Receives(j)
  PROVE  MessagesInv'
  BY GotoKeeps DEF Receives, HandleEvents, NotifyInstanceReady

LEMMA LookUpKeeps ==
  ASSUME MessagesInv, NEW j \in Jobs, LookUp(j)
  PROVE  MessagesInv'
<1>1. j \in Notices
  BY DEF LookUp, MessagesInv, Separate
<1> QED
  BY <1>1, SaysKeeps, GivesUpKeeps DEF LookUp

\* Neither an expiry nor a connection is a step of the handler.
LEMMA ExpireKeeps ==
  ASSUME MessagesInv, NEW j \in Jobs, Expire(j) \/ Acquire(j)
  PROVE  MessagesInv'
<1>1. /\ job[j] \in Job /\ (job[j].pc = "post" => job[j].text # "none")
      /\ (job[j].pc = "lookup" => j \in Notices) /\ job[j].pc # "done"
  BY DEF MessagesInv, MessagesTypeOK, Spoken, Separate, Expire, Acquire, Working, Querying
<1>2. CASE Expire(j)
  <2> DEFINE new == [job[j] EXCEPT !.late = TRUE]
  <2>1. new \in Job /\ new.pc = job[j].pc /\ new.text = job[j].text
    BY <1>1 DEF Job
  <2>2. job' = [job EXCEPT ![j] = new]
    BY <1>2 DEF Expire
  <2> HIDE DEF new
  <2> QED
    BY <1>1, <2>1, <2>2, OneJob
<1>3. CASE Acquire(j)
  <2> DEFINE new == [job[j] EXCEPT !.conn = TRUE]
  <2>1. new \in Job /\ new.pc = job[j].pc /\ new.text = job[j].text
    BY <1>1 DEF Job
  <2>2. job' = [job EXCEPT ![j] = new]
    BY <1>3 DEF Acquire
  <2> HIDE DEF new
  <2> QED
    BY <1>1, <2>1, <2>2, OneJob
<1> QED
  BY <1>2, <1>3

LEMMA ProceedKeeps ==
  ASSUME MessagesInv, NEW j \in Jobs, Proceed(j)
  PROVE  MessagesInv'
<1>1. CASE Resolve(j) \/ FindByEmail(j) \/ Link(j) \/ CreateUser(j)
  BY <1>1, GotoKeeps, SaysKeeps DEF Resolve, FindByEmail, Link, CreateUser
<1>2. CASE Find(j)
  BY <1>2, GotoKeeps, SaysKeeps DEF Find
<1>3. CASE Forward(j) \/ Hear(j)
  BY <1>3, GotoKeeps, SaysKeeps DEF Forward, Hear
<1>4. CASE Post(j)
  BY <1>4, DeliversKeeps, GivesUpKeeps DEF Post
<1> QED
  BY <1>1, <1>2, <1>3, <1>4, LookUpKeeps DEF Proceed

-----------------------------------------------------------------------------
(* Sequences of numbers *)

LEMMA Elements ==
  ASSUME NEW s \in Seq(Nat)
  PROVE  Len(s) \in Nat /\ \A i \in 1 .. Len(s) : s[i] \in Nat
  OBVIOUS

LEMMA SplitSeq ==
  ASSUME NEW s \in Seq(Nat), NEW n \in 0 .. Len(s)
  PROVE  /\ SubSeq(s, 1, n) \in Seq(Nat) /\ SubSeq(s, n + 1, Len(s)) \in Seq(Nat)
         /\ Len(SubSeq(s, 1, n)) = n /\ Len(SubSeq(s, n + 1, Len(s))) = Len(s) - n
         /\ \A i \in 1 .. n : SubSeq(s, 1, n)[i] = s[i]
         /\ \A i \in 1 .. Len(s) - n : SubSeq(s, n + 1, Len(s))[i] = s[n + i]
<1>1. n \in Int /\ n + 1 \in Int /\ Len(s) \in Int /\ 1 \in Int
  OBVIOUS
<1>2. \A i \in 1 .. n : s[i] \in Nat
  BY Elements
<1>3. \A i \in n + 1 .. Len(s) : s[i] \in Nat
  BY Elements
<1>4. /\ SubSeq(s, 1, n) \in Seq(Nat)
      /\ Len(SubSeq(s, 1, n)) = IF 1 <= n THEN n - 1 + 1 ELSE 0
      /\ \A i \in 1 .. n - 1 + 1 : SubSeq(s, 1, n)[i] = s[1 + i - 1]
  BY <1>1, <1>2, SubSeqProperties
<1>5. /\ SubSeq(s, n + 1, Len(s)) \in Seq(Nat)
      /\ Len(SubSeq(s, n + 1, Len(s))) = IF n + 1 <= Len(s) THEN Len(s) - (n + 1) + 1 ELSE 0
      /\ \A i \in 1 .. Len(s) - (n + 1) + 1 : SubSeq(s, n + 1, Len(s))[i] = s[n + 1 + i - 1]
  BY <1>1, <1>3, SubSeqProperties
<1>6. n - 1 + 1 = n /\ Len(s) - (n + 1) + 1 = Len(s) - n
  BY <1>1
<1>7. \A i \in 1 .. n : 1 + i - 1 = i
  OBVIOUS
<1>8. \A i \in 1 .. Len(s) - n : n + 1 + i - 1 = n + i
  BY <1>1
<1>9. \A i \in 1 .. n : SubSeq(s, 1, n)[i] = s[i]
  <2> SUFFICES ASSUME NEW i \in 1 .. n PROVE SubSeq(s, 1, n)[i] = s[i]
    OBVIOUS
  <2>1. SubSeq(s, 1, n)[i] = s[1 + i - 1] /\ 1 + i - 1 = i
    BY <1>4, <1>6, <1>7
  <2> QED
    BY <2>1
<1>10. \A i \in 1 .. Len(s) - n : SubSeq(s, n + 1, Len(s))[i] = s[n + i]
  <2> SUFFICES ASSUME NEW i \in 1 .. Len(s) - n
               PROVE  SubSeq(s, n + 1, Len(s))[i] = s[n + i]
    OBVIOUS
  <2>1. SubSeq(s, n + 1, Len(s))[i] = s[n + 1 + i - 1] /\ n + 1 + i - 1 = n + i
    BY <1>5, <1>6, <1>8
  <2> QED
    BY <2>1
<1>11. Len(SubSeq(s, 1, n)) = n /\ Len(SubSeq(s, n + 1, Len(s))) = Len(s) - n
  BY <1>1, <1>4, <1>5
<1> QED
  BY <1>4, <1>5, <1>9, <1>10, <1>11

-----------------------------------------------------------------------------
(* Visits *)

\* Where a visit is in its redirects.
Redirected(x) ==
  \/ x.hops = 0
  \/ x.hops = 1 /\ x.pc # "none" /\ x.route = "web" /\ x.rest = "/"
  \/ x.hops = 2 /\ x.pc # "none" /\ x.route = "web" /\ x.rest = "/" /\ x.token

ProxyInv == ProxyTypeOK /\ \A v \in Visits : Redirected(visit[v])

LEMMA ProxyInitKeeps == ProxyInit => ProxyInv
<1> SUFFICES ASSUME ProxyInit PROVE ProxyInv
  OBVIOUS
<1>1. NoData \in Direction
  BY DEF NoData, Direction
<1>2. [d \in Directions |-> NoData] \in [Directions -> Direction]
  BY <1>1
<1>3. NoVisit \in Visit
  BY <1>2 DEF NoVisit, Visit, Routes, Rests
<1>4. Redirected(NoVisit)
  BY DEF Redirected, NoVisit
<1> QED
  BY <1>3, <1>4 DEF ProxyInit, ProxyInv, ProxyTypeOK

\* A step of one visit, seen by the others.
LEMMA OneVisit ==
  ASSUME ProxyInv, NEW v \in Visits, NEW new \in Visit,
         visit' = [visit EXCEPT ![v] = new], Redirected(new)
  PROVE  ProxyInv'
<1>1. visit' \in [Visits -> Visit]
  BY DEF ProxyInv, ProxyTypeOK
<1>2. \A w \in Visits : visit'[w] = IF w = v THEN new ELSE visit[w]
  BY DEF ProxyInv, ProxyTypeOK
<1>3. \A w \in Visits : Redirected(visit'[w])
  BY <1>2 DEF ProxyInv
<1> QED
  BY <1>1, <1>3 DEF ProxyInv, ProxyTypeOK

\* Most steps leave the redirects of a visit alone.
LEMMA SameAddress ==
  ASSUME ProxyInv, NEW v \in Visits, NEW new \in Visit,
         visit' = [visit EXCEPT ![v] = new],
         new.hops = visit[v].hops, new.route = visit[v].route,
         new.rest = visit[v].rest, new.token = visit[v].token,
         new.pc = "none" => visit[v].pc = "none"
  PROVE  ProxyInv'
<1>1. Redirected(visit[v])
  BY DEF ProxyInv
<1>2. Redirected(new)
  BY <1>1 DEF Redirected
<1> QED
  BY <1>2, OneVisit

LEMMA OverKeeps ==
  ASSUME ProxyInv, NEW v \in Visits,
         NEW a \in {"refused", "404", "503", "502", "500", "page"}, Over(v, a)
  PROVE  ProxyInv'
<1> DEFINE new == [visit[v] EXCEPT !.pc = "done", !.answer = a]
<1>1. visit[v] \in Visit
  BY DEF ProxyInv, ProxyTypeOK
<1>2. /\ new \in Visit /\ new.hops = visit[v].hops /\ new.route = visit[v].route
      /\ new.rest = visit[v].rest /\ new.token = visit[v].token
      /\ (new.pc = "none" => visit[v].pc = "none")
  BY <1>1 DEF Visit
<1>3. visit' = [visit EXCEPT ![v] = new]
  BY DEF Over
<1> HIDE DEF new
<1> QED
  BY <1>2, <1>3, SameAddress

LEMMA GoesToKeeps ==
  ASSUME ProxyInv, NEW v \in Visits, NEW p \in {"admit", "fetch", "dial", "upgrade"},
         GoesTo(v, p)
  PROVE  ProxyInv'
<1> DEFINE new == [visit[v] EXCEPT !.pc = p]
<1>1. visit[v] \in Visit
  BY DEF ProxyInv, ProxyTypeOK
<1>2. /\ new \in Visit /\ new.hops = visit[v].hops /\ new.route = visit[v].route
      /\ new.rest = visit[v].rest /\ new.token = visit[v].token
      /\ (new.pc = "none" => visit[v].pc = "none")
  BY <1>1 DEF Visit
<1>3. visit' = [visit EXCEPT ![v] = new]
  BY DEF GoesTo
<1> HIDE DEF new
<1> QED
  BY <1>2, <1>3, SameAddress

LEMMA ArriveKeeps ==
  ASSUME ProxyInv, NEW v \in Visits, Arrive(v)
  PROVE  ProxyInv'
<1>1. visit[v] \in Visit /\ visit[v].hops = 0
  BY DEF ProxyInv, ProxyTypeOK, Redirected, Arrive
<1>2. ASSUME NEW route \in Routes, NEW rest \in Rests, NEW token \in BOOLEAN,
             visit' = [visit EXCEPT ![v].pc = "admit", ![v].route = route,
                                    ![v].rest = rest, ![v].token = token]
      PROVE  ProxyInv'
  <2> DEFINE new == [visit[v] EXCEPT !.pc = "admit", !.route = route,
                                     !.rest = rest, !.token = token]
  <2>1. new \in Visit /\ new.hops = 0
    BY <1>1 DEF Visit
  <2>2. visit' = [visit EXCEPT ![v] = new]
    BY <1>2
  <2> HIDE DEF new
  <2> QED
    BY <2>1, <2>2, OneVisit DEF Redirected
<1>3. CASE visit' = [visit EXCEPT ![v].pc = "admit", ![v].upgrade = TRUE]
  <2> DEFINE new == [visit[v] EXCEPT !.pc = "admit", !.upgrade = TRUE]
  <2>1. new \in Visit /\ new.hops = 0
    BY <1>1 DEF Visit
  <2>2. visit' = [visit EXCEPT ![v] = new]
    BY <1>3
  <2> HIDE DEF new
  <2> QED
    BY <2>1, <2>2, OneVisit DEF Redirected
<1> QED
  BY <1>2, <1>3 DEF Arrive

\* A redirect to the web route without a token comes first, one with a token last.
LEMMA RedirectKeeps ==
  ASSUME ProxyInv, NEW v \in Visits, NEW token \in BOOLEAN, Redirect(v, token),
         \/ visit[v].hops = 0
         \/ visit[v].hops = 1 /\ token
  PROVE  ProxyInv'
<1> DEFINE new == [visit[v] EXCEPT !.pc = "follow", !.hops = @ + 1,
                                   !.route = "web", !.rest = "/", !.token = token]
<1>1. visit[v] \in Visit
  BY DEF ProxyInv, ProxyTypeOK
<1>2. /\ new \in Visit /\ new.hops = visit[v].hops + 1 /\ new.route = "web"
      /\ new.rest = "/" /\ new.token = token /\ new.pc = "follow"
  <2>1. visit[v].hops + 1 \in Nat /\ "web" \in Routes /\ "/" \in Rests
    <3>1. visit[v].hops \in Nat
      BY <1>1 DEF Visit
    <3> QED
      BY <3>1 DEF Routes, Rests
  <2>2. new = [visit[v] EXCEPT !.pc = "follow", !.hops = visit[v].hops + 1,
                               !.route = "web", !.rest = "/", !.token = token]
    BY <1>1 DEF Visit
  <2> HIDE DEF new
  <2> QED
    BY <1>1, <2>1, <2>2 DEF Visit
<1>3. visit' = [visit EXCEPT ![v] = new]
  BY <1>1 DEF Redirect, Visit
<1> HIDE DEF new
<1>4. Redirected(new)
  BY <1>2 DEF Redirected
<1> QED
  BY <1>2, <1>3, <1>4, OneVisit

LEMMA AdmitKeeps ==
  ASSUME ProxyInv, NEW v \in Visits, Admit(v)
  PROVE  ProxyInv'
<1>1. visit[v] \in Visit /\ Redirected(visit[v])
  BY DEF ProxyInv, ProxyTypeOK
<1>2. CASE Bare(v) /\ Redirect(v, FALSE)
  <2>1. visit[v].hops = 0
    BY <1>1, <1>2 DEF Bare, Redirected
  <2> QED
    BY <1>2, <2>1, RedirectKeeps
<1>3. CASE NeedsToken(v) /\ Redirect(v, TRUE)
  <2>1. visit[v].hops = 0 \/ visit[v].hops = 1
    BY <1>1, <1>3 DEF NeedsToken, Redirected
  <2> QED
    BY <1>3, <2>1, RedirectKeeps
<1> QED
  BY <1>2, <1>3, OverKeeps, GoesToKeeps DEF Admit

\* A step that changes what is said of one direction, and other things that are
\* no part of the address.
LEMMA DirectionKeeps ==
  ASSUME ProxyInv, NEW v \in Visits, NEW d \in Directions, NEW c \in Direction,
         Becomes(v, d, c)
  PROVE  ProxyInv'
<1> DEFINE dirs == [visit[v].dir EXCEPT ![d] = c]
           new == [visit[v] EXCEPT !.dir = dirs]
<1>1. visit[v] \in Visit
  BY DEF ProxyInv, ProxyTypeOK
<1>2. dirs \in [Directions -> Direction]
  BY <1>1 DEF Visit
<1>3. visit' = [visit EXCEPT ![v] = new]
  BY DEF Becomes
<1> HIDE DEF dirs
<1>4. /\ new \in Visit /\ new.hops = visit[v].hops /\ new.route = visit[v].route
      /\ new.rest = visit[v].rest /\ new.token = visit[v].token
      /\ (new.pc = "none" => visit[v].pc = "none")
  BY <1>1, <1>2 DEF Visit
<1> HIDE DEF new
<1> QED
  BY <1>3, <1>4, SameAddress

\* A direction keeps its type in the hands of TCP and of its copier.
LEMMA EndsTypes ==
  ASSUME NEW c \in Direction
  PROVE  /\ [c EXCEPT !.sent = @ + 1, !.wire = Append(@, c.sent + 1)] \in Direction
         /\ c.written # <<>> =>
              [c EXCEPT !.got = Append(@, Head(c.written)), !.written = Tail(@)] \in Direction
<1>1. c.sent + 1 \in Nat /\ Append(c.wire, c.sent + 1) \in Seq(Nat)
  <2>1. c.sent \in Nat /\ c.wire \in Seq(Nat)
    BY DEF Direction
  <2> QED
    BY <2>1
<1>2. ASSUME c.written # <<>>
      PROVE  Append(c.got, Head(c.written)) \in Seq(Nat) /\ Tail(c.written) \in Seq(Nat)
  <2>1. c.got \in Seq(Nat) /\ c.written \in Seq(Nat)
    BY DEF Direction
  <2>2. Head(c.written) \in Nat /\ Tail(c.written) \in Seq(Nat)
    BY <1>2, <2>1
  <2> QED
    BY <2>1, <2>2
<1> QED
  BY <1>1, <1>2 DEF Direction

LEMMA CopierTypes ==
  ASSUME NEW c \in Direction
  PROVE  /\ [c EXCEPT !.copier = "copy", !.written = @ \o c.ahead, !.ahead = <<>>] \in Direction
         /\ [c EXCEPT !.written = @ \o c.hand, !.hand = <<>>] \in Direction
         /\ c.wire # <<>> =>
              [c EXCEPT !.hand = <<Head(c.wire)>>, !.wire = Tail(@)] \in Direction
         /\ \A x \in {"copy", "report", "gone"} : [c EXCEPT !.copier = x] \in Direction
<1>1. /\ c.written \in Seq(Nat) /\ c.ahead \in Seq(Nat)
      /\ c.hand \in Seq(Nat) /\ c.wire \in Seq(Nat)
  BY DEF Direction
<1>2. c.written \o c.ahead \in Seq(Nat) /\ c.written \o c.hand \in Seq(Nat) /\ <<>> \in Seq(Nat)
  BY <1>1
<1>3. ASSUME c.wire # <<>>
      PROVE  <<Head(c.wire)>> \in Seq(Nat) /\ Tail(c.wire) \in Seq(Nat)
  <2>1. Head(c.wire) \in Nat /\ Tail(c.wire) \in Seq(Nat)
    BY <1>1, <1>3
  <2> QED
    BY <2>1
<1> QED
  BY <1>2, <1>3 DEF Direction

LEMMA EndsKeep ==
  ASSUME ProxyInv, NEW v \in Visits, Ends(v)
  PROVE  ProxyInv'
<1>1. \A d \in Directions : visit[v].dir[d] \in Direction
  BY DEF ProxyInv, ProxyTypeOK, Visit
<1>2. ASSUME NEW d \in Directions, Send(v, d) PROVE ProxyInv'
  BY <1>1, <1>2, EndsTypes, DirectionKeeps DEF Send
<1>3. ASSUME NEW d \in Directions, Receive(v, d) PROVE ProxyInv'
  BY <1>1, <1>3, EndsTypes, DirectionKeeps DEF Receive
<1>4. ASSUME NEW s \in {"client", "backend"}, Leave(v, s) PROVE ProxyInv'
  <2> DEFINE new == [visit[v] EXCEPT !.left = @ \cup {s}]
  <2>1. visit[v] \in Visit
    BY DEF ProxyInv, ProxyTypeOK
  <2>2. /\ new \in Visit /\ new.hops = visit[v].hops /\ new.route = visit[v].route
        /\ new.rest = visit[v].rest /\ new.token = visit[v].token
        /\ (new.pc = "none" => visit[v].pc = "none")
    BY <2>1 DEF Visit
  <2>3. visit' = [visit EXCEPT ![v] = new]
    BY <1>4 DEF Leave
  <2> HIDE DEF new
  <2> QED
    BY <2>2, <2>3, SameAddress
<1> QED
  BY <1>2, <1>3, <1>4 DEF Ends

LEMMA CopyKeeps ==
  ASSUME ProxyInv, NEW v \in Visits, NEW d \in Directions, Copy(v, d)
  PROVE  ProxyInv'
<1>1. \A e \in Directions : visit[v].dir[e] \in Direction
  BY DEF ProxyInv, ProxyTypeOK, Visit
<1>2. CASE Flush(v)
  BY <1>1, <1>2, CopierTypes, DirectionKeeps DEF Flush, Directions
<1>3. CASE Read(v, d)
  BY <1>1, <1>3, CopierTypes, DirectionKeeps DEF Read
<1>4. CASE Write(v, d)
  BY <1>1, <1>4, CopierTypes, DirectionKeeps DEF Write
<1>5. CASE Report(v, d)
  <2> DEFINE dirs == [visit[v].dir EXCEPT ![d].copier = "gone"]
             new == [visit[v] EXCEPT !.dir = dirs, !.errs = @ + 1]
  <2>1. visit[v] \in Visit
    BY DEF ProxyInv, ProxyTypeOK
  <2>2. dirs \in [Directions -> Direction]
    BY <1>1, <2>1, CopierTypes DEF Visit
  <2>3. visit' = [visit EXCEPT ![v] = new]
    BY <1>5, <2>1 DEF Report, Visit
  <2>4. visit[v].errs + 1 \in Nat
    BY <2>1 DEF Visit
  <2> HIDE DEF dirs
  <2>5. /\ new \in Visit /\ new.hops = visit[v].hops /\ new.route = visit[v].route
        /\ new.rest = visit[v].rest /\ new.token = visit[v].token
        /\ (new.pc = "none" => visit[v].pc = "none")
    BY <2>1, <2>2, <2>4 DEF Visit
  <2> HIDE DEF new
  <2> QED
    BY <2>3, <2>5, SameAddress
<1> QED
  BY <1>2, <1>3, <1>4, <1>5 DEF Copy

LEMMA HandleKeeps ==
  ASSUME ProxyInv, NEW v \in Visits, Handle(v)
  PROVE  ProxyInv'
<1>1. visit[v] \in Visit
  BY DEF ProxyInv, ProxyTypeOK
<1>2. CASE Follow(v)
  BY <1>2, OverKeeps, GoesToKeeps DEF Follow
<1>3. CASE Fetch(v)
  BY <1>3, OverKeeps DEF Fetch
<1>4. CASE Dial(v)
  BY <1>4, OverKeeps, GoesToKeeps DEF Dial
<1>5. CASE Upgrade(v)
  <2> DEFINE up == visit[v].dir["up"]
             down == visit[v].dir["down"]
             dirs(n) == [up |-> [up EXCEPT !.ahead = SubSeq(up.wire, 1, n),
                                           !.wire = SubSeq(@, n + 1, Len(@)),
                                           !.copier = "flush"],
                         down |-> [down EXCEPT !.copier = "copy"]]
  <2>1. ASSUME NEW n \in 0..Len(up.wire),
               visit' = [visit EXCEPT ![v].pc = "piping", ![v].dir = dirs(n)]
        PROVE  ProxyInv'
    <3> DEFINE new == [visit[v] EXCEPT !.pc = "piping", !.dir = dirs(n)]
    <3>1. up \in Direction /\ down \in Direction /\ up.wire \in Seq(Nat)
      BY <1>1 DEF Visit, Directions, Direction
    <3>2. SubSeq(up.wire, 1, n) \in Seq(Nat) /\ SubSeq(up.wire, n + 1, Len(up.wire)) \in Seq(Nat)
      BY <3>1, SplitSeq
    <3>3. dirs(n) \in [Directions -> Direction]
      <4>1. [up EXCEPT !.ahead = SubSeq(up.wire, 1, n),
                       !.wire = SubSeq(@, n + 1, Len(@)),
                       !.copier = "flush"] \in Direction
        BY <3>1, <3>2 DEF Direction
      <4>2. [down EXCEPT !.copier = "copy"] \in Direction
        BY <3>1, CopierTypes
      <4> QED
        BY <4>1, <4>2 DEF Directions
    <3>4. visit' = [visit EXCEPT ![v] = new]
      BY <2>1
    <3> HIDE DEF dirs
    <3>5. /\ new \in Visit /\ new.hops = visit[v].hops /\ new.route = visit[v].route
          /\ new.rest = visit[v].rest /\ new.token = visit[v].token
          /\ (new.pc = "none" => visit[v].pc = "none")
      BY <1>1, <3>3 DEF Visit
    <3> HIDE DEF new
    <3> QED
      BY <3>4, <3>5, SameAddress
  <2> QED
    BY <1>5, <2>1, OverKeeps DEF Upgrade
<1>6. CASE Return(v)
  <2> DEFINE new == [visit[v] EXCEPT !.pc = "done", !.answer = "socket",
                                     !.errs = @ - 1, !.closed = TRUE]
  <2>1. visit[v].errs - 1 \in Nat
    BY <1>1, <1>6 DEF Return, Visit
  <2>2. /\ new \in Visit /\ new.hops = visit[v].hops /\ new.route = visit[v].route
        /\ new.rest = visit[v].rest /\ new.token = visit[v].token
        /\ (new.pc = "none" => visit[v].pc = "none")
    BY <1>1, <2>1 DEF Visit
  <2>3. visit' = [visit EXCEPT ![v] = new]
    BY <1>6 DEF Return
  <2> HIDE DEF new
  <2> QED
    BY <2>2, <2>3, SameAddress
<1> QED
  BY <1>2, <1>3, <1>4, <1>5, <1>6, AdmitKeeps DEF Handle

-----------------------------------------------------------------------------
(* A WebSocket's data *)

\* s holds the numbers after k.
Runs(s, k) == \A i \in 1 .. Len(s) : s[i] = k + i

LEMMA RunsEmpty == \A k : Runs(<<>>, k)
  BY DEF Runs

LEMMA RunsAppend ==
  ASSUME NEW s \in Seq(Nat), NEW k \in Nat, NEW x \in Nat, Runs(s, k), x = k + Len(s) + 1
  PROVE  Runs(Append(s, x), k) /\ Len(Append(s, x)) = Len(s) + 1
  BY DEF Runs

LEMMA RunsTail ==
  ASSUME NEW s \in Seq(Nat), NEW k \in Nat, Runs(s, k), s # <<>>
  PROVE  /\ Head(s) = k + 1 /\ Runs(Tail(s), k + 1)
         /\ Len(Tail(s)) = Len(s) - 1 /\ Len(s) > 0
         /\ Runs(<<Head(s)>>, k) /\ Len(<<Head(s)>>) = 1
<1>1. Len(s) \in Nat /\ Len(s) > 0
  OBVIOUS
<1>2. Head(s) = k + 1
  BY <1>1 DEF Runs
<1>3. Len(Tail(s)) = Len(s) - 1 /\ \A i \in 1 .. Len(s) - 1 : Tail(s)[i] = s[i + 1]
  BY HeadTailProperties
<1>4. Runs(Tail(s), k + 1)
  BY <1>1, <1>3 DEF Runs
<1> QED
  BY <1>1, <1>2, <1>3, <1>4 DEF Runs

LEMMA RunsConcat ==
  ASSUME NEW s \in Seq(Nat), NEW t \in Seq(Nat), NEW k \in Nat,
         Runs(s, k), Runs(t, k + Len(s))
  PROVE  Runs(s \o t, k) /\ Len(s \o t) = Len(s) + Len(t)
<1>1. Len(s) \in Nat /\ Len(t) \in Nat /\ Len(s \o t) = Len(s) + Len(t)
  OBVIOUS
<1>2. \A i \in 1 .. Len(s) + Len(t) :
        (s \o t)[i] = IF i <= Len(s) THEN s[i] ELSE t[i - Len(s)]
  OBVIOUS
<1>3. ASSUME NEW i \in 1 .. Len(s) + Len(t) PROVE (s \o t)[i] = k + i
  <2>1. CASE i <= Len(s)
    BY <1>1, <1>2, <2>1 DEF Runs
  <2>2. CASE i > Len(s)
    <3>1. i - Len(s) \in 1 .. Len(t)
      BY <1>1, <2>2
    <3>2. t[i - Len(s)] = k + Len(s) + (i - Len(s))
      BY <3>1 DEF Runs
    <3> QED
      BY <1>1, <1>2, <2>2, <3>2
  <2> QED
    BY <1>1, <2>1, <2>2
<1> QED
  BY <1>1, <1>3 DEF Runs

LEMMA RunsSplit ==
  ASSUME NEW s \in Seq(Nat), NEW k \in Nat, NEW n \in 0 .. Len(s), Runs(s, k)
  PROVE  Runs(SubSeq(s, 1, n), k) /\ Runs(SubSeq(s, n + 1, Len(s)), k + n)
<1>1. Len(s) \in Nat /\ n \in Nat /\ n <= Len(s)
  OBVIOUS
<1>2. ASSUME NEW i \in 1 .. n PROVE SubSeq(s, 1, n)[i] = k + i
  BY <1>1, SplitSeq DEF Runs
<1>3. ASSUME NEW i \in 1 .. Len(s) - n PROVE SubSeq(s, n + 1, Len(s))[i] = k + n + i
  <2>1. SubSeq(s, n + 1, Len(s))[i] = s[n + i] /\ n + i \in 1 .. Len(s)
    BY <1>1, SplitSeq
  <2>2. s[n + i] = k + (n + i)
    BY <2>1 DEF Runs
  <2> QED
    BY <1>1, <2>1, <2>2
<1> QED
  BY <1>2, <1>3, SplitSeq DEF Runs

\* The numbers up to n, in five parts.
Line(g, w, h, a, z, n) ==
  /\ Runs(g, 0)
  /\ Runs(w, Len(g))
  /\ Runs(h, Len(g) + Len(w))
  /\ Runs(a, Len(g) + Len(w) + Len(h))
  /\ Runs(z, Len(g) + Len(w) + Len(h) + Len(a))
  /\ n = Len(g) + Len(w) + Len(h) + Len(a) + Len(z)

LEMMA LineSends ==
  ASSUME NEW g \in Seq(Nat), NEW w \in Seq(Nat), NEW h \in Seq(Nat), NEW a \in Seq(Nat),
         NEW z \in Seq(Nat), NEW n \in Nat, Line(g, w, h, a, z, n)
  PROVE  Line(g, w, h, a, Append(z, n + 1), n + 1)
<1> DEFINE k == Len(g) + Len(w) + Len(h) + Len(a)
<1>1. k \in Nat /\ Len(z) \in Nat
  OBVIOUS
<1>2. Runs(z, k) /\ n = k + Len(z)
  BY DEF Line
<1>3. Runs(Append(z, n + 1), k) /\ Len(Append(z, n + 1)) = Len(z) + 1
  <2> HIDE DEF k
  <2> QED
    BY <1>1, <1>2, RunsAppend
<1>4. n + 1 = k + Len(Append(z, n + 1))
  <2> HIDE DEF k
  <2> QED
    BY <1>1, <1>2, <1>3
<1> QED
  BY <1>3, <1>4 DEF Line

LEMMA LineReceives ==
  ASSUME NEW g \in Seq(Nat), NEW w \in Seq(Nat), NEW h \in Seq(Nat), NEW a \in Seq(Nat),
         NEW z \in Seq(Nat), NEW n \in Nat, Line(g, w, h, a, z, n), w # <<>>
  PROVE  Line(Append(g, Head(w)), Tail(w), h, a, z, n)
<1>1. Len(g) \in Nat /\ Len(w) \in Nat /\ Len(h) \in Nat /\ Len(a) \in Nat /\ Len(z) \in Nat
  OBVIOUS
<1>2. Runs(g, 0) /\ Runs(w, Len(g))
  BY DEF Line
<1>3. Head(w) = Len(g) + 1 /\ Runs(Tail(w), Len(g) + 1) /\ Len(Tail(w)) = Len(w) - 1
  BY <1>1, <1>2, RunsTail
<1>4. Runs(Append(g, Head(w)), 0) /\ Len(Append(g, Head(w))) = Len(g) + 1
  <2>1. Head(w) \in Nat /\ Head(w) = 0 + Len(g) + 1
    BY <1>1, <1>3
  <2> QED
    BY <1>2, <2>1, RunsAppend
<1>5. Len(Append(g, Head(w))) + Len(Tail(w)) = Len(g) + Len(w)
  BY <1>1, <1>3, <1>4
<1> QED
  BY <1>1, <1>3, <1>4, <1>5 DEF Line

LEMMA LineFlushes ==
  ASSUME NEW g \in Seq(Nat), NEW w \in Seq(Nat), NEW a \in Seq(Nat),
         NEW z \in Seq(Nat), NEW n \in Nat, Line(g, w, <<>>, a, z, n)
  PROVE  Line(g, w \o a, <<>>, <<>>, z, n)
<1>1. Len(g) \in Nat /\ Len(w) \in Nat /\ Len(a) \in Nat /\ Len(z) \in Nat /\ Len(<<>>) = 0
  OBVIOUS
<1>2. Runs(w, Len(g)) /\ Runs(a, Len(g) + Len(w))
  BY <1>1 DEF Line
<1>3. Runs(w \o a, Len(g)) /\ Len(w \o a) = Len(w) + Len(a)
  BY <1>1, <1>2, RunsConcat
<1>4. Len(g) + Len(w \o a) + 0 + 0 = Len(g) + Len(w) + 0 + Len(a)
  BY <1>1, <1>3
<1> QED
  BY <1>1, <1>3, <1>4, RunsEmpty DEF Line

LEMMA LineReads ==
  ASSUME NEW g \in Seq(Nat), NEW w \in Seq(Nat),
         NEW z \in Seq(Nat), NEW n \in Nat, Line(g, w, <<>>, <<>>, z, n), z # <<>>
  PROVE  Line(g, w, <<Head(z)>>, <<>>, Tail(z), n)
<1> DEFINE k == Len(g) + Len(w)
<1>1. k \in Nat /\ Len(z) \in Nat /\ Len(<<>>) = 0
  OBVIOUS
<1>2. Runs(z, k) /\ n = k + Len(z)
  <2>1. k + Len(<<>>) + Len(<<>>) = k
    BY <1>1
  <2>2. Runs(z, k + Len(<<>>) + Len(<<>>)) /\ n = k + Len(<<>>) + Len(<<>>) + Len(z)
    BY DEF Line
  <2> HIDE DEF k
  <2> QED
    BY <2>1, <2>2
<1>3. /\ Runs(<<Head(z)>>, k) /\ Len(<<Head(z)>>) = 1
      /\ Runs(Tail(z), k + 1) /\ Len(Tail(z)) = Len(z) - 1
  <2> HIDE DEF k
  <2> QED
    BY <1>1, <1>2, RunsTail
<1>4. k + Len(<<Head(z)>>) = k + 1 /\ k + Len(<<Head(z)>>) + Len(<<>>) = k + 1
      /\ n = k + Len(<<Head(z)>>) + Len(<<>>) + Len(Tail(z))
  <2> HIDE DEF k
  <2> QED
    BY <1>1, <1>2, <1>3
<1> QED
  BY <1>3, <1>4, RunsEmpty DEF Line

LEMMA LineWrites ==
  ASSUME NEW g \in Seq(Nat), NEW w \in Seq(Nat), NEW h \in Seq(Nat), NEW a \in Seq(Nat),
         NEW z \in Seq(Nat), NEW n \in Nat, Line(g, w, h, a, z, n)
  PROVE  Line(g, w \o h, <<>>, a, z, n)
<1>1. /\ Len(g) \in Nat /\ Len(w) \in Nat /\ Len(h) \in Nat /\ Len(a) \in Nat
      /\ Len(z) \in Nat /\ Len(<<>>) = 0
  OBVIOUS
<1>2. Runs(w, Len(g)) /\ Runs(h, Len(g) + Len(w))
  BY DEF Line
<1>3. Runs(w \o h, Len(g)) /\ Len(w \o h) = Len(w) + Len(h)
  BY <1>1, <1>2, RunsConcat
<1>4. Len(g) + Len(w \o h) + Len(<<>>) = Len(g) + Len(w) + Len(h)
  BY <1>1, <1>3
<1> QED
  BY <1>1, <1>3, <1>4, RunsEmpty DEF Line

LEMMA LineSplits ==
  ASSUME NEW g \in Seq(Nat), NEW w \in Seq(Nat), NEW h \in Seq(Nat),
         NEW z \in Seq(Nat), NEW n \in Nat, Line(g, w, h, <<>>, z, n), NEW m \in 0 .. Len(z)
  PROVE  Line(g, w, h, SubSeq(z, 1, m), SubSeq(z, m + 1, Len(z)), n)
<1> DEFINE k == Len(g) + Len(w) + Len(h)
<1>1. k \in Nat /\ Len(z) \in Nat /\ m \in Nat /\ m <= Len(z) /\ Len(<<>>) = 0
  OBVIOUS
<1>2. Runs(z, k) /\ n = k + Len(z)
  <2>1. Runs(z, k + Len(<<>>)) /\ n = k + Len(<<>>) + Len(z)
    BY DEF Line
  <2> HIDE DEF k
  <2> QED
    BY <1>1, <2>1
<1>3. /\ Runs(SubSeq(z, 1, m), k) /\ Runs(SubSeq(z, m + 1, Len(z)), k + m)
      /\ Len(SubSeq(z, 1, m)) = m /\ Len(SubSeq(z, m + 1, Len(z))) = Len(z) - m
  <2> HIDE DEF k
  <2> QED
    BY <1>1, <1>2, RunsSplit, SplitSeq
<1>4. k + Len(SubSeq(z, 1, m)) = k + m
      /\ n = k + Len(SubSeq(z, 1, m)) + Len(SubSeq(z, m + 1, Len(z)))
  <2> DEFINE rest == Len(z)
  <2>1. n = k + m + (rest - m)
    <3>1. rest \in Nat /\ n = k + rest
      BY <1>1, <1>2
    <3> HIDE DEF k, rest
    <3> QED
      BY <1>1, <3>1
  <2>2. Len(SubSeq(z, 1, m)) = m /\ Len(SubSeq(z, m + 1, Len(z))) = rest - m
    BY <1>3
  <2> HIDE DEF k, rest
  <2> QED
    BY <2>1, <2>2
<1> QED
  BY <1>3, <1>4 DEF Line

\* Nothing of a direction is lost, doubled or out of its order.
Ordered(c) == Line(c.got, c.written, c.hand, c.ahead, c.wire, c.sent)

LEMMA DirectionSeqs ==
  ASSUME NEW c \in Direction
  PROVE  /\ c.got \in Seq(Nat) /\ c.written \in Seq(Nat) /\ c.hand \in Seq(Nat)
         /\ c.ahead \in Seq(Nat) /\ c.wire \in Seq(Nat) /\ c.sent \in Nat
  BY DEF Direction

LEMMA EndsOrdered ==
  ASSUME NEW c \in Direction, Ordered(c)
  PROVE  /\ Ordered([c EXCEPT !.sent = @ + 1, !.wire = Append(@, c.sent + 1)])
         /\ c.written # <<>> =>
              Ordered([c EXCEPT !.got = Append(@, Head(c.written)), !.written = Tail(@)])
<1>1. Line(c.got, c.written, c.hand, c.ahead, Append(c.wire, c.sent + 1), c.sent + 1)
  BY DirectionSeqs, LineSends DEF Ordered
<1>2. c.written # <<>> =>
        Line(Append(c.got, Head(c.written)), Tail(c.written), c.hand, c.ahead, c.wire, c.sent)
  BY DirectionSeqs, LineReceives DEF Ordered
<1> QED
  BY <1>1, <1>2 DEF Ordered, Direction

LEMMA CopierOrdered ==
  ASSUME NEW c \in Direction, Ordered(c)
  PROVE  /\ c.hand = <<>> =>
              Ordered([c EXCEPT !.copier = "copy", !.written = @ \o c.ahead, !.ahead = <<>>])
         /\ c.hand = <<>> /\ c.ahead = <<>> /\ c.wire # <<>> =>
              Ordered([c EXCEPT !.hand = <<Head(c.wire)>>, !.wire = Tail(@)])
         /\ Ordered([c EXCEPT !.written = @ \o c.hand, !.hand = <<>>])
         /\ \A x : Ordered([c EXCEPT !.copier = x])
<1>1. c.hand = <<>> => Line(c.got, c.written \o c.ahead, <<>>, <<>>, c.wire, c.sent)
  BY DirectionSeqs, LineFlushes DEF Ordered
<1>2. c.hand = <<>> /\ c.ahead = <<>> /\ c.wire # <<>> =>
        Line(c.got, c.written, <<Head(c.wire)>>, <<>>, Tail(c.wire), c.sent)
  BY DirectionSeqs, LineReads DEF Ordered
<1>3. Line(c.got, c.written \o c.hand, <<>>, c.ahead, c.wire, c.sent)
  BY DirectionSeqs, LineWrites DEF Ordered
<1> QED
  BY <1>1, <1>2, <1>3 DEF Ordered, Direction

LEMMA SplitOrdered ==
  ASSUME NEW c \in Direction, Ordered(c), c.ahead = <<>>, NEW m \in 0 .. Len(c.wire)
  PROVE  Ordered([c EXCEPT !.ahead = SubSeq(c.wire, 1, m),
                           !.wire = SubSeq(@, m + 1, Len(@)),
                           !.copier = "flush"])
<1>1. Line(c.got, c.written, c.hand, SubSeq(c.wire, 1, m),
           SubSeq(c.wire, m + 1, Len(c.wire)), c.sent)
  BY DirectionSeqs, LineSplits DEF Ordered
<1> QED
  BY <1>1 DEF Ordered, Direction

\* What a copier still holds, and when it may have failed to pass it on.
Phased(c, closed) ==
  /\ c.copier \in {"none", "flush"} => c.hand = <<>>
  /\ c.copier = "none" => c.ahead = <<>>
  /\ c.copier \in {"copy", "report", "gone"} => c.ahead = <<>> \/ closed

Flowing(x, d) ==
  \/ Destination[d] \in x.left
  \/ Ordered(x.dir[d]) /\ Phased(x.dir[d], x.closed)

\* No copier runs before the handler starts it.
Unstarted(x) ==
  x.pc \notin {"piping", "done"} => \A d \in Directions : x.dir[d].copier = "none"

FlowInv == \A v \in Visits : Unstarted(visit[v]) /\ \A d \in Directions : Flowing(visit[v], d)

LEMMA OneFlow ==
  ASSUME ProxyTypeOK, FlowInv, NEW v \in Visits, NEW new,
         visit' = [visit EXCEPT ![v] = new],
         Unstarted(new), \A d \in Directions : Flowing(new, d)
  PROVE  FlowInv'
<1>1. \A u \in Visits : visit'[u] = IF u = v THEN new ELSE visit[u]
  BY DEF ProxyTypeOK
<1>2. \A u \in Visits : Unstarted(visit'[u]) /\ \A d \in Directions : Flowing(visit'[u], d)
  BY <1>1 DEF FlowInv
<1> QED
  BY <1>2 DEF FlowInv

\* A step that leaves the data alone, and where it is in a visit that is not piping
\* yet keeps it from that or ends it.
LEMMA SameData ==
  ASSUME ProxyTypeOK, FlowInv, NEW v \in Visits, NEW new,
         visit' = [visit EXCEPT ![v] = new],
         new.dir = visit[v].dir, visit[v].left \subseteq new.left,
         visit[v].closed => new.closed,
         new.pc \in {"piping", "done"} \/ visit[v].pc \notin {"piping", "done"}
  PROVE  FlowInv'
<1>1. Unstarted(new)
  BY DEF FlowInv, Unstarted
<1>2. \A d \in Directions : Flowing(new, d)
  BY DEF FlowInv, Flowing, Phased
<1> QED
  BY <1>1, <1>2, OneFlow

LEMMA FlowBecomes ==
  ASSUME ProxyTypeOK, FlowInv, NEW v \in Visits, NEW d \in Directions, NEW c \in Direction,
         Becomes(v, d, c),
         visit[v].pc \notin {"piping", "done"} => c.copier = "none",
         Ordered(visit[v].dir[d]) /\ Phased(visit[v].dir[d], visit[v].closed)
           /\ Destination[d] \notin visit[v].left
             => Ordered(c) /\ Phased(c, visit[v].closed)
  PROVE  FlowInv'
<1> DEFINE new == [visit[v] EXCEPT !.dir[d] = c]
<1>1. visit[v] \in Visit /\ visit' = [visit EXCEPT ![v] = new]
  BY DEF Becomes, ProxyTypeOK
<1>2. /\ new.pc = visit[v].pc /\ new.left = visit[v].left /\ new.closed = visit[v].closed
      /\ \A e \in Directions : new.dir[e] = IF e = d THEN c ELSE visit[v].dir[e]
  BY <1>1 DEF Visit
<1> HIDE DEF new
<1>3. Unstarted(new)
  BY <1>2 DEF FlowInv, Unstarted
<1>4. \A e \in Directions : Flowing(new, e)
  BY <1>2 DEF FlowInv, Flowing
<1> QED
  BY <1>1, <1>3, <1>4, OneFlow

LEMMA InitFlows == ProxyInit => FlowInv
<1>1. Line(<<>>, <<>>, <<>>, <<>>, <<>>, 0)
  <2>1. Len(<<>>) = 0
    OBVIOUS
  <2> QED
    BY <2>1, RunsEmpty DEF Line
<1>2. Ordered(NoData) /\ Phased(NoData, FALSE)
  BY <1>1 DEF Ordered, Phased, NoData
<1>3. Unstarted(NoVisit) /\ \A d \in Directions : Flowing(NoVisit, d)
  BY <1>2 DEF Unstarted, Flowing, NoVisit, NoData
<1> QED
  BY <1>3 DEF ProxyInit, FlowInv

LEMMA EndsFlow ==
  ASSUME ProxyTypeOK, FlowInv, NEW v \in Visits, Ends(v)
  PROVE  FlowInv'
<1>1. visit[v] \in Visit /\ \A d \in Directions : visit[v].dir[d] \in Direction
  BY DEF ProxyTypeOK, Visit
<1>2. \A d \in Directions :
        visit[v].pc \notin {"piping", "done"} => visit[v].dir[d].copier = "none"
  BY DEF FlowInv, Unstarted
<1>3. ASSUME NEW d \in Directions, Send(v, d) PROVE FlowInv'
  <2> DEFINE c == visit[v].dir[d]
             new == [c EXCEPT !.sent = @ + 1, !.wire = Append(@, c.sent + 1)]
  <2>1. Becomes(v, d, new) /\ new \in Direction /\ c \in Direction
    BY <1>1, <1>3, EndsTypes DEF Send
  <2>2. Ordered(c) => Ordered(new)
    BY <1>1, EndsOrdered
  <2>3. new.copier = c.copier /\ new.hand = c.hand /\ new.ahead = c.ahead
    BY <2>1 DEF Direction
  <2> HIDE DEF new
  <2> QED
    BY <1>2, <2>1, <2>2, <2>3, FlowBecomes DEF Phased
<1>4. ASSUME NEW d \in Directions, Receive(v, d) PROVE FlowInv'
  <2> DEFINE c == visit[v].dir[d]
             new == [c EXCEPT !.got = Append(@, Head(c.written)), !.written = Tail(@)]
  <2>1. Becomes(v, d, new) /\ new \in Direction /\ c \in Direction /\ c.written # <<>>
    BY <1>1, <1>4, EndsTypes DEF Receive
  <2>2. Ordered(c) => Ordered(new)
    BY <2>1, EndsOrdered
  <2>3. new.copier = c.copier /\ new.hand = c.hand /\ new.ahead = c.ahead
    BY <2>1 DEF Direction
  <2> HIDE DEF new
  <2> QED
    BY <1>2, <2>1, <2>2, <2>3, FlowBecomes DEF Phased
<1>5. ASSUME NEW s \in {"client", "backend"}, Leave(v, s) PROVE FlowInv'
  <2> DEFINE new == [visit[v] EXCEPT !.left = @ \cup {s}]
  <2>1. visit' = [visit EXCEPT ![v] = new]
    BY <1>5 DEF Leave
  <2>2. /\ new.dir = visit[v].dir /\ visit[v].left \subseteq new.left
        /\ new.closed = visit[v].closed /\ new.pc = visit[v].pc
    BY <1>1 DEF Visit
  <2> HIDE DEF new
  <2> QED
    BY <2>1, <2>2, SameData
<1> QED
  BY <1>3, <1>4, <1>5 DEF Ends

\* A copier that stops keeps what it holds.
LEMMA StopFlow ==
  ASSUME ProxyTypeOK, FlowInv, NEW v \in Visits, NEW d \in Directions,
         NEW x \in {"copy", "report"},
         Becomes(v, d, [visit[v].dir[d] EXCEPT !.copier = x]),
         visit[v].dir[d].copier # "none",
         \/ visit[v].dir[d].copier = "copy"
         \/ visit[v].closed \/ Destination[d] \in visit[v].left
  PROVE  FlowInv'
<1> DEFINE c == visit[v].dir[d]
           new == [c EXCEPT !.copier = x]
<1>1. c \in Direction
  BY DEF ProxyTypeOK, Visit
<1>2. new \in Direction /\ new.copier = x /\ new.hand = c.hand /\ new.ahead = c.ahead
  BY <1>1, CopierTypes DEF Direction
<1>3. Ordered(c) => Ordered(new)
  BY <1>1, CopierOrdered
<1>4. Phased(c, visit[v].closed) /\ Destination[d] \notin visit[v].left
        => Phased(new, visit[v].closed)
  BY <1>2 DEF Phased
<1>5. visit[v].pc \in {"piping", "done"}
  BY DEF FlowInv, Unstarted
<1>6. Becomes(v, d, new)
  OBVIOUS
<1> HIDE DEF new
<1> QED
  BY <1>2, <1>3, <1>4, <1>5, <1>6, FlowBecomes

LEMMA FlushFlow ==
  ASSUME ProxyTypeOK, FlowInv, NEW v \in Visits, Flush(v)
  PROVE  FlowInv'
<1> DEFINE c == visit[v].dir["up"]
           new == [c EXCEPT !.copier = "copy", !.written = @ \o c.ahead, !.ahead = <<>>]
<1>1. "up" \in Directions /\ c \in Direction /\ c.copier = "flush"
  BY DEF ProxyTypeOK, Visit, Directions, Flush
<1>2. CASE Becomes(v, "up", new)
  <2>1. /\ new \in Direction /\ new.copier = "copy" /\ new.ahead = <<>>
    BY <1>1, CopierTypes DEF Direction
  <2>2. Ordered(c) /\ c.hand = <<>> => Ordered(new)
    BY <1>1, CopierOrdered
  <2>3. Phased(c, visit[v].closed) => c.hand = <<>>
    BY <1>1 DEF Phased
  <2>4. Phased(new, visit[v].closed)
    BY <2>1 DEF Phased
  <2>5. visit[v].pc \in {"piping", "done"}
    BY <1>1 DEF FlowInv, Unstarted
  <2> HIDE DEF new
  <2> QED
    BY <1>1, <1>2, <2>1, <2>2, <2>3, <2>4, <2>5, FlowBecomes
<1>3. CASE Broken(v, "up") /\ Becomes(v, "up", [c EXCEPT !.copier = "copy"])
  BY <1>1, <1>3, StopFlow DEF Broken
<1> QED
  BY <1>2, <1>3 DEF Flush

LEMMA ReadFlow ==
  ASSUME ProxyTypeOK, FlowInv, NEW v \in Visits, NEW d \in Directions, Read(v, d)
  PROVE  FlowInv'
<1> DEFINE c == visit[v].dir[d]
           new == [c EXCEPT !.hand = <<Head(c.wire)>>, !.wire = Tail(@)]
<1>1. c \in Direction /\ c.copier = "copy" /\ c.hand = <<>>
  BY DEF ProxyTypeOK, Visit, Read
<1>2. CASE c.wire # <<>> /\ ~visit[v].closed /\ Becomes(v, d, new)
  <2>1. new \in Direction /\ new.copier = "copy" /\ new.ahead = c.ahead
    BY <1>1, <1>2, CopierTypes DEF Direction
  <2>2. Ordered(c) /\ c.ahead = <<>> => Ordered(new)
    BY <1>1, <1>2, CopierOrdered
  <2>3. Phased(c, visit[v].closed) => c.ahead = <<>>
    BY <1>1, <1>2 DEF Phased
  <2>4. c.ahead = <<>> => Phased(new, visit[v].closed)
    BY <2>1 DEF Phased
  <2>5. visit[v].pc \in {"piping", "done"}
    BY <1>1 DEF FlowInv, Unstarted
  <2> HIDE DEF new
  <2> QED
    BY <1>1, <1>2, <2>1, <2>2, <2>3, <2>4, <2>5, FlowBecomes
<1>3. CASE Becomes(v, d, [c EXCEPT !.copier = "report"])
  BY <1>1, <1>3, StopFlow
<1> QED
  BY <1>2, <1>3 DEF Read

LEMMA WriteFlow ==
  ASSUME ProxyTypeOK, FlowInv, NEW v \in Visits, NEW d \in Directions, Write(v, d)
  PROVE  FlowInv'
<1> DEFINE c == visit[v].dir[d]
           new == [c EXCEPT !.written = @ \o c.hand, !.hand = <<>>]
<1>1. c \in Direction /\ c.copier = "copy"
  BY DEF ProxyTypeOK, Visit, Write
<1>2. CASE Becomes(v, d, new)
  <2>1. new \in Direction /\ new.copier = "copy" /\ new.ahead = c.ahead
    BY <1>1, CopierTypes DEF Direction
  <2>2. Ordered(c) => Ordered(new)
    BY <1>1, CopierOrdered
  <2>3. Phased(c, visit[v].closed) => Phased(new, visit[v].closed)
    BY <1>1, <2>1 DEF Phased
  <2>4. visit[v].pc \in {"piping", "done"}
    BY <1>1 DEF FlowInv, Unstarted
  <2> HIDE DEF new
  <2> QED
    BY <1>1, <1>2, <2>1, <2>2, <2>3, <2>4, FlowBecomes
<1>3. CASE Becomes(v, d, [c EXCEPT !.copier = "report"])
  BY <1>1, <1>3, StopFlow
<1> QED
  BY <1>2, <1>3 DEF Write

LEMMA ReportFlow ==
  ASSUME ProxyTypeOK, FlowInv, NEW v \in Visits, NEW d \in Directions, Report(v, d)
  PROVE  FlowInv'
<1> DEFINE c == visit[v].dir[d]
           gone == [c EXCEPT !.copier = "gone"]
           new == [visit[v] EXCEPT !.dir[d].copier = "gone", !.errs = @ + 1]
<1>1. visit[v] \in Visit /\ c \in Direction /\ c.copier = "report"
  BY DEF ProxyTypeOK, Visit, Report
<1>2. gone.copier = "gone" /\ gone.hand = c.hand /\ gone.ahead = c.ahead
  BY <1>1 DEF Direction
<1>3. Ordered(c) => Ordered(gone)
  BY <1>1, CopierOrdered
<1>4. Phased(c, visit[v].closed) => Phased(gone, visit[v].closed)
  BY <1>1, <1>2 DEF Phased
<1>5. /\ new.pc = visit[v].pc /\ new.left = visit[v].left /\ new.closed = visit[v].closed
      /\ \A e \in Directions : new.dir[e] = IF e = d THEN gone ELSE visit[v].dir[e]
  BY <1>1 DEF Visit
<1>6. visit' = [visit EXCEPT ![v] = new]
  BY <1>1 DEF Report, ProxyTypeOK, Visit
<1>7. visit[v].pc \in {"piping", "done"}
  BY <1>1 DEF FlowInv, Unstarted
<1> HIDE DEF new, gone
<1>8. Unstarted(new)
  BY <1>5, <1>7 DEF Unstarted
<1>9. \A e \in Directions : Flowing(new, e)
  BY <1>3, <1>4, <1>5 DEF FlowInv, Flowing
<1> QED
  BY <1>6, <1>8, <1>9, OneFlow

LEMMA UpgradeFlow ==
  ASSUME ProxyTypeOK, FlowInv, NEW v \in Visits, Upgrade(v)
  PROVE  FlowInv'
<1> DEFINE up == visit[v].dir["up"]
           down == visit[v].dir["down"]
           upper(n) == [up EXCEPT !.ahead = SubSeq(up.wire, 1, n),
                                  !.wire = SubSeq(@, n + 1, Len(@)),
                                  !.copier = "flush"]
           lower == [down EXCEPT !.copier = "copy"]
<1>1. /\ visit[v] \in Visit /\ up \in Direction /\ down \in Direction
      /\ "up" \in Directions /\ "down" \in Directions
  BY DEF ProxyTypeOK, Visit, Directions
<1>2. up.copier = "none" /\ down.copier = "none"
  BY <1>1 DEF FlowInv, Unstarted, Upgrade
<1>3. ASSUME NEW a, Over(v, a) PROVE FlowInv'
  <2> DEFINE new == [visit[v] EXCEPT !.pc = "done", !.answer = a]
  <2>1. visit' = [visit EXCEPT ![v] = new]
    BY <1>3 DEF Over
  <2>2. /\ new.dir = visit[v].dir /\ new.left = visit[v].left
        /\ new.closed = visit[v].closed /\ new.pc = "done"
    BY <1>1 DEF Visit
  <2> HIDE DEF new
  <2> QED
    BY <2>1, <2>2, SameData
<1>4. ASSUME NEW n \in 0..Len(up.wire),
             visit' = [visit EXCEPT ![v].pc = "piping",
                                    ![v].dir = [up |-> upper(n), down |-> lower]]
      PROVE  FlowInv'
  <2> DEFINE new == [visit[v] EXCEPT !.pc = "piping",
                                     !.dir = [up |-> upper(n), down |-> lower]]
  <2>1. Ordered(up) /\ up.ahead = <<>> => Ordered(upper(n))
    BY <1>1, SplitOrdered
  <2>2. Phased(up, visit[v].closed) => up.ahead = <<>> /\ Phased(upper(n), visit[v].closed)
    <3>1. upper(n).copier = "flush" /\ upper(n).hand = up.hand
      BY <1>1 DEF Direction
    <3> QED
      BY <1>2, <3>1 DEF Phased
  <2>3. Ordered(down) => Ordered(lower)
    BY <1>1, CopierOrdered
  <2>4. Phased(down, visit[v].closed) => Phased(lower, visit[v].closed)
    <3>1. lower.copier = "copy" /\ lower.ahead = down.ahead
      BY <1>1 DEF Direction
    <3> QED
      BY <1>2, <3>1 DEF Phased
  <2>5. visit' = [visit EXCEPT ![v] = new]
    BY <1>4
  <2> HIDE DEF upper, lower
  <2>6. /\ new.pc = "piping" /\ new.left = visit[v].left /\ new.closed = visit[v].closed
        /\ new.dir["up"] = upper(n) /\ new.dir["down"] = lower
    BY <1>1 DEF Visit
  <2> HIDE DEF new
  <2>7. Unstarted(new)
    BY <2>6 DEF Unstarted
  <2>8. Flowing(new, "up") /\ Flowing(new, "down")
    BY <1>1, <2>1, <2>2, <2>3, <2>4, <2>6 DEF FlowInv, Flowing
  <2> QED
    BY <2>5, <2>7, <2>8, OneFlow DEF Directions
<1> QED
  BY <1>3, <1>4 DEF Upgrade

LEMMA HandleFlow ==
  ASSUME ProxyTypeOK, FlowInv, NEW v \in Visits, Arrive(v) \/ Handle(v)
  PROVE  FlowInv'
<1>1. visit[v] \in Visit
  BY DEF ProxyTypeOK
<1>2. ASSUME NEW new, visit' = [visit EXCEPT ![v] = new],
             new.dir = visit[v].dir, new.left = visit[v].left,
             visit[v].closed => new.closed,
             new.pc \in {"piping", "done"} \/ visit[v].pc \notin {"piping", "done"}
      PROVE  FlowInv'
  BY <1>2, SameData
<1>3. ASSUME NEW a, Over(v, a) PROVE FlowInv'
  <2> DEFINE new == [visit[v] EXCEPT !.pc = "done", !.answer = a]
  <2>1. visit' = [visit EXCEPT ![v] = new]
    BY <1>3 DEF Over
  <2>2. /\ new.dir = visit[v].dir /\ new.left = visit[v].left
        /\ new.closed = visit[v].closed /\ new.pc = "done"
    BY <1>1 DEF Visit
  <2> HIDE DEF new
  <2> QED
    BY <2>1, <2>2, <1>2
<1>4. ASSUME NEW p, GoesTo(v, p), visit[v].pc \notin {"piping", "done"} PROVE FlowInv'
  <2> DEFINE new == [visit[v] EXCEPT !.pc = p]
  <2>1. visit' = [visit EXCEPT ![v] = new]
    BY <1>4 DEF GoesTo
  <2>2. /\ new.dir = visit[v].dir /\ new.left = visit[v].left
        /\ new.closed = visit[v].closed
    BY <1>1 DEF Visit
  <2> HIDE DEF new
  <2> QED
    BY <2>1, <2>2, <1>2, <1>4
<1>5. ASSUME NEW t, Redirect(v, t), visit[v].pc \notin {"piping", "done"} PROVE FlowInv'
  <2> DEFINE new == [visit[v] EXCEPT !.pc = "follow", !.hops = visit[v].hops + 1,
                                     !.route = "web", !.rest = "/", !.token = t]
  <2>1. visit' = [visit EXCEPT ![v] = new]
    BY <1>1, <1>5 DEF Redirect, Visit
  <2>2. /\ new.dir = visit[v].dir /\ new.left = visit[v].left
        /\ new.closed = visit[v].closed
    BY <1>1 DEF Visit
  <2> HIDE DEF new
  <2> QED
    BY <2>1, <2>2, <1>2, <1>5
<1>6. CASE Arrive(v)
  <2>1. visit[v].pc = "none"
    BY <1>6 DEF Arrive
  <2>2. ASSUME NEW route \in Routes, NEW rest \in Rests, NEW token \in BOOLEAN,
               visit' = [visit EXCEPT ![v].pc = "admit", ![v].route = route,
                                      ![v].rest = rest, ![v].token = token]
        PROVE  FlowInv'
    <3> DEFINE new == [visit[v] EXCEPT !.pc = "admit", !.route = route,
                                       !.rest = rest, !.token = token]
    <3>1. visit' = [visit EXCEPT ![v] = new]
      BY <2>2
    <3>2. /\ new.dir = visit[v].dir /\ new.left = visit[v].left
          /\ new.closed = visit[v].closed
      BY <1>1 DEF Visit
    <3> HIDE DEF new
    <3> QED
      BY <2>1, <3>1, <3>2, <1>2
  <2>3. CASE visit' = [visit EXCEPT ![v].pc = "admit", ![v].upgrade = TRUE]
    <3> DEFINE new == [visit[v] EXCEPT !.pc = "admit", !.upgrade = TRUE]
    <3>1. visit' = [visit EXCEPT ![v] = new]
      BY <2>3
    <3>2. /\ new.dir = visit[v].dir /\ new.left = visit[v].left
          /\ new.closed = visit[v].closed
      BY <1>1 DEF Visit
    <3> HIDE DEF new
    <3> QED
      BY <2>1, <3>1, <3>2, <1>2
  <2> QED
    BY <1>6, <2>2, <2>3 DEF Arrive
<1>7. CASE Admit(v)
  BY <1>3, <1>4, <1>5, <1>7 DEF Admit
<1>8. CASE Follow(v)
  BY <1>3, <1>4, <1>8 DEF Follow
<1>9. CASE Fetch(v)
  BY <1>3, <1>9 DEF Fetch
<1>10. CASE Dial(v)
  BY <1>3, <1>4, <1>10 DEF Dial
<1>11. CASE Return(v)
  <2> DEFINE new == [visit[v] EXCEPT !.pc = "done", !.answer = "socket",
                                     !.errs = @ - 1, !.closed = TRUE]
  <2>1. visit' = [visit EXCEPT ![v] = new]
    BY <1>11 DEF Return
  <2>2. /\ new.dir = visit[v].dir /\ new.left = visit[v].left
        /\ new.closed /\ new.pc = "done"
    BY <1>1 DEF Visit
  <2> HIDE DEF new
  <2> QED
    BY <2>1, <2>2, <1>2
<1> QED
  BY <1>6, <1>7, <1>8, <1>9, <1>10, <1>11, UpgradeFlow DEF Handle

LEMMA CopyFlow ==
  ASSUME ProxyTypeOK, FlowInv, NEW v \in Visits, NEW d \in Directions, Copy(v, d)
  PROVE  FlowInv'
  BY FlushFlow, ReadFlow, WriteFlow, ReportFlow DEF Copy

-----------------------------------------------------------------------------
(* Hanging up *)

\* What a copier may have met that ends it while both connections are open: the
\* end of all that its source had to say, or a destination that is gone.
Excused(c, d, left) ==
  \/ /\ Source[d] \in left /\ c.wire = <<>> /\ c.hand = <<>>
     /\ c.ahead = <<>> \/ Destination[d] \in left
  \/ Destination[d] \in left /\ c.hand # <<>>

Finished(x, d) == x.dir[d].copier = "gone"

\* The proxy has hung up on somebody's report, and errc holds what is left of them.
Reported(x) ==
  /\ x.closed => x.pc = "done" /\ \E d \in Directions : Finished(x, d) /\ Excused(x.dir[d], d, x.left)
  /\ \A d \in Directions :
       x.dir[d].copier \in {"report", "gone"} => x.closed \/ Excused(x.dir[d], d, x.left)
  /\ x.errs > 0 => \E d \in Directions : Finished(x, d)
  /\ x.errs > 1 => \A d \in Directions : Finished(x, d)
  /\ x.errs <= 2

HangUpInv == \A v \in Visits : Reported(visit[v])

LEMMA OneHangUp ==
  ASSUME ProxyTypeOK, HangUpInv, NEW v \in Visits, NEW new,
         visit' = [visit EXCEPT ![v] = new], Reported(new)
  PROVE  HangUpInv'
<1>1. \A u \in Visits : visit'[u] = IF u = v THEN new ELSE visit[u]
  BY DEF ProxyTypeOK
<1>2. \A u \in Visits : Reported(visit'[u])
  BY <1>1 DEF HangUpInv
<1> QED
  BY <1>2 DEF HangUpInv

\* A step that leaves the copiers and what they hold alone.
LEMMA SameCopiers ==
  ASSUME ProxyTypeOK, HangUpInv, NEW v \in Visits, NEW new,
         visit' = [visit EXCEPT ![v] = new],
         new.dir = visit[v].dir, visit[v].left \subseteq new.left,
         new.closed = visit[v].closed, new.errs = visit[v].errs,
         visit[v].pc = "done" => new.pc = "done"
  PROVE  HangUpInv'
<1>1. Reported(visit[v])
  BY DEF HangUpInv
<1>2. \A d \in Directions : /\ Finished(new, d) <=> Finished(visit[v], d)
                            /\ Excused(visit[v].dir[d], d, visit[v].left)
                                 => Excused(new.dir[d], d, new.left)
  BY DEF Finished, Excused
<1>3. Reported(new)
  BY <1>1, <1>2 DEF Reported
<1> QED
  BY <1>3, OneHangUp

\* A step of one direction that stops a copier only for a reason, and takes no
\* reason away.
LEMMA HangUpBecomes ==
  ASSUME ProxyTypeOK, HangUpInv, NEW v \in Visits, NEW d \in Directions, NEW c,
         Becomes(v, d, c),
         c.copier = "gone" <=> visit[v].dir[d].copier = "gone",
         visit[v].dir[d].copier \in {"report", "gone"}
           /\ Excused(visit[v].dir[d], d, visit[v].left) => Excused(c, d, visit[v].left),
         c.copier \in {"report", "gone"} =>
           \/ visit[v].dir[d].copier \in {"report", "gone"}
           \/ visit[v].closed \/ Excused(c, d, visit[v].left)
  PROVE  HangUpInv'
<1> DEFINE x == visit[v]
           new == [x EXCEPT !.dir[d] = c]
<1>1. x \in Visit /\ visit' = [visit EXCEPT ![v] = new]
  BY DEF Becomes, ProxyTypeOK
<1>2. /\ new.pc = x.pc /\ new.left = x.left /\ new.closed = x.closed /\ new.errs = x.errs
      /\ \A e \in Directions : new.dir[e] = IF e = d THEN c ELSE x.dir[e]
  BY <1>1 DEF Visit
<1>3. Reported(x)
  BY DEF HangUpInv
<1> HIDE DEF new
<1>4. \A e \in Directions : /\ Finished(new, e) <=> Finished(x, e)
                            /\ x.dir[e].copier \in {"report", "gone"}
                                 /\ Excused(x.dir[e], e, x.left)
                                 => Excused(new.dir[e], e, new.left)
  BY <1>2 DEF Finished
<1>5. \A e \in Directions : new.dir[e].copier \in {"report", "gone"} =>
        \/ x.dir[e].copier \in {"report", "gone"}
        \/ x.closed \/ Excused(new.dir[e], e, new.left)
  BY <1>2
<1> HIDE DEF x
<1>6. Reported(new)
  BY <1>2, <1>3, <1>4, <1>5 DEF Reported, Finished
<1> QED
  BY <1>1, <1>6, OneHangUp

LEMMA InitHangUp == ProxyInit => HangUpInv
<1>1. Reported(NoVisit)
  BY DEF Reported, Finished, NoVisit, NoData
<1> QED
  BY <1>1 DEF ProxyInit, HangUpInv

LEMMA EndsHangUp ==
  ASSUME ProxyTypeOK, HangUpInv, NEW v \in Visits, Ends(v)
  PROVE  HangUpInv'
<1>1. visit[v] \in Visit /\ \A d \in Directions : visit[v].dir[d] \in Direction
  BY DEF ProxyTypeOK, Visit
<1>2. ASSUME NEW d \in Directions, Send(v, d) PROVE HangUpInv'
  <2> DEFINE c == visit[v].dir[d]
             new == [c EXCEPT !.sent = @ + 1, !.wire = Append(@, c.sent + 1)]
  <2>1. Becomes(v, d, new) /\ Source[d] \notin visit[v].left
    BY <1>2 DEF Send, Connected
  <2>2. new.copier = c.copier /\ new.hand = c.hand
    BY <1>1 DEF Direction
  <2> HIDE DEF new
  <2>3. Excused(c, d, visit[v].left) => Excused(new, d, visit[v].left)
    BY <2>1, <2>2 DEF Excused
  <2> QED
    BY <2>1, <2>2, <2>3, HangUpBecomes
<1>3. ASSUME NEW d \in Directions, Receive(v, d) PROVE HangUpInv'
  <2> DEFINE c == visit[v].dir[d]
             new == [c EXCEPT !.got = Append(@, Head(c.written)), !.written = Tail(@)]
  <2>1. Becomes(v, d, new)
    BY <1>3 DEF Receive
  <2>2. /\ new.copier = c.copier /\ new.hand = c.hand
        /\ new.wire = c.wire /\ new.ahead = c.ahead
    BY <1>1 DEF Direction
  <2> HIDE DEF new
  <2>3. Excused(c, d, visit[v].left) => Excused(new, d, visit[v].left)
    BY <2>2 DEF Excused
  <2> QED
    BY <2>1, <2>2, <2>3, HangUpBecomes
<1>4. ASSUME NEW s \in {"client", "backend"}, Leave(v, s) PROVE HangUpInv'
  <2> DEFINE new == [visit[v] EXCEPT !.left = @ \cup {s}]
  <2>1. visit' = [visit EXCEPT ![v] = new]
    BY <1>4 DEF Leave
  <2>2. /\ new.dir = visit[v].dir /\ visit[v].left \subseteq new.left
        /\ new.closed = visit[v].closed /\ new.pc = visit[v].pc /\ new.errs = visit[v].errs
    BY <1>1 DEF Visit
  <2> HIDE DEF new
  <2> QED
    BY <2>1, <2>2, SameCopiers
<1> QED
  BY <1>2, <1>3, <1>4 DEF Ends

\* A copier that goes on, or stops with a reason.
LEMMA CopierHangUp ==
  ASSUME ProxyTypeOK, HangUpInv, NEW v \in Visits, NEW d \in Directions, NEW c,
         Becomes(v, d, c), visit[v].dir[d].copier \in {"flush", "copy"},
         \/ c.copier = "copy"
         \/ c.copier = "report" /\ (visit[v].closed \/ Excused(c, d, visit[v].left))
  PROVE  HangUpInv'
BY HangUpBecomes

LEMMA FlushHangUp ==
  ASSUME ProxyTypeOK, HangUpInv, NEW v \in Visits, Flush(v)
  PROVE  HangUpInv'
<1> DEFINE c == visit[v].dir["up"]
           flushed == [c EXCEPT !.copier = "copy", !.written = @ \o c.ahead, !.ahead = <<>>]
           dropped == [c EXCEPT !.copier = "copy"]
<1>1. "up" \in Directions /\ c \in Direction /\ c.copier = "flush"
  BY DEF ProxyTypeOK, Visit, Directions, Flush
<1>2. flushed.copier = "copy" /\ dropped.copier = "copy"
  BY <1>1 DEF Direction
<1>3. Becomes(v, "up", flushed) \/ Becomes(v, "up", dropped)
  BY DEF Flush
<1> HIDE DEF flushed, dropped
<1> QED
  BY <1>1, <1>2, <1>3, CopierHangUp

LEMMA ReadHangUp ==
  ASSUME ProxyTypeOK, FlowInv, HangUpInv, NEW v \in Visits, NEW d \in Directions, Read(v, d)
  PROVE  HangUpInv'
<1> DEFINE c == visit[v].dir[d]
           read == [c EXCEPT !.hand = <<Head(c.wire)>>, !.wire = Tail(@)]
           ended == [c EXCEPT !.copier = "report"]
<1>1. c \in Direction /\ c.copier = "copy" /\ c.hand = <<>>
  BY DEF ProxyTypeOK, Visit, Read
<1>2. /\ read.copier = "copy" /\ ended.copier = "report" /\ ended.wire = c.wire
      /\ ended.hand = c.hand /\ ended.ahead = c.ahead
  BY <1>1 DEF Direction
<1>3. Destination[d] \in visit[v].left \/ c.ahead = <<>> \/ visit[v].closed
  BY <1>1 DEF FlowInv, Flowing, Phased
<1>4. \/ Becomes(v, d, read)
      \/ /\ Becomes(v, d, ended)
         /\ visit[v].closed \/ (c.wire = <<>> /\ Source[d] \in visit[v].left)
  BY DEF Read
<1> HIDE DEF read, ended
<1>5. \/ Becomes(v, d, read)
      \/ Becomes(v, d, ended) /\ (visit[v].closed \/ Excused(ended, d, visit[v].left))
  BY <1>1, <1>2, <1>3, <1>4 DEF Excused
<1> QED
  BY <1>1, <1>2, <1>5, CopierHangUp

LEMMA WriteHangUp ==
  ASSUME ProxyTypeOK, HangUpInv, NEW v \in Visits, NEW d \in Directions, Write(v, d)
  PROVE  HangUpInv'
<1> DEFINE c == visit[v].dir[d]
           passed == [c EXCEPT !.written = @ \o c.hand, !.hand = <<>>]
           failed == [c EXCEPT !.copier = "report"]
<1>1. c \in Direction /\ c.copier = "copy" /\ c.hand # <<>>
  BY DEF ProxyTypeOK, Visit, Write
<1>2. passed.copier = "copy" /\ failed.copier = "report" /\ failed.hand = c.hand
  BY <1>1 DEF Direction
<1>3. Becomes(v, d, passed) \/ (Broken(v, d) /\ Becomes(v, d, failed))
  BY DEF Write
<1> HIDE DEF passed, failed
<1>4. Broken(v, d) => visit[v].closed \/ Excused(failed, d, visit[v].left)
  BY <1>1, <1>2 DEF Broken, Excused
<1> QED
  BY <1>1, <1>2, <1>3, <1>4, CopierHangUp

LEMMA ReportHangUp ==
  ASSUME ProxyTypeOK, HangUpInv, NEW v \in Visits, NEW d \in Directions, Report(v, d)
  PROVE  HangUpInv'
<1> DEFINE x == visit[v]
           c == x.dir[d]
           new == [x EXCEPT !.dir[d].copier = "gone", !.errs = @ + 1]
<1>1. x \in Visit /\ c \in Direction /\ c.copier = "report" /\ x.errs < 2 /\ x.errs \in Nat
  BY DEF ProxyTypeOK, Visit, Report, Room
<1>2. /\ new.pc = x.pc /\ new.left = x.left /\ new.closed = x.closed
      /\ new.errs = x.errs + 1 /\ new.dir[d].copier = "gone"
      /\ new.dir[d].wire = c.wire /\ new.dir[d].hand = c.hand /\ new.dir[d].ahead = c.ahead
      /\ \A e \in Directions : e # d => new.dir[e] = x.dir[e]
  BY <1>1 DEF Visit, Direction
<1>3. visit' = [visit EXCEPT ![v] = new]
  BY <1>1 DEF Report, ProxyTypeOK, Visit
<1>4. Reported(x)
  BY DEF HangUpInv
<1> HIDE DEF new
<1>5. \A e \in Directions : Excused(x.dir[e], e, x.left) => Excused(new.dir[e], e, new.left)
  BY <1>2 DEF Excused
<1>6. \A e \in Directions : /\ Finished(x, e) \/ e = d <=> Finished(new, e)
                            /\ new.dir[e].copier \in {"report", "gone"}
                                 => x.dir[e].copier \in {"report", "gone"}
  BY <1>1, <1>2 DEF Finished
<1>7. new.errs <= 2 /\ (new.errs > 1 => x.errs > 0)
  BY <1>1, <1>2
<1>8. ~Finished(x, d)
  BY <1>1 DEF Finished
<1> HIDE DEF x
<1>9. Reported(new)
  <2>1. new.closed => new.pc = "done" /\ \E e \in Directions : Finished(new, e) /\ Excused(new.dir[e], e, new.left)
    BY <1>2, <1>4, <1>5, <1>6 DEF Reported
  <2>2. \A e \in Directions :
          new.dir[e].copier \in {"report", "gone"} => new.closed \/ Excused(new.dir[e], e, new.left)
    BY <1>2, <1>4, <1>5, <1>6 DEF Reported
  <2>3. new.errs > 1 => \A e \in Directions : Finished(new, e)
    <3>1. x.errs > 0 => \E e \in Directions : Finished(x, e)
      BY <1>4 DEF Reported
    <3> QED
      BY <3>1, <1>6, <1>7, <1>8 DEF Directions
  <2> QED
    BY <2>1, <2>2, <2>3, <1>6, <1>7 DEF Reported
<1> QED
  BY <1>3, <1>9, OneHangUp

LEMMA UpgradeHangUp ==
  ASSUME ProxyTypeOK, FlowInv, HangUpInv, NEW v \in Visits, Upgrade(v)
  PROVE  HangUpInv'
<1> DEFINE x == visit[v]
           up == x.dir["up"]
           down == x.dir["down"]
           upper(n) == [up EXCEPT !.ahead = SubSeq(up.wire, 1, n),
                                  !.wire = SubSeq(@, n + 1, Len(@)),
                                  !.copier = "flush"]
           lower == [down EXCEPT !.copier = "copy"]
<1>1. /\ x \in Visit /\ up \in Direction /\ down \in Direction
      /\ x.pc = "upgrade" /\ Reported(x) /\ x.errs \in Nat
  BY DEF ProxyTypeOK, Visit, Directions, Upgrade, HangUpInv
<1>2. \A d \in Directions : x.dir[d].copier = "none"
  BY <1>1 DEF FlowInv, Unstarted
<1>3. ASSUME NEW a, Over(v, a) PROVE HangUpInv'
  <2> DEFINE new == [x EXCEPT !.pc = "done", !.answer = a]
  <2>1. visit' = [visit EXCEPT ![v] = new]
    BY <1>3 DEF Over
  <2>2. /\ new.dir = x.dir /\ new.left = x.left /\ new.closed = x.closed
        /\ new.errs = x.errs /\ new.pc = "done"
    BY <1>1 DEF Visit
  <2> HIDE DEF new
  <2> QED
    BY <2>1, <2>2, SameCopiers
<1>4. ASSUME NEW n \in 0..Len(up.wire),
             visit' = [visit EXCEPT ![v].pc = "piping",
                                    ![v].dir = [up |-> upper(n), down |-> lower]]
      PROVE  HangUpInv'
  <2> DEFINE new == [x EXCEPT !.pc = "piping", !.dir = [up |-> upper(n), down |-> lower]]
  <2>1. visit' = [visit EXCEPT ![v] = new]
    BY <1>4
  <2>2. upper(n).copier = "flush" /\ lower.copier = "copy"
    BY <1>1 DEF Direction
  <2> HIDE DEF upper, lower
  <2>3. /\ new.left = x.left /\ new.closed = x.closed /\ new.errs = x.errs
        /\ new.dir["up"] = upper(n) /\ new.dir["down"] = lower
    BY <1>1 DEF Visit
  <2> HIDE DEF new
  <2>4. ~x.closed /\ x.errs = 0
    BY <1>1, <1>2 DEF Reported, Finished
  <2>5. Reported(new)
    BY <2>2, <2>3, <2>4 DEF Reported, Directions
  <2> QED
    BY <2>1, <2>5, OneHangUp
<1> QED
  BY <1>3, <1>4 DEF Upgrade

\* The handler hangs up on a report that it takes out of errc.
LEMMA ReturnHangUp ==
  ASSUME ProxyTypeOK, HangUpInv, NEW v \in Visits, Return(v)
  PROVE  HangUpInv'
<1> DEFINE x == visit[v]
           new == [x EXCEPT !.pc = "done", !.answer = "socket",
                            !.errs = @ - 1, !.closed = TRUE]
<1>1. x \in Visit /\ x.errs \in Nat /\ x.errs > 0 /\ x.pc = "piping" /\ Reported(x)
  BY DEF ProxyTypeOK, Visit, Return, HangUpInv
<1>2. visit' = [visit EXCEPT ![v] = new]
  BY DEF Return
<1>3. /\ new.dir = x.dir /\ new.left = x.left /\ new.closed /\ new.pc = "done"
      /\ new.errs = x.errs - 1
  BY <1>1 DEF Visit
<1> HIDE DEF new, x
<1>4. \E d \in Directions : Finished(x, d) /\ Excused(x.dir[d], d, x.left)
  BY <1>1 DEF Reported, Finished
<1>5. \A d \in Directions : Finished(x, d) <=> Finished(new, d)
  BY <1>3 DEF Finished
<1>6. /\ new.errs <= 2 /\ ~(new.errs > 1)
      /\ new.errs > 0 => x.errs > 1
  BY <1>1, <1>3 DEF Reported
<1>7. Reported(new)
  BY <1>1, <1>3, <1>4, <1>5, <1>6 DEF Reported, Directions
<1> QED
  BY <1>2, <1>7, OneHangUp DEF x

LEMMA HandleHangUp ==
  ASSUME ProxyTypeOK, FlowInv, HangUpInv, NEW v \in Visits, Arrive(v) \/ Handle(v)
  PROVE  HangUpInv'
<1>1. visit[v] \in Visit
  BY DEF ProxyTypeOK
<1>2. ASSUME NEW new, visit' = [visit EXCEPT ![v] = new],
             new.dir = visit[v].dir, new.left = visit[v].left,
             new.closed = visit[v].closed, new.errs = visit[v].errs,
             visit[v].pc = "done" => new.pc = "done"
      PROVE  HangUpInv'
  BY <1>2, SameCopiers
<1>3. ASSUME NEW a, Over(v, a) PROVE HangUpInv'
  <2> DEFINE new == [visit[v] EXCEPT !.pc = "done", !.answer = a]
  <2>1. visit' = [visit EXCEPT ![v] = new]
    BY <1>3 DEF Over
  <2>2. /\ new.dir = visit[v].dir /\ new.left = visit[v].left
        /\ new.closed = visit[v].closed /\ new.errs = visit[v].errs /\ new.pc = "done"
    BY <1>1 DEF Visit
  <2> HIDE DEF new
  <2> QED
    BY <2>1, <2>2, <1>2
<1>4. ASSUME NEW p, GoesTo(v, p), visit[v].pc # "done" PROVE HangUpInv'
  <2> DEFINE new == [visit[v] EXCEPT !.pc = p]
  <2>1. visit' = [visit EXCEPT ![v] = new]
    BY <1>4 DEF GoesTo
  <2>2. /\ new.dir = visit[v].dir /\ new.left = visit[v].left
        /\ new.closed = visit[v].closed /\ new.errs = visit[v].errs
    BY <1>1 DEF Visit
  <2> HIDE DEF new
  <2> QED
    BY <2>1, <2>2, <1>2, <1>4
<1>5. ASSUME NEW t, Redirect(v, t), visit[v].pc # "done" PROVE HangUpInv'
  <2> DEFINE new == [visit[v] EXCEPT !.pc = "follow", !.hops = visit[v].hops + 1,
                                     !.route = "web", !.rest = "/", !.token = t]
  <2>1. visit' = [visit EXCEPT ![v] = new]
    BY <1>1, <1>5 DEF Redirect, Visit
  <2>2. /\ new.dir = visit[v].dir /\ new.left = visit[v].left
        /\ new.closed = visit[v].closed /\ new.errs = visit[v].errs
    BY <1>1 DEF Visit
  <2> HIDE DEF new
  <2> QED
    BY <2>1, <2>2, <1>2, <1>5
<1>6. CASE Arrive(v)
  <2>1. visit[v].pc = "none"
    BY <1>6 DEF Arrive
  <2>2. ASSUME NEW route \in Routes, NEW rest \in Rests, NEW token \in BOOLEAN,
               visit' = [visit EXCEPT ![v].pc = "admit", ![v].route = route,
                                      ![v].rest = rest, ![v].token = token]
        PROVE  HangUpInv'
    <3> DEFINE new == [visit[v] EXCEPT !.pc = "admit", !.route = route,
                                       !.rest = rest, !.token = token]
    <3>1. visit' = [visit EXCEPT ![v] = new]
      BY <2>2
    <3>2. /\ new.dir = visit[v].dir /\ new.left = visit[v].left
          /\ new.closed = visit[v].closed /\ new.errs = visit[v].errs
      BY <1>1 DEF Visit
    <3> HIDE DEF new
    <3> QED
      BY <2>1, <3>1, <3>2, <1>2
  <2>3. CASE visit' = [visit EXCEPT ![v].pc = "admit", ![v].upgrade = TRUE]
    <3> DEFINE new == [visit[v] EXCEPT !.pc = "admit", !.upgrade = TRUE]
    <3>1. visit' = [visit EXCEPT ![v] = new]
      BY <2>3
    <3>2. /\ new.dir = visit[v].dir /\ new.left = visit[v].left
          /\ new.closed = visit[v].closed /\ new.errs = visit[v].errs
      BY <1>1 DEF Visit
    <3> HIDE DEF new
    <3> QED
      BY <2>1, <3>1, <3>2, <1>2
  <2> QED
    BY <1>6, <2>2, <2>3 DEF Arrive
<1>7. CASE Admit(v)
  BY <1>3, <1>4, <1>5, <1>7 DEF Admit
<1>8. CASE Follow(v)
  BY <1>3, <1>4, <1>8 DEF Follow
<1>9. CASE Fetch(v)
  BY <1>3, <1>9 DEF Fetch
<1>10. CASE Dial(v)
  BY <1>3, <1>4, <1>10 DEF Dial
<1> QED
  BY <1>6, <1>7, <1>8, <1>9, <1>10, UpgradeHangUp, ReturnHangUp DEF Handle

LEMMA CopyHangUp ==
  ASSUME ProxyTypeOK, FlowInv, HangUpInv, NEW v \in Visits, NEW d \in Directions, Copy(v, d)
  PROVE  HangUpInv'
  BY FlushHangUp, ReadHangUp, WriteHangUp, ReportHangUp DEF Copy

-----------------------------------------------------------------------------
(* All of it *)

TrafficInv == ProcessTypeOK /\ MessagesInv /\ ProxyInv

LEMMA InitHolds == Init => TrafficInv
  BY ProcessInitTypes, MessagesInitKeeps, ProxyInitKeeps
  DEF Init, TrafficInv

LEMMA StepHolds ==
  ASSUME TrafficInv, [Next]_vars
  PROVE  TrafficInv'
<1>1. ProcessTypeOK'
  <2>1. CASE proc' = proc /\ told' = told
    BY <2>1 DEF TrafficInv, ProcessTypeOK
  <2>2. CASE Main(Busy, Held)
    BY <2>2, MainTypes DEF TrafficInv
  <2> QED
    BY <2>1, <2>2
    DEF Next, Receives, HandleEvents, NotifyInstanceReady, Acquire, Proceed, Expire, Arrive,
        Handle, Ends, Copy, process, vars
<1>2. MessagesInv'
  <2>1. CASE job' = job
    BY <2>1 DEF TrafficInv, MessagesInv, MessagesTypeOK, Spoken, Separate, Reasoned
  <2>2. CASE \E j \in Jobs : Receives(j) \/ Acquire(j) \/ Proceed(j) \/ Expire(j)
    BY <2>2, ReceivesKeeps, ProceedKeeps, ExpireKeeps DEF TrafficInv
  <2> QED
    BY <2>1, <2>2 DEF Next, vars
<1>3. ProxyInv'
  <2>1. CASE visit' = visit
    BY <2>1 DEF TrafficInv, ProxyInv, ProxyTypeOK
  <2>2. CASE \E v \in Visits : Arrive(v) \/ Handle(v) \/ Ends(v) \/ \E d \in Directions : Copy(v, d)
    BY <2>2, ArriveKeeps, HandleKeeps, EndsKeep, CopyKeeps DEF TrafficInv
  <2> QED
    BY <2>1, <2>2 DEF Next, vars
<1> QED
  BY <1>1, <1>2, <1>3 DEF TrafficInv

\* The invariant that the safety properties of the traffic rest on holds for any
\* number of requests, messages and notices, and any amount of data.
THEOREM TrafficInvariant == Spec => []TrafficInv
<1>1. TrafficInv /\ [Next]_vars => TrafficInv'
  BY StepHolds
<1> QED
  BY InitHolds, <1>1, PTL DEF Spec

\* Processes, messages and visits keep to their types.
THEOREM TypesHold == Spec => []TypeOK
<1>1. TrafficInv => TypeOK
  BY DEF TrafficInv, MessagesInv, ProxyInv, TypeOK
<1> QED
  BY <1>1, TrafficInvariant, PTL

\* A goroutine that ends without a message was out of time or was refused by
\* Slack, or it is a notice's that found nobody to write to or no answer in the
\* database (events.go:62-103, bot.go:161-189).
THEOREM SilenceHasCauseHolds == Spec => []SilenceHasCause
<1>1. TrafficInv => SilenceHasCause
  BY DEF TrafficInv, MessagesInv, Reasoned, Accounted, SilenceHasCause
<1> QED
  BY <1>1, TrafficInvariant, PTL

\* No browser follows more than two redirects (proxy.go:106, 143).
THEOREM RedirectsEndHolds == Spec => []RedirectsEnd
<1>1. TrafficInv => RedirectsEnd
  BY DEF TrafficInv, ProxyInv, ProxyTypeOK, Visit, Redirected, RedirectsEnd
<1> QED
  BY <1>1, TrafficInvariant, PTL

LEMMA FlowHolds ==
  ASSUME TrafficInv, FlowInv, [Next]_vars
  PROVE  FlowInv'
<1>1. CASE visit' = visit
  BY <1>1 DEF FlowInv
<1>2. CASE \E v \in Visits : Arrive(v) \/ Handle(v) \/ Ends(v) \/ \E d \in Directions : Copy(v, d)
  BY <1>2, HandleFlow, EndsFlow, CopyFlow DEF TrafficInv, ProxyInv
<1> QED
  BY <1>1, <1>2 DEF Next, vars

\* The parts of a direction are consecutive numbers, as long as its destination
\* stays, and a copier holds nothing it should have passed on.
LEMMA FlowInvariant == Spec => []FlowInv
<1>1. Init => FlowInv
  BY InitFlows DEF Init
<1>2. TrafficInv /\ FlowInv /\ [Next]_vars => FlowInv'
  BY FlowHolds
<1> QED
  BY <1>1, <1>2, TrafficInvariant, PTL DEF Spec

\* The numbers 1, 2, 3 and so on.
Counted(s) == s = [i \in 1..Len(s) |-> i]

\* The first three parts of a line of consecutive numbers count from 1.
LEMMA LineCounts ==
  ASSUME NEW g \in Seq(Nat), NEW w \in Seq(Nat), NEW h \in Seq(Nat),
         NEW a \in Seq(Nat), NEW z \in Seq(Nat), NEW n \in Nat, Line(g, w, h, a, z, n)
  PROVE  Counted(g \o w \o h)
<1> DEFINE passed == g \o w \o h
<1>1. g \o w \in Seq(Nat) /\ passed \in Seq(Nat) /\ Len(g) \in Nat /\ Len(w) \in Nat
  OBVIOUS
<1>2. Runs(g, 0) /\ Runs(w, Len(g)) /\ Runs(h, Len(g) + Len(w))
  BY DEF Line
<1>3. Runs(g \o w, 0) /\ Len(g \o w) = Len(g) + Len(w)
  <2>1. Runs(w, 0 + Len(g))
    BY <1>1, <1>2
  <2> QED
    BY <1>2, <2>1, RunsConcat
<1>4. Runs(passed, 0)
  <2>1. Runs(h, 0 + Len(g \o w))
    BY <1>1, <1>2, <1>3
  <2> QED
    BY <1>1, <1>3, <2>1, RunsConcat
<1> HIDE DEF passed
<1>5. passed = [i \in 1..Len(passed) |-> passed[i]]
  BY <1>1
<1>6. \A i \in 1..Len(passed) : passed[i] = i
  BY <1>4 DEF Runs
<1>7. passed = [i \in 1..Len(passed) |-> i]
  BY <1>5, <1>6
<1> QED
  BY <1>7 DEF passed, Counted

\* What an end of a WebSocket has received, and what is on its way, is what the
\* other end has sent, in order and without a gap, unless the first is gone
\* (proxy.go:227-252).
THEOREM InOrderHolds == Spec => []InOrder
<1>1. TrafficInv /\ FlowInv => InOrder
  <2> SUFFICES ASSUME ProxyTypeOK, FlowInv, NEW v \in Visits, NEW d \in Directions,
                      Destination[d] \notin visit[v].left
               PROVE  LET c == visit[v].dir[d]
                          passed == c.got \o c.written \o c.hand
                      IN  passed = [i \in 1..Len(passed) |-> i]
    BY DEF TrafficInv, ProxyInv, InOrder
  <2> DEFINE c == visit[v].dir[d]
  <2>1. c \in Direction /\ Ordered(c)
    BY DEF ProxyTypeOK, Visit, FlowInv, Flowing
  <2> HIDE DEF c
  <2>2. Counted(c.got \o c.written \o c.hand)
    <3>1. /\ c.got \in Seq(Nat) /\ c.written \in Seq(Nat) /\ c.hand \in Seq(Nat)
          /\ c.ahead \in Seq(Nat) /\ c.wire \in Seq(Nat) /\ c.sent \in Nat
          /\ Line(c.got, c.written, c.hand, c.ahead, c.wire, c.sent)
      BY <2>1, DirectionSeqs DEF Ordered
    <3> QED
      BY <3>1, LineCounts, Zenon
  <2> QED
    BY <2>2, Zenon DEF c, Counted
<1> QED
  BY <1>1, FlowInvariant, TrafficInvariant, PTL

LEMMA HangUpHolds ==
  ASSUME TrafficInv, FlowInv, HangUpInv, [Next]_vars
  PROVE  HangUpInv'
<1>1. CASE visit' = visit
  BY <1>1 DEF HangUpInv
<1>2. CASE \E v \in Visits : Arrive(v) \/ Handle(v) \/ Ends(v) \/ \E d \in Directions : Copy(v, d)
  BY <1>2, HandleHangUp, EndsHangUp, CopyHangUp DEF TrafficInv, ProxyInv
<1> QED
  BY <1>1, <1>2 DEF Next, vars

\* The proxy hangs up only on the report of a copier, and that copier had met the
\* end of what its source had to say, or a destination that was gone
\* (proxy.go:235-251).
THEOREM HangUpInvariant == Spec => []HangUpInv
<1>1. Init => HangUpInv
  BY InitHangUp DEF Init
<1>2. TrafficInv /\ FlowInv /\ HangUpInv /\ [Next]_vars => HangUpInv'
  BY HangUpHolds
<1> QED
  BY <1>1, <1>2, TrafficInvariant, FlowInvariant, PTL DEF Spec

\* Nobody is cut off in the middle of what the other end had said before it left
\* (proxy.go:251).
THEOREM HungUpAfterLastWordHolds == Spec => []HungUpAfterLastWord
<1>1. ProxyTypeOK /\ HangUpInv => HungUpAfterLastWord
  <2> SUFFICES ASSUME ProxyTypeOK, HangUpInv, NEW v \in Visits, visit[v].closed
               PROVE  \E d, back \in Directions :
                        /\ d # back /\ Source[d] \in visit[v].left
                        /\ \/ LET c == visit[v].dir[d] IN c.wire \o c.ahead \o c.hand = <<>>
                           \/ Destination[d] \in visit[v].left
                           \/ visit[v].dir[back].hand # <<>>
    BY DEF HungUpAfterLastWord
  <2> DEFINE x == visit[v]
             other == [up |-> "down", down |-> "up"]
  <2>1. PICK d \in Directions : Excused(x.dir[d], d, x.left)
    BY DEF HangUpInv, Reported
  <2>2. /\ other[d] \in Directions /\ other[d] # d
        /\ Source[other[d]] = Destination[d]
    BY DEF Directions, Source, Destination
  <2>3. CASE Destination[d] \in x.left /\ x.dir[d].hand # <<>>
    BY <2>2, <2>3
  <2>4. CASE /\ Source[d] \in x.left /\ x.dir[d].wire = <<>> /\ x.dir[d].hand = <<>>
             /\ x.dir[d].ahead = <<>> \/ Destination[d] \in x.left
    <3>1. <<>> \o <<>> \o <<>> = <<>>
      OBVIOUS
    <3> QED
      BY <2>2, <2>4, <3>1
  <2> QED
    BY <2>1, <2>3, <2>4 DEF Excused
<1> QED
  BY <1>1, TrafficInvariant, HangUpInvariant, PTL DEF TrafficInv, ProxyInv

\* A copier with a report to make finds room for it in errc, whether or not the
\* handler still listens (proxy.go:235): no goroutine is left behind there.
THEOREM ReportsFindRoom ==
  Spec => [](\A v \in Visits, d \in Directions : visit[v].dir[d].copier = "report" => Room(v))
<1>1. ProxyTypeOK /\ HangUpInv =>
        \A v \in Visits, d \in Directions : visit[v].dir[d].copier = "report" => Room(v)
  <2> SUFFICES ASSUME ProxyTypeOK, HangUpInv, NEW v \in Visits, NEW d \in Directions,
                      visit[v].dir[d].copier = "report"
               PROVE  Room(v)
    OBVIOUS
  <2>1. ~Finished(visit[v], d) /\ Reported(visit[v]) /\ visit[v].errs \in Nat
    BY DEF Finished, HangUpInv, ProxyTypeOK, Visit
  <2> QED
    BY <2>1 DEF Reported, Room
<1> QED
  BY <1>1, TrafficInvariant, HangUpInvariant, PTL DEF TrafficInv, ProxyInv

=============================================================================
