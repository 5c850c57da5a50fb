-------------------------------- MODULE Proxy --------------------------------
(***************************************************************************)
(* The reverse proxy to a user's instance (internal/handler/proxy.go):     *)
(* who is let through, where to, the redirects on the way, and the two     *)
(* goroutines that carry a WebSocket's data.                               *)
(*                                                                         *)
(* External are the browser, the instance behind the service, and TCP: the *)
(* bytes of a direction arrive in order, writing may succeed although the  *)
(* other end is gone, and an end that is gone reads nothing.               *)
(***************************************************************************)
EXTENDS ServerProcess, Sequences

CONSTANTS
  Visits,    \* requests of a browser, with the redirects it follows
  Volume,    \* [Directions -> Nat]: how much an end sends in a direction
  Window     \* how much TCP takes that the destination has not read

VARIABLE visit   \* [Visits -> Visit]

Directions == {"up", "down"}
Source == [up |-> "client", down |-> "backend"]
Destination == [up |-> "backend", down |-> "client"]

\* A path is a route and the rest.  "bare" is /proxy itself, "else" a path that
\* starts with none of the three prefixes.
Routes == {"bare", "web", "tui", "shell", "else"}
Rests == {"", "/", "page"}

\* classifyProxyPath: what is not a terminal's is the web UI's.
IsWeb(route) == route \notin {"tui", "shell"}

\* One direction of a WebSocket: what has been sent so far; what the proxy has
\* not read; what the HTTP server had read ahead; what the copier has in its
\* hand; what it has written; what has been received.
Direction ==
  [sent: Nat, wire: Seq(Nat), ahead: Seq(Nat), hand: Seq(Nat),
   written: Seq(Nat), got: Seq(Nat),
   copier: {"none", "flush", "copy", "report", "gone"}]

\* "hops" counts redirects, "left" are the ends that have closed, "errs" is the
\* content of the channel errc, "closed" says that both connections are.
Visit ==
  [pc: {"none", "follow", "admit", "fetch", "dial", "upgrade", "piping", "done"},
   upgrade: BOOLEAN, route: Routes, rest: Rests, token: BOOLEAN, hops: Nat,
   answer: {"none", "refused", "404", "503", "502", "500", "page", "socket"},
   dir: [Directions -> Direction],
   left: SUBSET {"client", "backend"}, errs: Nat, closed: BOOLEAN]

NoData == [sent |-> 0, wire |-> <<>>, ahead |-> <<>>, hand |-> <<>>,
           written |-> <<>>, got |-> <<>>, copier |-> "none"]

NoVisit ==
  [pc |-> "none", upgrade |-> FALSE, route |-> "bare", rest |-> "",
   token |-> FALSE, hops |-> 0, answer |-> "none", dir |-> [d \in Directions |-> NoData],
   left |-> {}, errs |-> 0, closed |-> FALSE]

ProxyInit == visit = [v \in Visits |-> NoVisit]

\* What Shutdown waits for: requests that are neither answered nor hijacked.
Busy == \E v \in Visits : visit[v].pc \in {"admit", "fetch", "dial", "upgrade"}

Over(v, a) == visit' = [visit EXCEPT ![v].pc = "done", ![v].answer = a]

GoesTo(v, p) == visit' = [visit EXCEPT ![v].pc = p]

Becomes(v, d, c) == visit' = [visit EXCEPT ![v].dir[d] = c]

-----------------------------------------------------------------------------
(* Requests *)

\* stripRoutePrefix leaves "/" where nothing follows the prefix.  (Of a path that
\* has no prefix it cuts off the length of the web route's.)
IsFront(v) == visit[v].rest \in {"", "/"}

\* /proxy/* goes to ProxyToInstance; an upgrade, whatever its path, goes to
\* WebSocketMiddleware before that.
Arrive(v) ==
  /\ Listening /\ visit[v].pc = "none"
  /\ \/ \E route \in Routes, rest \in Rests, token \in BOOLEAN :
          visit' = [visit EXCEPT ![v].pc = "admit", ![v].route = route,
                                 ![v].rest = rest, ![v].token = token]
     \/ visit' = [visit EXCEPT ![v].pc = "admit", ![v].upgrade = TRUE]
  /\ UNCHANGED process

\* The browser asks for what it was redirected to, if the server still listens.
Follow(v) ==
  /\ visit[v].pc = "follow"
  /\ \/ Listening /\ GoesTo(v, "admit")
     \/ ~Listening /\ Over(v, "refused")

Redirect(v, token) ==
  visit' = [visit EXCEPT ![v].pc = "follow", ![v].hops = @ + 1,
                         ![v].route = "web", ![v].rest = "/", ![v].token = token]

Bare(v) == ~visit[v].upgrade /\ visit[v].route = "bare"

\* Mutant: a redirect whenever there is a token, whether or not the request has it.
NeedsTokenAlways(v) == IsWeb(visit[v].route) /\ IsFront(v)

\* The front page of the web UI takes its token from the address.
NeedsToken(v) == IsWeb(visit[v].route) /\ IsFront(v) /\ ~visit[v].token

\* Unless the path alone says where to: there is no instance or the look-up
\* fails, the instance is not Running, or it is.
Admit(v) ==
  /\ Alive /\ visit[v].pc = "admit"
  /\ \/ Bare(v) /\ Redirect(v, FALSE)
     \/ ~Bare(v) /\ \E a \in {"404", "503"} : Over(v, a)
     \/ visit[v].upgrade /\ GoesTo(v, "dial")
     \/ ~Bare(v) /\ ~visit[v].upgrade /\ NeedsToken(v) /\ Redirect(v, TRUE)
     \/ ~Bare(v) /\ ~visit[v].upgrade /\ ~NeedsToken(v) /\ GoesTo(v, "fetch")

\* httputil.ReverseProxy: the instance's answer, or 502.
Fetch(v) ==
  /\ Alive /\ visit[v].pc = "fetch"
  /\ \E a \in {"page", "502"} : Over(v, a)

-----------------------------------------------------------------------------
(* proxyWebSocket: getting there *)

Dial(v) ==
  /\ Alive /\ visit[v].pc = "dial"
  /\ GoesTo(v, "upgrade") \/ Over(v, "502")

\* The request is passed on and the client's connection taken over, with what
\* the HTTP server has read ahead of it.
Upgrade(v) ==
  LET up == visit[v].dir["up"]
      down == visit[v].dir["down"]
  IN
  /\ Alive /\ visit[v].pc = "upgrade"
  /\ \/ \E a \in {"502", "500"} : Over(v, a)
     \/ \E n \in 0..Len(up.wire) :
          visit' = [visit EXCEPT
            ![v].pc = "piping",
            ![v].dir = [up |-> [up EXCEPT !.ahead = SubSeq(up.wire, 1, n),
                                          !.wire = SubSeq(@, n + 1, Len(@)),
                                          !.copier = "flush"],
                        down |-> [down EXCEPT !.copier = "copy"]]]

-----------------------------------------------------------------------------
(* The ends *)

\* The client is connected from its request on, the instance once it is dialled.
Connected(v, s) ==
  /\ Alive /\ visit[v].upgrade /\ s \notin visit[v].left
  /\ visit[v].pc \in {"upgrade", "piping"} \/ (s = "client" /\ visit[v].pc = "dial")

Send(v, d) ==
  LET c == visit[v].dir[d] IN
  /\ Connected(v, Source[d]) /\ c.sent < Volume[d]
  /\ Becomes(v, d, [c EXCEPT !.sent = @ + 1, !.wire = Append(@, c.sent + 1)])

Receive(v, d) ==
  LET c == visit[v].dir[d] IN
  /\ Alive /\ Destination[d] \notin visit[v].left /\ c.written # <<>>
  /\ Becomes(v, d, [c EXCEPT !.got = Append(@, Head(c.written)), !.written = Tail(@)])

Leave(v, s) ==
  /\ Connected(v, s)
  /\ visit' = [visit EXCEPT ![v].left = @ \cup {s}]

-----------------------------------------------------------------------------
(* proxyWebSocket: the copiers *)

Writable(v, d) == ~visit[v].closed /\ Len(visit[v].dir[d].written) < Window

\* A write to an end that is gone may fail.
Broken(v, d) == visit[v].closed \/ Destination[d] \in visit[v].left

\* Mutant: a copier that forgets what was read ahead.
FlushNothing(v) ==
  LET c == visit[v].dir["up"] IN
  /\ Alive /\ c.copier = "flush"
  /\ Becomes(v, "up", [c EXCEPT !.copier = "copy"])

\* What was read ahead goes first; whether the write succeeds is not looked at.
Flush(v) ==
  LET c == visit[v].dir["up"] IN
  /\ Alive /\ c.copier = "flush"
  /\ \/ /\ c.ahead = <<>> \/ Writable(v, "up")
        /\ Becomes(v, "up",
             [c EXCEPT !.copier = "copy", !.written = @ \o c.ahead, !.ahead = <<>>])
     \/ /\ Broken(v, "up")
        /\ Becomes(v, "up", [c EXCEPT !.copier = "copy"])

\* io.Copy reads, and stops at the end of the source or at a closed connection.
Read(v, d) ==
  LET c == visit[v].dir[d] IN
  /\ Alive /\ c.copier = "copy" /\ c.hand = <<>>
  /\ \/ /\ c.wire # <<>> /\ ~visit[v].closed
        /\ Becomes(v, d, [c EXCEPT !.hand = <<Head(c.wire)>>, !.wire = Tail(@)])
     \/ /\ visit[v].closed \/ (c.wire = <<>> /\ Source[d] \in visit[v].left)
        /\ Becomes(v, d, [c EXCEPT !.copier = "report"])

\* io.Copy writes, and stops at an error.
Write(v, d) ==
  LET c == visit[v].dir[d] IN
  /\ Alive /\ c.copier = "copy" /\ c.hand # <<>>
  /\ \/ /\ Writable(v, d)
        /\ Becomes(v, d, [c EXCEPT !.written = @ \o c.hand, !.hand = <<>>])
     \/ /\ Broken(v, d)
        /\ Becomes(v, d, [c EXCEPT !.copier = "report"])

\* Mutant: an unbuffered errc, a copier reports only to a handler that listens.
RoomUnbuffered(v) == visit[v].pc = "piping" /\ visit[v].errs = 0

\* errc holds what both copiers have to say.
Room(v) == visit[v].errs < 2

Report(v, d) ==
  /\ Alive /\ visit[v].dir[d].copier = "report" /\ Room(v)
  /\ visit' = [visit EXCEPT ![v].dir[d].copier = "gone", ![v].errs = @ + 1]

\* Mutant: a handler that does not wait for a copier.
ReturnAtOnce(v) ==
  /\ Alive /\ visit[v].pc = "piping"
  /\ visit' = [visit EXCEPT ![v].pc = "done", ![v].answer = "socket",
                            ![v].errs = @ - 1, ![v].closed = TRUE]

\* The first report ends the handler, whose deferred calls close both ends.
Return(v) ==
  /\ Alive /\ visit[v].pc = "piping" /\ visit[v].errs > 0
  /\ visit' = [visit EXCEPT ![v].pc = "done", ![v].answer = "socket",
                            ![v].errs = @ - 1, ![v].closed = TRUE]

Handle(v) ==
  /\ Admit(v) \/ Follow(v) \/ Fetch(v) \/ Dial(v) \/ Upgrade(v) \/ Return(v)
  /\ UNCHANGED process

Copy(v, d) ==
  /\ (d = "up" /\ Flush(v)) \/ Read(v, d) \/ Write(v, d) \/ Report(v, d)
  /\ UNCHANGED process

Ends(v) ==
  /\ \/ \E d \in Directions : Send(v, d) \/ Receive(v, d)
     \/ \E s \in {"client", "backend"} : Leave(v, s)
  /\ UNCHANGED process

\* Goroutines run; an end that stays reads what it is sent.
ProxyFairness ==
  \A v \in Visits :
    /\ WF_<<process, visit>>(Return(v) /\ UNCHANGED process)
    /\ \A d \in Directions :
         /\ WF_<<process, visit>>(Copy(v, d))
         /\ WF_<<process, visit>>(Receive(v, d) /\ UNCHANGED process)

-----------------------------------------------------------------------------
(* Properties *)

ProxyTypeOK == visit \in [Visits -> Visit]

\* A browser is at the page, or at an error, after two redirects (proxy.go:106
\* and 143 never send it round in circles).
RedirectsEnd == \A v \in Visits : visit[v].hops <= 2

\* What an end has received, with what is on the way to it, is what the other
\* has sent, from the beginning and without a gap: also where the HTTP server
\* had read ahead (proxy.go:242).
InOrder ==
  \A v \in Visits, d \in Directions :
    LET c == visit[v].dir[d]
        passed == c.got \o c.written \o c.hand
    IN  passed = [i \in 1..Len(passed) |-> i] \/ Destination[d] \in visit[v].left

\* The proxy hangs up only after an end has left.  Then the other end has been
\* sent all that this one had said, unless it has left too, or the proxy still
\* had something to write to the end that left (proxy.go:251).
HungUpAfterLastWord ==
  \A v \in Visits :
    visit[v].closed =>
      \E d, back \in Directions :
        /\ d # back /\ Source[d] \in visit[v].left
        /\ \/ LET c == visit[v].dir[d] IN c.wire \o c.ahead \o c.hand = <<>>
           \/ Destination[d] \in visit[v].left
           \/ visit[v].dir[back].hand # <<>>

\* When one end of a WebSocket leaves, both connections are closed and neither
\* goroutine stays behind (proxy.go:235), unless the process ends.
EndsTogether ==
  \A v \in Visits :
    visit[v].pc = "piping" /\ visit[v].left # {} ~>
      \/ Ended
      \/ visit[v].closed /\ \A d \in Directions : visit[v].dir[d].copier = "gone"

=============================================================================
