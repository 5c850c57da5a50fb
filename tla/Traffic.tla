------------------------------- MODULE Traffic -------------------------------
(***************************************************************************)
(* A server process with all that goes on in it: visits through the proxy, *)
(* messages and notices in goroutines, and a signal to stop at any point   *)
(* of their lives.  HTTP requests are waited for, goroutines and hijacked  *)
(* connections are not.                                                    *)
(***************************************************************************)
EXTENDS Messages, Proxy, FiniteSets

CONSTANT Load   \* how many visits, messages and notices there are in a behaviour

vars == <<proc, told, job, visit>>

Arrived ==
  Cardinality({j \in Jobs : job[j].pc # "none"})
    + Cardinality({v \in Visits : visit[v].pc # "none"})

TypeOK == ProcessTypeOK /\ MessagesTypeOK /\ ProxyTypeOK

Init == ProcessInit /\ MessagesInit /\ ProxyInit

Next ==
  \/ Main(Busy, Held) /\ UNCHANGED <<job, visit>>
  \/ /\ Arrived < Load
     /\ \/ \E j \in Jobs : Receives(j) /\ UNCHANGED visit
        \/ \E v \in Visits : Arrive(v) /\ UNCHANGED job
  \/ \E j \in Jobs : (Acquire(j) \/ Proceed(j) \/ Expire(j)) /\ UNCHANGED visit
  \/ \E v \in Visits : (Handle(v) \/ Ends(v)) /\ UNCHANGED job
  \/ \E v \in Visits, d \in Directions : Copy(v, d) /\ UNCHANGED job

Spec == Init /\ [][Next]_vars

\* And pool.Close returns once all connections are back.
FairSpec ==
  /\ Spec /\ ProcessFairness /\ MessagesFairness /\ ProxyFairness
  /\ WF_process(Closed(Held))

-----------------------------------------------------------------------------
(* Properties *)

\* A signal ends the process, also while it starts, and while a WebSocket stays
\* open, a message is being forwarded, an instance does not answer a request, or a
\* statement holds a connection that pool.Close waits for without a limit
\* (main.go:127 and 187-198; docs/deployment.md:260).
Stops == told ~> Ended

=============================================================================
