---------------------------- MODULE ServerProcess ----------------------------
(***************************************************************************)
(* The life of a server process (cmd/server/main.go).  Messages and Proxy  *)
(* are what the process does while it serves; Traffic puts them together.  *)
(*                                                                         *)
(* A process that exits is not started again here: nothing of what it did  *)
(* for its callers outlives it.                                            *)
(***************************************************************************)
EXTENDS Naturals

VARIABLES
  proc,    \* what main() is doing
  told     \* a SIGINT or SIGTERM has arrived

process == <<proc, told>>

\* What main() does before it serves, in this order, and whether the context of
\* the signal interrupts it.  (The login it does with OIDC, not for development:
\* there Prepare may go either way.)
Preparations == {"database", "defaults", "login", "kubernetes"}
Prepared ==
  [database |-> "defaults", defaults |-> "login", login |-> "kubernetes",
   kubernetes |-> "serving"]
Interruptible(p) == p \in {"database", "defaults"}

ProcessTypeOK ==
  /\ proc \in Preparations \cup {"serving", "draining", "closing", "stopped", "failed"}
  /\ told \in BOOLEAN

ProcessInit == proc = "database" /\ told = FALSE

Ended == proc \in {"stopped", "failed"}

\* Handlers and goroutines run until the process ends; new requests are taken
\* until the listener closes, and the database answers until main() closes the
\* pool of its connections.
Alive == proc \in {"serving", "draining", "closing"}
Listening == proc = "serving"
PoolOpen == proc # "closing"

-----------------------------------------------------------------------------
(* main *)

\* The next preparation succeeds, or log.Fatalf ends the process.
Prepare ==
  /\ proc \in Preparations
  /\ \/ ~(told /\ Interruptible(proc)) /\ proc' = Prepared[proc]
     \/ proc' = "failed"
  /\ UNCHANGED told

Signal == ~told /\ ~Ended /\ told' = TRUE /\ UNCHANGED proc

\* Shutdown closes the listener.
Shutdown ==
  /\ proc = "serving" /\ told
  /\ proc' = "draining"
  /\ UNCHANGED told

\* Shutdown returns when no handler is busy with a connection of the HTTP
\* server.  Goroutines and hijacked connections go on.
Drained(busy) ==
  /\ proc = "draining" /\ ~busy
  /\ proc' = "closing"
  /\ UNCHANGED told

\* pool.Close, which main() has deferred, waits without a limit until nobody holds
\* a connection of the pool; then main() returns, and all that still runs ends.
Closed(held) ==
  /\ proc = "closing" /\ ~held
  /\ proc' = "stopped"
  /\ UNCHANGED told

\* The 10 s of shutdownCtx are over before Shutdown returns: log.Fatalf, which
\* skips what is deferred.
Overdue ==
  /\ proc = "draining"
  /\ proc' = "failed"
  /\ UNCHANGED told

\* The listener breaks, or the kernel kills the process.
Crash == Alive /\ proc' = "failed" /\ UNCHANGED told

Main(busy, held) ==
  Prepare \/ Signal \/ Shutdown \/ Drained(busy) \/ Closed(held) \/ Overdue \/ Crash

\* main() goes on, and its timer runs out.
ProcessFairness == WF_process(Prepare) /\ WF_process(Shutdown) /\ WF_process(Overdue)

=============================================================================
