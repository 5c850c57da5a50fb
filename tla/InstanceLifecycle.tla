------------------------- MODULE InstanceLifecycle -------------------------
(***************************************************************************)
(* What the operator promises about one ClawInstance, as users, the web    *)
(* server and the Slack bot can observe it: whether the resource exists    *)
(* and is being deleted, its phase, whether its namespace is there, and    *)
(* how many ready notifications are still due.                             *)
(*                                                                         *)
(* Reconciler.tla implements this specification; caches, versions, retries *)
(* and the order of API calls do not appear here.                          *)
(***************************************************************************)
EXTENDS Integers

VARIABLES
  life,   \* the resource: see Lives
  phase,  \* status.phase as stored
  built,  \* the instance's namespace exists and is not being deleted
  due     \* entries into Running that have not been announced

vars == <<life, phase, built, due>>

\* "requested": created, the operator has not taken it on; "held": the
\* operator's finalizer is on it; "deleting": held, and its deletion asked for.
Lives == {"absent", "requested", "held", "deleting"}

Settled == {"Starting", "Running", "Failed"}

\* The phases a held instance goes through: it never starts over.
Moves ==
  {<<"", "Pending">>, <<"Pending", "Creating">>}
    \cup (({"Creating"} \cup Settled) \X Settled)

TypeOK ==
  /\ life \in Lives
  /\ phase \in Settled \cup {"", "Pending", "Creating", "Terminating"}
  /\ built \in BOOLEAN
  /\ due \in Nat

Init == life = "absent" /\ phase = "" /\ built = FALSE /\ due = 0

Request ==
  /\ life = "absent" /\ life' = "requested"
  /\ UNCHANGED <<phase, built, due>>

Withdraw ==
  /\ life = "requested" /\ life' = "absent"
  /\ UNCHANGED <<phase, built, due>>

Take ==
  /\ life = "requested" /\ life' = "held"
  /\ UNCHANGED <<phase, built, due>>

\* Each entry into Running makes one announcement due.
Progress ==
  /\ life = "held"
  /\ phase' # phase /\ <<phase, phase'>> \in Moves
  /\ due' = due + (IF phase' = "Running" THEN 1 ELSE 0)
  /\ UNCHANGED <<life, built>>

Announce ==
  /\ due > 0 /\ due' = due - 1
  /\ UNCHANGED <<life, phase, built>>

RequestDeletion ==
  /\ life = "held" /\ life' = "deleting"
  /\ UNCHANGED <<phase, built, due>>

\* Once deletion is asked for, the phase can only become Terminating ...
Terminate ==
  /\ life = "deleting" /\ phase' = "Terminating"
  /\ UNCHANGED <<life, built, due>>

\* ... and only then does the resource go away.
Release ==
  /\ life = "deleting" /\ phase = "Terminating"
  /\ life' = "absent" /\ phase' = ""
  /\ UNCHANGED <<built, due>>

\* A namespace appears only for a resource that will not go away without the
\* operator, also when the request to delete it overtakes the work on it.
Build ==
  /\ life \in {"held", "deleting"} /\ built' = TRUE
  /\ UNCHANGED <<life, phase, due>>

\* It is taken down only for the resource whose deletion was asked for.
Raze ==
  /\ life = "deleting" /\ phase = "Terminating" /\ built' = FALSE
  /\ UNCHANGED <<life, phase, due>>

Next ==
  \/ Request \/ Withdraw \/ Take \/ Progress \/ Announce
  \/ RequestDeletion \/ Terminate \/ Release \/ Build \/ Raze

Spec == Init /\ [][Next]_vars

=============================================================================
