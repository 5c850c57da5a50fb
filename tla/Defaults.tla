------------------------------ MODULE Defaults ------------------------------
(***************************************************************************)
(* The one row of instance_defaults and those who write it: every server   *)
(* at its start (syncInstanceDefaults in cmd/server/main.go), from its own *)
(* environment, and admins through the API and a page                      *)
(* (internal/handler/admin.go, pages.go).  A server reads the row, changes *)
(* its copy and writes all columns back; a page does the same with an      *)
(* admin's thinking time in between.  Nobody holds a lock or compares a    *)
(* version.                                                                *)
(*                                                                         *)
(* A rolling update runs servers of two revisions at once, each with the   *)
(* Helm values of its own.                                                 *)
(***************************************************************************)
EXTENDS Naturals

CONSTANTS
  Fields,       \* the columns
  Values,       \* what they may contain
  Unset,        \* an environment variable that is empty or missing
  Seed,         \* the row that the migrations leave
  Replicas,     \* pods of the server
  Env,          \* [Replicas -> [Fields -> Values and Unset]]
  Forms,        \* admins with a page open
  Submissions,  \* what an admin may send to the API
  Acceptable,   \* rows whose gateway configuration passes the checks
  Updates,      \* how many updates admins make in a behaviour
  Restarts      \* how many times a server fails in a behaviour

Rows == [Fields -> Values]

ASSUME ValuesAssumption == Unset \notin Values
ASSUME EnvAssumption == Env \in [Replicas -> [Fields -> Values \cup {Unset}]]
ASSUME RowsAssumption ==
  Seed \in Rows /\ Submissions \subseteq Rows /\ Acceptable \subseteq Rows
ASSUME LimitsAssumption == Updates \in Nat /\ Restarts \in Nat

NoRow == [f \in Fields |-> Unset]

VARIABLES
  row,      \* the row; NoRow before the first migration
  replica,  \* [Replicas -> [pc, current]]: servers that start, or serve
  form,     \* [Forms -> [open, base]]: pages at admins
  updates,  \* updates left
  restarts, \* failures left
  asked      \* history, [Fields -> SUBSET Values]: what admins have asked for

defaults == <<row, replica, form, updates, restarts, asked>>

Replica ==
  [pc: {"migrate", "read", "write", "serve"}, current: [Fields -> Values \cup {Unset}]]
Form == [open: BOOLEAN, base: [Fields -> Values \cup {Unset}]]

DefaultsTypeOK ==
  /\ row \in Rows \cup {NoRow}
  /\ replica \in [Replicas -> Replica]
  /\ form \in [Forms -> Form]
  /\ updates \in Nat /\ restarts \in Nat
  /\ asked \in [Fields -> SUBSET Values]

DefaultsInit ==
  /\ row = NoRow
  /\ replica = [r \in Replicas |-> [pc |-> "migrate", current |-> NoRow]]
  /\ form = [a \in Forms |-> [open |-> FALSE, base |-> NoRow]]
  /\ updates = Updates /\ restarts = Restarts
  /\ asked = [f \in Fields |-> {}]

Serving == \E r \in Replicas : replica[r].pc = "serve"

-----------------------------------------------------------------------------
(* A server starts *)

\* The init container: golang-migrate holds a lock, and inserts the row once.
Migrate(r) ==
  /\ replica[r].pc = "migrate"
  /\ replica' = [replica EXCEPT ![r].pc = "read"]
  /\ row' = IF row = NoRow THEN Seed ELSE row
  /\ UNCHANGED <<form, updates, restarts, asked>>

\* Mutant: every column of the environment, the empty ones too.
OverlaidAll(r, base) == Env[r]

\* Mutant: the environment only fills in what is missing.
OverlaidMissing(r, base) ==
  [f \in Fields |-> IF base[f] = Unset THEN Env[r][f] ELSE base[f]]

\* What the environment says, over a row.
Overlaid(r, base) ==
  [f \in Fields |-> IF Env[r][f] # Unset THEN Env[r][f] ELSE base[f]]

SyncRead(r) ==
  /\ replica[r].pc = "read"
  /\ replica' = [replica EXCEPT ![r] = [pc |-> "write", current |-> Overlaid(r, row)]]
  /\ UNCHANGED <<row, form, updates, restarts, asked>>

\* UPDATE instance_defaults SET ...: all columns, whatever they are by now.
SyncWrite(r) ==
  /\ replica[r].pc = "write"
  /\ replica' = [replica EXCEPT ![r].pc = "serve"]
  /\ row' = replica[r].current
  /\ UNCHANGED <<form, updates, restarts, asked>>

\* log.Fatalf when a query fails, or a crash at any time: the kubelet starts the
\* container again, not the init container.  The query may have been executed.
Fail(r) ==
  /\ restarts > 0 /\ restarts' = restarts - 1
  /\ replica[r].pc # "migrate"
  /\ replica' = [replica EXCEPT ![r].pc = "read"]
  /\ \/ UNCHANGED row
     \/ replica[r].pc = "write" /\ row' = replica[r].current
  /\ UNCHANGED <<form, updates, asked>>

-----------------------------------------------------------------------------
(* Admins *)

\* An admin has chosen these columns of a row.
Asks(columns, new) ==
  asked' = [f \in Fields |-> IF f \in columns THEN asked[f] \cup {new[f]} ELSE asked[f]]

\* The API takes a whole row.
UpdateDefaults ==
  /\ Serving /\ updates > 0 /\ updates' = updates - 1
  /\ \E new \in Submissions \cap Acceptable : row' = new /\ Asks(Fields, new)
  /\ UNCHANGED <<replica, form, restarts>>

PageAdminDefaults(a) ==
  /\ Serving
  /\ form' = [form EXCEPT ![a] = [open |-> TRUE, base |-> row]]
  /\ UNCHANGED <<row, replica, updates, restarts, asked>>

\* The page sends all columns, of which the admin has changed one.
PageUpdateDefaults(a) ==
  /\ Serving /\ form[a].open
  /\ updates > 0 /\ updates' = updates - 1
  /\ form' = [form EXCEPT ![a].open = FALSE]
  /\ \E s \in Submissions, f \in Fields :
       LET new == [form[a].base EXCEPT ![f] = s[f]]
       IN  /\ new \in Acceptable
           /\ row' = new
           /\ Asks({f}, new)
  /\ UNCHANGED <<replica, restarts>>

DefaultsNext ==
  \/ \E r \in Replicas : Migrate(r) \/ SyncRead(r) \/ SyncWrite(r) \/ Fail(r)
  \/ UpdateDefaults
  \/ \E a \in Forms : PageAdminDefaults(a) \/ PageUpdateDefaults(a)

\* The row by itself: nothing else in the system changes it.
DefaultsSpec == DefaultsInit /\ [][DefaultsNext]_defaults

-----------------------------------------------------------------------------
(* Properties *)

EnvironmentsOf(f) == {Env[r][f] : r \in Replicas} \ {Unset}

\* Where a value of a column may come from, once servers are there.
Sourced(f, v) ==
  \/ v \in EnvironmentsOf(f) \cup asked[f]
  \/ v = Seed[f] /\ \E r \in Replicas : Env[r][f] = Unset

\* However starting servers, restarts and pages at admins overwrite one another,
\* what a serving server finds in a column is from a server's environment or from
\* an admin; what the migrations left is found only where some server's
\* environment says nothing (main.go:62-101, pages.go:299).
EnvironmentsHold == Serving => \A f \in Fields : Sourced(f, row[f])

=============================================================================
