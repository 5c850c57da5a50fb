--------------------------- MODULE DefaultsProofs ---------------------------
(***************************************************************************)
(* Defaults for any number of servers and admins, whatever their           *)
(* environments say.  The argument: whoever is about to write holds a copy *)
(* whose columns all come from an environment, an admin, or what the       *)
(* migrations left where an environment is silent; a server's copy because *)
(* its own environment is in it, a page's because a server was there when  *)
(* it was opened.  What admins have asked only grows, so an old copy stays  *)
(* such a copy.                                                            *)
(***************************************************************************)
EXTENDS Defaults, TLAPS

SourcedRow(c) == \A f \in Fields : Sourced(f, c[f])

\* A row is there before anybody reads it; it is the migrations' until a server has
\* written; and those who hold a copy hold a whole one.
CopyInv ==
  /\ \A r \in Replicas : replica[r].pc # "migrate" => row \in Rows
  /\ row \in Rows => row = Seed \/ SourcedRow(row)
  /\ \A r \in Replicas :
       replica[r].pc = "write" => replica[r].current \in Rows /\ SourcedRow(replica[r].current)
  /\ \A a \in Forms : form[a].open => form[a].base \in Rows /\ SourcedRow(form[a].base)

DefaultsInv == DefaultsTypeOK /\ CopyInv /\ EnvironmentsHold

-----------------------------------------------------------------------------
(* Rows *)

LEMMA OverlaidType ==
  ASSUME NEW r \in Replicas, NEW base \in Rows
  PROVE  Overlaid(r, base) \in Rows
  BY EnvAssumption DEF Overlaid, Rows

LEMMA RowsAreCopies == Rows \subseteq [Fields -> Values \cup {Unset}]
  BY DEF Rows

LEMMA NoRowIsCopy == NoRow \in [Fields -> Values \cup {Unset}]
  BY DEF NoRow

\* A server's own environment makes a copy that comes from somewhere, even of what
\* the migrations left.
LEMMA OverlaidIsSourced ==
  ASSUME NEW r \in Replicas, row = Seed \/ SourcedRow(row)
  PROVE  SourcedRow(Overlaid(r, row))
<1> SUFFICES ASSUME NEW f \in Fields PROVE Sourced(f, Overlaid(r, row)[f])
  BY DEF SourcedRow
<1>1. CASE Env[r][f] # Unset
  <2>1. Overlaid(r, row)[f] = Env[r][f]
    BY <1>1 DEF Overlaid
  <2> QED
    BY <1>1, <2>1 DEF Sourced, EnvironmentsOf
<1>2. CASE Env[r][f] = Unset
  <2>1. Overlaid(r, row)[f] = row[f]
    BY <1>2 DEF Overlaid
  <2> QED
    BY <1>2, <2>1 DEF Sourced, SourcedRow
<1> QED
  BY <1>1, <1>2

\* Admins unsay nothing: what came from somewhere still does.
LEMMA SourcedStays ==
  ASSUME \A f \in Fields : asked[f] \subseteq asked'[f], NEW c, SourcedRow(c)
  PROVE  \A f \in Fields : Sourced(f, c[f])'
  BY DEF SourcedRow, Sourced, EnvironmentsOf

-----------------------------------------------------------------------------
(* The steps *)

LEMMA InitKeeps == DefaultsInit => DefaultsInv
<1> SUFFICES ASSUME DefaultsInit PROVE DefaultsInv
  OBVIOUS
<1>1. DefaultsTypeOK
  BY NoRowIsCopy, LimitsAssumption DEF DefaultsInit, DefaultsTypeOK, Replica, Form
<1>2. row \in Rows => SourcedRow(row)
  BY ValuesAssumption DEF DefaultsInit, NoRow, Rows, SourcedRow
<1>3. CopyInv /\ EnvironmentsHold
  BY <1>2 DEF DefaultsInit, CopyInv, EnvironmentsHold, Serving
<1> QED
  BY <1>1, <1>3 DEF DefaultsInv

LEMMA MigrateKeeps ==
  ASSUME DefaultsInv, NEW r \in Replicas, Migrate(r)
  PROVE  DefaultsInv'
<1>1. /\ replica' \in [Replicas -> Replica]
      /\ \A q \in Replicas : q # r => replica'[q] = replica[q]
      /\ replica'[r].pc = "read"
  BY DEF DefaultsInv, DefaultsTypeOK, Replica, Migrate
<1>2. row' \in Rows
  BY RowsAssumption DEF Migrate, DefaultsInv, DefaultsTypeOK
<1>3. asked' = asked /\ form' = form /\ updates' = updates /\ restarts' = restarts
  BY DEF Migrate
<1>4. \A c : SourcedRow(c) => \A f \in Fields : Sourced(f, c[f])'
  BY <1>3, SourcedStays
<1>5. DefaultsTypeOK'
  BY <1>1, <1>2, <1>3 DEF DefaultsInv, DefaultsTypeOK
<1>6. row' = Seed \/ (row' = row /\ row \in Rows)
  BY RowsAssumption DEF Migrate, DefaultsInv, DefaultsTypeOK
<1>7. row' = Seed \/ \A f \in Fields : Sourced(f, row[f])'
  BY <1>4, <1>6 DEF DefaultsInv, CopyInv
<1>8. CopyInv'
  BY <1>1, <1>2, <1>3, <1>4, <1>7 DEF DefaultsInv, CopyInv, SourcedRow
<1>9. EnvironmentsHold'
  <2> SUFFICES ASSUME Serving' PROVE SourcedRow(row)'
    BY DEF EnvironmentsHold, SourcedRow
  <2>1. Serving /\ row \in Rows
    BY <1>1 DEF Serving, DefaultsInv, CopyInv
  <2>2. SourcedRow(row)
    BY <2>1 DEF DefaultsInv, EnvironmentsHold, SourcedRow
  <2>3. \A f \in Fields : row[f] \in Values
    BY <2>1 DEF Rows
  <2>4. \A f \in Fields : row'[f] = row[f]
    BY <2>3, ValuesAssumption DEF Migrate, NoRow
  <2> QED
    BY <1>4, <2>2, <2>4, SourcedStays DEF SourcedRow
<1> QED
  BY <1>5, <1>8, <1>9 DEF DefaultsInv

LEMMA SyncReadKeeps ==
  ASSUME DefaultsInv, NEW r \in Replicas, SyncRead(r)
  PROVE  DefaultsInv'
<1> DEFINE copy == Overlaid(r, row)
<1>1. row \in Rows /\ copy \in Rows
  BY OverlaidType DEF DefaultsInv, CopyInv, SyncRead
<1>2. SourcedRow(copy)
  BY <1>1, OverlaidIsSourced DEF DefaultsInv, CopyInv
<1>3. UNCHANGED <<row, form, updates, restarts, asked>>
  BY DEF SyncRead
<1>4. replica'[r] = [pc |-> "write", current |-> copy]
  BY DEF SyncRead, DefaultsInv, DefaultsTypeOK
<1>5. \A q \in Replicas : q # r => replica'[q] = replica[q]
  BY DEF SyncRead, DefaultsInv, DefaultsTypeOK
<1>6. replica'[r] \in Replica
  BY <1>1, <1>4, RowsAreCopies DEF Replica
<1>7. replica' \in [Replicas -> Replica]
  BY <1>4, <1>6 DEF SyncRead, DefaultsInv, DefaultsTypeOK
<1> HIDE DEF copy
<1>8. DefaultsTypeOK'
  BY <1>3, <1>7 DEF DefaultsInv, DefaultsTypeOK
<1>9. \A c : SourcedRow(c) => \A f \in Fields : Sourced(f, c[f])'
  BY <1>3, SourcedStays
<1>10. CopyInv'
  BY <1>1, <1>2, <1>3, <1>4, <1>5, <1>9 DEF DefaultsInv, CopyInv, SourcedRow
<1>11. EnvironmentsHold'
  BY <1>3, <1>4, <1>5, <1>9 DEF DefaultsInv, EnvironmentsHold, Serving, SourcedRow
<1> QED
  BY <1>8, <1>10, <1>11 DEF DefaultsInv

\* A server that has read the row writes its copy, whatever it does then.
LEMMA ServerWriteKeeps ==
  ASSUME DefaultsInv, NEW r \in Replicas, NEW pc \in {"read", "serve"},
         replica[r].pc = "write",
         replica' = [replica EXCEPT ![r].pc = pc],
         row' = replica[r].current,
         form' = form, asked' = asked, updates' = updates, restarts' \in Nat
  PROVE  DefaultsInv'
<1>1. row' \in Rows /\ SourcedRow(row')
  BY DEF DefaultsInv, CopyInv
<1>2. /\ replica' \in [Replicas -> Replica]
      /\ \A q \in Replicas : q # r => replica'[q] = replica[q]
      /\ replica'[r].pc = pc
  BY DEF DefaultsInv, DefaultsTypeOK, Replica
<1>3. DefaultsTypeOK'
  BY <1>1, <1>2 DEF DefaultsInv, DefaultsTypeOK
<1>4. \A c : SourcedRow(c) => \A f \in Fields : Sourced(f, c[f])'
  BY SourcedStays
<1>5. CopyInv'
  BY <1>1, <1>2, <1>4 DEF DefaultsInv, CopyInv, SourcedRow
<1>6. EnvironmentsHold'
  BY <1>1, <1>4 DEF EnvironmentsHold
<1> QED
  BY <1>3, <1>5, <1>6 DEF DefaultsInv

LEMMA FailKeeps ==
  ASSUME DefaultsInv, NEW r \in Replicas, Fail(r)
  PROVE  DefaultsInv'
<1>1. restarts' \in Nat
  BY DEF Fail, DefaultsInv, DefaultsTypeOK
<1>2. CASE row' = row
  <2>1. /\ replica' \in [Replicas -> Replica]
        /\ \A q \in Replicas : q # r => replica'[q] = replica[q]
        /\ replica'[r].pc = "read"
    BY DEF DefaultsInv, DefaultsTypeOK, Replica, Fail
  <2>2. row \in Rows
    BY DEF Fail, DefaultsInv, CopyInv
  <2>3. DefaultsTypeOK'
    BY <1>1, <1>2, <2>1 DEF Fail, DefaultsInv, DefaultsTypeOK
  <2>4. \A c : SourcedRow(c) => \A f \in Fields : Sourced(f, c[f])'
    BY SourcedStays DEF Fail
  <2>5. CopyInv'
    BY <1>2, <2>1, <2>2, <2>4 DEF Fail, DefaultsInv, CopyInv, SourcedRow
  <2>6. EnvironmentsHold'
    BY <1>2, <2>1, <2>4 DEF DefaultsInv, EnvironmentsHold, Serving, SourcedRow
  <2> QED
    BY <2>3, <2>5, <2>6 DEF DefaultsInv
<1>3. CASE replica[r].pc = "write" /\ row' = replica[r].current
  BY <1>1, <1>3, ServerWriteKeeps DEF Fail
<1> QED
  BY <1>2, <1>3 DEF Fail

\* An admin writes a row: columns chosen now, and others that came from somewhere.
LEMMA AdminWriteKeeps ==
  ASSUME DefaultsInv, NEW new \in Rows, NEW columns, Asks(columns, new),
         \A f \in Fields : f \in columns \/ Sourced(f, new[f]),
         row' = new, replica' = replica, form' \in [Forms -> Form], updates' \in Nat,
         restarts' = restarts,
         \A a \in Forms : form'[a].open => form[a].open /\ form'[a].base = form[a].base
  PROVE  DefaultsInv'
<1>1. asked' \in [Fields -> SUBSET Values]
  BY DEF Asks, Rows, DefaultsInv, DefaultsTypeOK
<1>2. \A f \in Fields : asked[f] \subseteq asked'[f] /\ (f \in columns => new[f] \in asked'[f])
  BY DEF Asks
<1>3. \A f \in Fields : Sourced(f, row[f])'
  BY <1>2 DEF Sourced, EnvironmentsOf
<1>4. DefaultsTypeOK'
  BY <1>1 DEF DefaultsInv, DefaultsTypeOK
<1>5. \A c : SourcedRow(c) => \A f \in Fields : Sourced(f, c[f])'
  BY <1>2, SourcedStays
<1>6. CopyInv'
  BY <1>3, <1>5 DEF DefaultsInv, CopyInv, SourcedRow
<1>7. EnvironmentsHold'
  BY <1>3 DEF EnvironmentsHold
<1> QED
  BY <1>4, <1>6, <1>7 DEF DefaultsInv

LEMMA UpdateKeeps ==
  ASSUME DefaultsInv, UpdateDefaults
  PROVE  DefaultsInv'
<1>1. PICK new \in Submissions \cap Acceptable : row' = new /\ Asks(Fields, new)
  BY DEF UpdateDefaults
<1>2. new \in Rows /\ updates' \in Nat
  BY RowsAssumption DEF UpdateDefaults, DefaultsInv, DefaultsTypeOK
<1>3. form' = form /\ replica' = replica /\ restarts' = restarts
  BY DEF UpdateDefaults
<1> QED
  BY <1>1, <1>2, <1>3, AdminWriteKeeps DEF DefaultsInv, DefaultsTypeOK

LEMMA PageOpenKeeps ==
  ASSUME DefaultsInv, NEW a \in Forms, PageAdminDefaults(a)
  PROVE  DefaultsInv'
<1>1. row \in Rows /\ SourcedRow(row)
  BY DEF PageAdminDefaults, Serving, DefaultsInv, CopyInv, EnvironmentsHold, SourcedRow
<1>2. UNCHANGED <<row, replica, updates, restarts, asked>>
  BY DEF PageAdminDefaults
<1>3. form'[a] = [open |-> TRUE, base |-> row]
  BY DEF PageAdminDefaults, DefaultsInv, DefaultsTypeOK
<1>4. \A b \in Forms : b # a => form'[b] = form[b]
  BY DEF PageAdminDefaults, DefaultsInv, DefaultsTypeOK
<1>5. form'[a] \in Form
  BY <1>1, <1>3, RowsAreCopies DEF Form
<1>6. form' \in [Forms -> Form]
  BY <1>3, <1>5 DEF PageAdminDefaults, DefaultsInv, DefaultsTypeOK
<1>7. DefaultsTypeOK'
  BY <1>2, <1>6 DEF DefaultsInv, DefaultsTypeOK
<1>8. \A c : SourcedRow(c) => \A f \in Fields : Sourced(f, c[f])'
  BY <1>2, SourcedStays
<1>9. CopyInv'
  BY <1>1, <1>2, <1>3, <1>4, <1>8 DEF DefaultsInv, CopyInv, SourcedRow
<1>10. EnvironmentsHold'
  BY <1>1, <1>2, <1>8 DEF EnvironmentsHold
<1> QED
  BY <1>7, <1>9, <1>10 DEF DefaultsInv

LEMMA PageUpdateKeeps ==
  ASSUME DefaultsInv, NEW a \in Forms, PageUpdateDefaults(a)
  PROVE  DefaultsInv'
<1> DEFINE new(s, f) == [form[a].base EXCEPT ![f] = s[f]]
<1>1. PICK s \in Submissions, f \in Fields : row' = new(s, f) /\ Asks({f}, new(s, f))
  BY DEF PageUpdateDefaults
<1>2. form[a].base \in Rows /\ SourcedRow(form[a].base) /\ s \in Rows
  BY RowsAssumption DEF PageUpdateDefaults, DefaultsInv, CopyInv
<1>3. /\ new(s, f) \in Rows
      /\ \A g \in Fields : g # f => new(s, f)[g] = form[a].base[g]
  BY <1>2 DEF Rows
<1>4. \A g \in Fields : g \in {f} \/ Sourced(g, new(s, f)[g])
  BY <1>2, <1>3 DEF SourcedRow
<1> HIDE DEF new
<1>5. /\ form' \in [Forms -> Form]
      /\ \A b \in Forms : b # a => form'[b] = form[b]
      /\ ~form'[a].open
  BY DEF PageUpdateDefaults, DefaultsInv, DefaultsTypeOK, Form
<1>6. replica' = replica /\ restarts' = restarts /\ updates' \in Nat
  BY DEF PageUpdateDefaults, DefaultsInv, DefaultsTypeOK
<1> QED
  BY <1>1, <1>3, <1>4, <1>5, <1>6, AdminWriteKeeps

LEMMA StutterKeeps ==
  ASSUME DefaultsInv, UNCHANGED defaults
  PROVE  DefaultsInv'
  BY DEF defaults, DefaultsInv, DefaultsTypeOK, CopyInv, SourcedRow, Sourced,
     EnvironmentsOf, EnvironmentsHold, Serving

-----------------------------------------------------------------------------
(* The theorems *)

\* Whoever holds a copy of the row holds a whole one, whose columns come from
\* somewhere (main.go:62-101, pages.go:299).
THEOREM DefaultsInvariant == DefaultsSpec => []DefaultsInv
<1>1. ASSUME DefaultsInv, [DefaultsNext]_defaults PROVE DefaultsInv'
  <2>1. ASSUME NEW r \in Replicas, SyncWrite(r) PROVE DefaultsInv'
    BY <1>1, <2>1, ServerWriteKeeps DEF SyncWrite, DefaultsInv, DefaultsTypeOK
  <2> QED
    BY <1>1, <2>1, MigrateKeeps, SyncReadKeeps, FailKeeps, UpdateKeeps, PageOpenKeeps,
       PageUpdateKeeps, StutterKeeps
    DEF DefaultsNext
<1> QED
  BY <1>1, InitKeeps, PTL DEF DefaultsSpec

\* What a serving server finds in a column is from a server's environment or from an
\* admin, or what the migrations left where some environment is silent, whoever
\* overwrites whom (main.go:62-101, pages.go:299).
THEOREM EnvironmentsHoldAlways == DefaultsSpec => []EnvironmentsHold
<1>1. DefaultsInv => EnvironmentsHold
  BY DEF DefaultsInv
<1> QED
  BY <1>1, DefaultsInvariant, PTL

=============================================================================
