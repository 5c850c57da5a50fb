------------------------------ MODULE Creation ------------------------------
(***************************************************************************)
(* How the configuration of a new instance comes about: the defaults row,  *)
(* the values for the template's placeholders, and an override, as the     *)
(* three handlers that create instances put them together                  *)
(* (internal/handler/instance.go, pages.go, internal/bot/commands.go).     *)
(* Their calls to the API server are in Server.                            *)
(*                                                                         *)
(* The row is read in one statement, and the rest is computed from that    *)
(* copy: a creation is one step here.  A dialog shows the placeholders of  *)
(* an earlier row; what its user filled in need not fit the present one.   *)
(***************************************************************************)
EXTENDS Defaults, JsonUtil

CONSTANTS
  Orders,      \* creations of a behaviour
  Fillings,    \* values for placeholders, as users send them: name -> text
  Overrides,   \* documents that users send as overrides
  NoOverride   \* none

\* What admins may save passes this check; nothing checks an environment's.
Accepted(d) ==
  IF ExtractPlaceholders(d) # {} THEN ValidateTemplate(d) ELSE Valid(d)

ASSUME TemplatesAssumption ==
  /\ "gateway" \in Fields
  /\ IsDocument(Seed["gateway"])
  /\ \A r \in Acceptable : IsDocument(r["gateway"]) /\ Accepted(r["gateway"])
  /\ \A r \in Replicas :
       Env[r]["gateway"] # Unset => IsDocument(Env[r]["gateway"])

ASSUME InputsAssumption ==
  /\ \A v \in Fillings :
       v \in [DOMAIN v -> Text] /\ DOMAIN v \subseteq STRING
  /\ \A d \in Overrides : IsDocument(d)
  /\ NoOverride \notin Overrides

VARIABLE order   \* [Orders -> Order]: inputs and outcome of creations

vars == <<row, replica, form, updates, restarts, asked, order>>

FromSlack == {"json", "bare", "early"}
Ways == {"api", "page"} \cup FromSlack

NoOrder ==
  [outcome |-> "none", base |-> NoRow, way |-> "api", values |-> <<>>,
   override |-> NoOverride, config |-> Null]

Outcomes == {"none", "missing", "invalid", "unmergeable", "panic", "created"}

TypeOK ==
  /\ DefaultsTypeOK
  /\ \A o \in Orders :
       /\ order[o].outcome \in Outcomes
       /\ order[o].base \in Rows \cup {NoRow}
       /\ order[o].way \in Ways
       /\ order[o].override \in Overrides \cup {NoOverride}

Init == DefaultsInit /\ order = [o \in Orders |-> NoOrder]

-----------------------------------------------------------------------------
(* commands.go: parseCreateArgs.  A slash command is a line of words, and   *)
(* its override is marked with json= or begins with a brace ("bare").  A    *)
(* word with an equals sign is a value before it is anything else: so a     *)
(* bare override may be taken for one ("early"), depending on where its     *)
(* author has put blanks.  The words that a blank in a value cuts off are   *)
(* dropped; when they look like a pair or begin with a brace, the line is   *)
(* that of other values, or of another override.                            *)

\* A word ends at a blank.
Cut(text) ==
  LET ends == {i \in DOMAIN text : text[i] \in {Blank, Blanks}}
  IN  IF ends = {} THEN text ELSE SubSeq(text, 1, Min(ends) - 1)

\* Words are joined by one blank, in strings too.
Squeezed(d) ==
  [p \in DOMAIN d |-> [d[p] EXCEPT !.text =
     [i \in DOMAIN @ |-> IF @[i] = Blanks THEN Blank ELSE @[i]]]]

\* What is left of an override whose beginning was taken for a value, from a later
\* word with a brace on: it is not JSON.
Garbage == Leaf(FALSE, <<Letter>>)

\* There is a word in it that can be taken for a value.
EqualsEarly(d) == \E p \in DOMAIN d : Equals \in Range(Cut(d[p].text))

ValuesRead(way, values) ==
  IF way \in FromSlack THEN [n \in DOMAIN values |-> Cut(values[n])] ELSE values

\* What an override may be read as, typed in one of the ways.
OverridesRead(way, override) ==
  CASE override = NoOverride -> IF way = "early" THEN {} ELSE {NoOverride}
    [] override # NoOverride ->
         CASE way \in {"api", "page"} -> {override}
           [] way = "json"  -> {Squeezed(override)}
           [] way = "bare"  -> {IF IsMapAt(override, <<>>) THEN Squeezed(override) ELSE NoOverride}
           [] way = "early" -> IF EqualsEarly(override) THEN {NoOverride, Garbage} ELSE {}

-----------------------------------------------------------------------------
(* The three handlers *)

\* A page does not tell an empty field from a missing one.
Given(way, values) == {n \in DOMAIN values : way = "page" => values[n] # <<>>}

\* Mutant: what was filled in is not looked at.
WorksUnchecked(filled) == TRUE

\* json.Valid of a template with values in it.
Works(filled) == Valid(filled)

\* What a handler makes of its inputs, in the order of its checks.
Composed(way, template, values, override) ==
  LET holes == ExtractPlaceholders(template)
      filled == IF holes = {} THEN template ELSE SubstitutePlaceholders(template, values)
      says(a) == [outcome |-> a, config |-> Null]
  IN  CASE ~(holes \subseteq Given(way, values)) -> says("missing")
        [] holes \subseteq Given(way, values) ->
             CASE holes # {} /\ ~Works(filled) -> says("invalid")
               [] override = NoOverride /\ (holes = {} \/ Works(filled)) ->
                    [outcome |-> "created", config |-> filled]
               [] override # NoOverride /\ (holes = {} \/ Works(filled)) ->
                    CASE ~(Unmarshals(filled) /\ Unmarshals(override)) -> says("unmergeable")
                      [] Unmarshals(filled) /\ Unmarshals(override) /\ Panics(filled, override) ->
                           says("panic")
                      [] OTHER -> [outcome |-> "created", config |-> MergeJSON(filled, override)]

\* middleware.Recover answers for a handler that panics.  (What the properties
\* do not ask for again is not kept.)
CreateInstance(o) ==
  /\ Serving /\ order[o] = NoOrder
  /\ \E way \in Ways, values \in Fillings, override \in Overrides \cup {NoOverride} :
       \E read \in OverridesRead(way, override) :
         LET c == Composed(way, row["gateway"], ValuesRead(way, values), read)
             used == Restrict(values, ExtractPlaceholders(row["gateway"]) \cap DOMAIN values)
         IN  order' = [order EXCEPT ![o] =
               IF c.outcome = "created"
                 THEN [outcome |-> c.outcome, base |-> row, way |-> way, values |-> used,
                       override |-> override, config |-> c.config]
                 ELSE [NoOrder EXCEPT !.outcome = c.outcome, !.base = row]]
  /\ UNCHANGED defaults

Next ==
  \/ DefaultsNext /\ UNCHANGED order
  \/ \E o \in Orders : CreateInstance(o)

Spec == Init /\ [][Next]_vars

-----------------------------------------------------------------------------
(* What a user is promised *)

\* What a reader of the JSON is told, and what the template's author and the
\* user together have said.
Read(leaf) == IF leaf.quoted THEN Scan(leaf.text).said ELSE leaf.text
WithValues(text, values) ==
  FlattenSeq([i \in DOMAIN text |->
    IF IsHole(text[i]) THEN values[text[i][2]] ELSE <<text[i]>>])
Meant(leaf, values) == WithValues(Read(leaf), values)

\* A string that is none, a hole in an escape for one, means nothing.
Means(leaf) == leaf.quoted => Scan(leaf.text).at = "char"

Says(x, t, values) ==
  /\ x.kind = t.kind
  /\ x.kind = "leaf" =>
       x.quoted = t.quoted /\ (Means(t) => Read(x) = Meant(t, values))

\* An override of null is none.
Over(o) ==
  IF o.override = NoOverride \/ (o.override # NoOverride /\ IsNull(o.override))
    THEN <<>> ELSE o.override

Paths(o) == DOMAIN o.config \cup DOMAIN o.base["gateway"] \cup DOMAIN Over(o)

\* At a path, the override, where it says something; else the template, unless
\* the override has put something else than a map above it.
Promised(o, path) ==
  LET x == At(o.config, path)
      w == At(Over(o), path)
      hidden == \E n \in 0..(Len(path) - 1) :
                  At(Over(o), SubSeq(path, 1, n)).kind \in {"leaf", "null"}
  IN  CASE w.kind \in {"leaf", "null"}    -> x = w
        [] w.kind = "map"                -> x.kind = "map" \/ DOMAIN Over(o) = {<<>>}
        [] w.kind = "absent" /\ hidden   -> x.kind = "absent"
        [] w.kind = "absent" /\ ~hidden  -> Says(x, At(o.base["gateway"], path), o.values)

-----------------------------------------------------------------------------
(* Properties *)

\* The line of a slash command says what its user means: no blanks in values, none
\* that words' joining changes in the override, and an override that is one.
Understood(o) ==
  o.way \in FromSlack =>
    /\ \A n \in DOMAIN o.values : Cut(o.values[n]) = o.values[n]
    /\ o.override # NoOverride =>
         /\ o.way = "json" \/ (o.way = "bare" /\ IsMapAt(o.override, <<>>))
         /\ Squeezed(o.override) = o.override

\* A created instance has, at every path, what the override says, and elsewhere
\* what the template says with the user's values in its holes, whatever
\* characters those contain (docs/usage.md:66, merge.go:8, template.go:33): from the
\* API and the page always, and from Slack when the line could be understood
\* (commands.go:56-101).
CreatedAsPromised ==
  \A o \in Orders :
    order[o].outcome = "created" /\ Understood(order[o]) =>
      \A p \in Paths(order[o]) : Promised(order[o], p)

\* A template that an admin was allowed to save works with all values: nobody is
\* told that the configuration is invalid after substitution (template.go:59,
\* instance.go:89), unless the template came from a server's environment, which
\* nothing checks (main.go:87).
SavedTemplatesWork ==
  \A o \in Orders :
    order[o].outcome = "invalid" => order[o].base \notin Acceptable

\* The configuration of an instance is JSON: one with values in it was looked at
\* (instance.go:89) and one with an override was read (merge.go:11), whatever the
\* template.  The exception is a server's environment, stored unread (main.go:87),
\* when it has no placeholders and nothing is merged into it.
CreatedIsJson ==
  \A o \in Orders :
    LET own == order[o].base["gateway"]
    IN  order[o].outcome = "created" =>
          \/ Valid(order[o].config)
          \/ /\ order[o].base \notin Acceptable
             /\ ExtractPlaceholders(own) = {} /\ order[o].config = own

=============================================================================
