------------------------------ MODULE JsonUtil ------------------------------
(***************************************************************************)
(* Templates and merging of gateway configurations (internal/jsonutil).    *)
(*                                                                         *)
(* A document says what is at each path of keys from its root: null, a     *)
(* map, or a leaf, which is a string (between quotes) or what stands       *)
(* without quotes.  A text is a sequence of characters and of holes        *)
(* {{NAME}}; of the characters, a letter, a digit, the quote, the          *)
(* backslash, the equals sign, a blank and a run of blanks tell the cases  *)
(* apart.  Documents are text: whether a leaf is valid, and what it says,  *)
(* is decided below.  Numbers keep their digits here; encoding/json rounds *)
(* those of more than 53 bits when it merges.                              *)
(*                                                                         *)
(* Paths rather than nested maps, so that no definition is recursive and   *)
(* all of them can be reasoned about.                                      *)
(***************************************************************************)
EXTENDS Naturals, Sequences, SequencesExt

Letter == <<"char", "x">>
Digit == <<"char", "1">>
Quote == <<"char", "quote">>
Backslash == <<"char", "backslash">>
Equals == <<"char", "equals">>
Blank == <<"char", "blank">>
Blanks == <<"char", "blanks">>
Hole(n) == <<"hole", n>>
IsHole(t) == t[1] = "hole"

Token ==
  {Letter, Digit, Quote, Backslash, Equals, Blank, Blanks} \cup ({"hole"} \X STRING)
Text == Seq(Token)

NoText(kind) == [kind |-> kind, quoted |-> FALSE, text |-> <<>>]
Node ==
  {NoText("null"), NoText("map")} \cup [kind: {"leaf"}, quoted: BOOLEAN, text: Text]

\* Above everything lies a map.
IsDocument(d) ==
  /\ d \in [DOMAIN d -> Node] /\ DOMAIN d \subseteq Seq(STRING)
  /\ <<>> \in DOMAIN d
  /\ \A p \in DOMAIN d : \A n \in 0..(Len(p) - 1) :
       SubSeq(p, 1, n) \in DOMAIN d /\ d[SubSeq(p, 1, n)].kind = "map"

At(d, p) == IF p \in DOMAIN d THEN d[p] ELSE NoText("absent")

Null == [p \in {<<>>} |-> NoText("null")]
Leaf(q, t) == [p \in {<<>>} |-> [kind |-> "leaf", quoted |-> q, text |-> t]]

\* A map from the keys of f to the documents that are its values.
Map(f) ==
  [p \in {<<>>} \cup UNION {{<<k>> \o q : q \in DOMAIN f[k]} : k \in DOMAIN f} |->
     IF p = <<>> THEN NoText("map") ELSE f[Head(p)][Tail(p)]]

-----------------------------------------------------------------------------
(* encoding/json *)

\* Reading the inside of a string: in an escape, after a character, or past an
\* error.  "said" is what the string says.
Start == [at |-> "char", said |-> <<>>]

Step(s, t) ==
  CASE s.at = "error" -> s
    [] s.at = "escape" ->
         [at |-> IF t \in {Quote, Backslash} THEN "char" ELSE "error",
          said |-> Append(s.said, t)]
    [] s.at = "char" /\ t = Backslash -> [s EXCEPT !.at = "escape"]
    [] s.at = "char" /\ t = Quote     -> [s EXCEPT !.at = "error"]
    [] s.at = "char" /\ t \notin {Backslash, Quote} -> [s EXCEPT !.said = Append(@, t)]

Scan(text) ==
  LET scan[i \in 0..Len(text)] == IF i = 0 THEN Start ELSE Step(scan[i - 1], text[i])
  IN  scan[Len(text)]

\* Digits; blanks around them are layout.
Numeral(text) ==
  \E i, j \in DOMAIN text :
    /\ i <= j
    /\ \A k \in DOMAIN text :
         IF k \in i..j THEN text[k] = Digit ELSE text[k] \in {Blank, Blanks}

ValidLeaf(l) == IF l.quoted THEN Scan(l.text).at = "char" ELSE Numeral(l.text)

Valid(d) == \A p \in DOMAIN d : d[p].kind = "leaf" => ValidLeaf(d[p])

-----------------------------------------------------------------------------
(* template.go *)

Holes(text) == {text[i][2] : i \in {j \in DOMAIN text : IsHole(text[j])}}

ExtractPlaceholders(d) == UNION {Holes(d[p].text) : p \in DOMAIN d}

\* Mutant: a value is put in as it is.
EncodedRaw(text) == text

\* json.Marshal of a string, without its quotes.
Encoded(text) ==
  FlattenSeq([i \in DOMAIN text |->
    IF text[i] \in {Quote, Backslash} THEN <<Backslash, text[i]>> ELSE <<text[i]>>])

\* One pass: what a value brings in is not looked at again.
Filled(text, values) ==
  FlattenSeq([i \in DOMAIN text |->
    IF IsHole(text[i]) THEN Encoded(values[text[i][2]]) ELSE <<text[i]>>])

SubstitutePlaceholders(d, values) ==
  [p \in DOMAIN d |-> [d[p] EXCEPT !.text = Filled(@, values)]]

\* The dummy is a word.
ValidateTemplate(d) ==
  Valid(SubstitutePlaceholders(d, [n \in ExtractPlaceholders(d) |-> <<Letter>>]))

-----------------------------------------------------------------------------
(* merge.go *)

IsMapAt(d, p) == At(d, p).kind = "map"

\* Mutant: the override's maps replace the base's.
TakenFlat(base, override, path) ==
  IF path = <<>> \/ SubSeq(path, 1, 1) \in DOMAIN override THEN override ELSE base

\* deepMerge descends while both documents have maps.  The first key of a path
\* at which one of them has not decides: the override's value is taken, if it has
\* one, and the base's otherwise, with all that lies below.
Taken(base, override, path) ==
  LET key(n) == SubSeq(path, 1, n)
      ends == {n \in 1..Len(path) : ~(IsMapAt(base, key(n)) /\ IsMapAt(override, key(n)))}
  IN  IF ends = {} \/ key(Min(ends)) \in DOMAIN override THEN override ELSE base

DeepMerge(base, override) ==
  [p \in {q \in DOMAIN base \cup DOMAIN override : q \in DOMAIN Taken(base, override, q)} |->
     Taken(base, override, p)[p]]

\* Both must be objects, or null, which is unmarshalled into a nil map; reading
\* one is fine, the first write to it panics.
Unmarshals(d) == Valid(d) /\ d[<<>>].kind \in {"map", "null"}

IsNull(d) == d[<<>>].kind = "null"

Panics(base, override) == IsNull(base) /\ DOMAIN override # {<<>>}

MergeJSON(base, override) ==
  IF IsNull(base) \/ IsNull(override) THEN base ELSE DeepMerge(base, override)

=============================================================================
