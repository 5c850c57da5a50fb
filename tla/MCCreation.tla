----------------------------- MODULE MCCreation -----------------------------
(***************************************************************************)
(* Creation for TLC.  An older and a newer server, whose Helm values       *)
(* overlap; templates with holes inside and outside of quotes and after a  *)
(* backslash; overrides that meet them in every way.                       *)
(***************************************************************************)
EXTENDS Creation

CONSTANTS v0, v1, v2, older, newer

Word == Leaf(TRUE, <<Letter>>)
Number == Leaf(FALSE, <<Digit>>)

Plain == Map([a |-> Map([b |-> Number]), b |-> Word])

Templates ==
  {Plain, Null, Number, Leaf(TRUE, <<Quote>>)}
  \cup {Map([a |-> Leaf(q, t)]) : q \in BOOLEAN,
          t \in {<<Hole("A")>>, <<Hole("A"), Hole("B")>>, <<Backslash, Hole("A")>>,
                 <<Backslash, Quote, Hole("B")>>}}

\* A hole without quotes, and one in an escape, which becomes a string for an A
\* of nothing.
FromEnv ==
  Map([a |-> Leaf(FALSE, <<Hole("B")>>), b |-> Leaf(TRUE, <<Backslash, Hole("A"), Quote>>)])

MCFields == {"image", "gateway"}
MCValues == {v0, v1, v2} \cup Templates \cup {FromEnv}
MCSeed == [image |-> v0, gateway |-> Plain]
MCSubmissions == [image : {v1, v2}, gateway : Templates]
MCAcceptable == {r \in [image : {v1, v2}, gateway : Templates] : Accepted(r.gateway)}

MCFillings ==
  {[n \in {"A", "B"} |-> IF n = "A" THEN t ELSE <<Letter>>] :
     t \in {<<>>, <<Letter>>, <<Digit>>, <<Quote>>, <<Backslash>>, <<Hole("B")>>,
            <<Letter, Blank, Letter>>}}
  \cup {[n \in {"A", "B"} |-> IF n = "A" THEN <<>> ELSE <<Digit, Blank>>],
         [n \in {"B"} |-> <<Digit>>], <<>>}

MCEnv ==
  [r \in {older, newer} |->
     IF r = older THEN [image |-> v1, gateway |-> Unset]
                  ELSE [image |-> v2, gateway |-> FromEnv]]

MCOverrides ==
  {Null, Number, Map([a |-> Leaf(TRUE, <<Backslash>>)]), Map(<<>>),
   Map([a |-> Word]), Map([a |-> Null]),
   Map([a |-> Map([a |-> Word]), b |-> Map([b |-> Number])]),
   Map([a |-> Map([b |-> Word])]),
   Map([a |-> Leaf(TRUE, <<Letter, Equals, Letter>>)]),
   Map([a |-> Leaf(TRUE, <<Letter, Blanks, Equals>>), b |-> Word])}

=============================================================================
