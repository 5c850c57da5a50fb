--------------------------- MODULE CreationProofs ---------------------------
(***************************************************************************)
(* Creation for any templates, values and overrides, of any length and     *)
(* depth.  The argument:                                                   *)
(*                                                                         *)
(* - a text is read one token after another, so what was read of it so far *)
(*   and what is appended decide together; an induction over a set of      *)
(*   texts (SeqSetInduction) makes this a fact about all texts;            *)
(* - an encoded value is read back as itself, in every place that is not   *)
(*   inside an escape (ScanEncoded), so a filled string says what the      *)
(*   template's says with the values in it (ScanFilled), and is a string   *)
(*   whenever it is one with the dummy (ScanDummy);                        *)
(* - without quotes only digits and blanks are valid, which the dummy is   *)
(*   not, so that an accepted template has no hole there (DummyDigits);    *)
(* - documents say one thing at each path, and deepMerge's descent ends at *)
(*   the first key where one of the two has no map (TakenCases), so the    *)
(*   promise can be settled path by path;                                  *)
(* - rows that are read, copied or written have a document in them         *)
(*   (GatewayInv), whoever wrote them.                                     *)
(***************************************************************************)
EXTENDS Creation, DefaultsProofs, SequenceTheorems, WellFoundedInduction

-----------------------------------------------------------------------------
(* Induction over numbers and sequences, and what recursion comes to *)

LEMMA Least ==
  ASSUME NEW T, T \subseteq Nat, T # {}
  PROVE  \E x \in T : \A y \in T : x <= y
<1> DEFINE R == OpToRel(<, Nat)
<1>1. IsWellFoundedOn(R, Nat)
  BY NatLessThanWellFounded
<1>2. \A y, x \in Nat : y < x => <<y, x>> \in R
  BY DEF OpToRel
<1> HIDE DEF R
<1>3. PICK x \in T : \A y \in T : ~ (<<y, x>> \in R)
  BY <1>1, WFMin
<1>4. ASSUME NEW y \in T PROVE x <= y
  <2>1. ~ (<<y, x>> \in R)
    BY <1>3
  <2>2. x \in Nat /\ y \in Nat
    OBVIOUS
  <2>3. ~ (y < x)
    BY <1>2, <2>1, <2>2, Zenon
  <2> QED
    BY <2>2, <2>3
<1> QED
  BY <1>4

LEMMA NatSetInduction ==
  ASSUME NEW S, 0 \in S, \A n \in Nat : n \in S => n + 1 \in S
  PROVE  Nat \subseteq S
<1> SUFFICES ASSUME Nat \ S # {} PROVE FALSE
  OBVIOUS
<1>1. PICK x \in Nat \ S : \A y \in Nat \ S : x <= y
  BY Least
<1>2. x # 0 /\ x - 1 \in Nat
  BY <1>1
<1>3. x - 1 \in S
  BY <1>1, <1>2
<1>4. (x - 1) + 1 \in S
  BY <1>2, <1>3
<1> QED
  BY <1>1, <1>4

LEMMA SeqSetInduction ==
  ASSUME NEW A, NEW S, <<>> \in S,
         \A s \in Seq(A), a \in A : s \in S => Append(s, a) \in S
  PROVE  Seq(A) \subseteq S
<1> DEFINE T == {n \in Nat : \A s \in Seq(A) : Len(s) = n => s \in S}
<1>1. 0 \in T
  BY EmptySeq
<1>2. ASSUME NEW n \in Nat, n \in T PROVE n + 1 \in T
  <2> SUFFICES ASSUME NEW s \in Seq(A), Len(s) = n + 1 PROVE s \in S
    OBVIOUS
  <2>1. PICK u \in Seq(A), a \in A : s = Append(u, a)
    BY SequenceEmptyOrAppend
  <2>2. Len(u) = n
    BY <2>1
  <2> QED
    BY <1>2, <2>1, <2>2
<1> HIDE DEF T
<1>3. Nat \subseteq T
  BY <1>1, <1>2, NatSetInduction
<1> QED
  BY <1>3 DEF T

Together(g, h, N) == g[0] = h[0] /\ \A i \in 1..N : g[i - 1] = h[i - 1] => g[i] = h[i]

StepFunctions(S, N) == [S \X (1..N) -> S]

Solves(g, S, b, N, step) ==
  g \in [0..N -> S] /\ g[0] = b /\ \A i \in 1..N : g[i] = step[<<g[i - 1], i>>]

\* A recursion over the numbers up to N has a solution ...
LEMMA StepsExist ==
  ASSUME NEW S, NEW b \in S, NEW N \in Nat, NEW step \in StepFunctions(S, N)
  PROVE  \E g : Solves(g, S, b, N, step)
<1> DEFINE Partly(g, n) ==
             g \in [0..n -> S] /\ g[0] = b /\ \A i \in 1..n : g[i] = step[<<g[i - 1], i>>]
           T == {n \in Nat : n <= N => \E g : Partly(g, n)}
<1>0. step \in [S \X (1..N) -> S]
  BY DEF StepFunctions
<1>1. 0 \in T
  <2>1. Partly([i \in 0..0 |-> b], 0)
    OBVIOUS
  <2> QED
    BY <2>1
<1>2. ASSUME NEW n \in Nat, n \in T PROVE n + 1 \in T
  <2> SUFFICES ASSUME n + 1 <= N PROVE \E g : Partly(g, n + 1)
    OBVIOUS
  <2>1. PICK g : Partly(g, n)
    BY <1>2
  <2> DEFINE h == [i \in 0..(n + 1) |-> IF i <= n THEN g[i] ELSE step[<<g[n], n + 1>>]]
  <2>2. g[n] \in S /\ n + 1 \in 1..N
    BY <2>1
  <2>3. h \in [0..(n + 1) -> S] /\ h[0] = b
    BY <1>0, <2>1, <2>2
  <2>4. \A i \in 1..(n + 1) : h[i] = step[<<h[i - 1], i>>]
    <3> SUFFICES ASSUME NEW i \in 1..(n + 1) PROVE h[i] = step[<<h[i - 1], i>>]
      OBVIOUS
    <3>1. i - 1 \in 0..n /\ h[i - 1] = g[i - 1]
      OBVIOUS
    <3>2. CASE i <= n
      <4>1. h[i] = g[i] /\ i \in 1..n
        BY <3>2
      <4> HIDE DEF h
      <4> QED
        BY <2>1, <3>1, <4>1
    <3>3. CASE i = n + 1
      <4>1. h[i] = step[<<g[n], n + 1>>] /\ i - 1 = n
        BY <3>3
      <4> HIDE DEF h
      <4> QED
        BY <3>1, <3>3, <4>1
    <3> QED
      BY <3>2, <3>3
  <2> HIDE DEF h
  <2> QED
    BY <2>3, <2>4
<1> HIDE DEF T
<1>3. Nat \subseteq T
  BY <1>1, <1>2, NatSetInduction
<1>4. \E g : Partly(g, N)
  <2>1. N \in T
    BY <1>3
  <2> HIDE DEF Partly
  <2> QED
    BY <2>1 DEF T
<1>5. PICK g : Partly(g, N)
  BY <1>4
<1> QED
  BY <1>5 DEF Solves

\* ... and only one.
LEMMA StepsAgree == \A N \in Nat : \A g, h : Together(g, h, N) => g[N] = h[N]
<1> SUFFICES ASSUME NEW N \in Nat, NEW g, NEW h, Together(g, h, N) PROVE g[N] = h[N]
  OBVIOUS
<1> DEFINE T == {n \in Nat : n <= N => g[n] = h[n]}
<1>0. g[0] = h[0] /\ \A i \in 1..N : g[i - 1] = h[i - 1] => g[i] = h[i]
  BY DEF Together
<1>1. 0 \in T
  BY <1>0
<1>2. ASSUME NEW n \in Nat, n \in T PROVE n + 1 \in T
  <2> SUFFICES ASSUME n + 1 <= N PROVE g[n + 1] = h[n + 1]
    OBVIOUS
  <2>1. n + 1 \in 1..N /\ (n + 1) - 1 = n /\ g[n] = h[n]
    BY <1>2
  <2> QED
    BY <1>0, <2>1
<1> HIDE DEF T
<1>3. Nat \subseteq T
  BY <1>1, <1>2, NatSetInduction
<1> QED
  BY <1>3 DEF T

-----------------------------------------------------------------------------
(* Sequences put together *)

\* g[i] is the first i sequences of ss put together.
PutTogether(g, A, N, ss) ==
  g \in [0..N -> Seq(A)] /\ g[0] = <<>> /\ \A i \in 1..N : g[i] = g[i - 1] \o ss[i]

LEMMA PrefixesExist ==
  ASSUME NEW A, NEW N \in Nat, NEW ss \in [1..N -> Seq(A)]
  PROVE  \E g : PutTogether(g, A, N, ss)
<1> DEFINE step == [x \in Seq(A) \X (1..N) |-> x[1] \o ss[x[2]]]
<1>1. <<>> \in Seq(A)
  OBVIOUS
<1>2. step \in StepFunctions(Seq(A), N)
  BY DEF StepFunctions
<1>3. \A s \in Seq(A), i \in 1..N : step[<<s, i>>] = s \o ss[i]
  OBVIOUS
<1> HIDE DEF step
<1>4. PICK g : Solves(g, Seq(A), <<>>, N, step)
  BY <1>1, <1>2, StepsExist
<1>5. g \in [0..N -> Seq(A)] /\ g[0] = <<>> /\ \A i \in 1..N : g[i] = step[<<g[i - 1], i>>]
  BY <1>4 DEF Solves
<1>6. ASSUME NEW i \in 1..N PROVE g[i] = g[i - 1] \o ss[i]
  <2>1. i - 1 \in 0..N
    OBVIOUS
  <2>2. g[i - 1] \in Seq(A)
    BY <1>5, <2>1
  <2> QED
    BY <1>3, <1>5, <2>2
<1> QED
  BY <1>5, <1>6 DEF PutTogether

\* What FlattenSeq chooses.
Flattens(f, N, ss) == f = [i \in 1..N |-> IF i = 1 THEN ss[i] ELSE f[i - 1] \o ss[i]]

LEMMA PrefixesAgree ==
  ASSUME NEW A, NEW N \in Nat \ {0}, NEW ss \in [1..N -> Seq(A)],
         NEW g, PutTogether(g, A, N, ss), NEW f, Flattens(f, N, ss)
  PROVE  f[N] = g[N]
<1> DEFINE k == [i \in 0..N |-> IF i = 0 THEN <<>> ELSE f[i]]
<1>0. g \in [0..N -> Seq(A)] /\ g[0] = <<>> /\ \A i \in 1..N : g[i] = g[i - 1] \o ss[i]
  BY DEF PutTogether
<1>1. \A i \in 1..N : f[i] = IF i = 1 THEN ss[i] ELSE f[i - 1] \o ss[i]
  BY Zenon DEF Flattens
<1>2. k[0] = g[0]
  BY <1>0
<1>3. ASSUME NEW i \in 1..N, k[i - 1] = g[i - 1] PROVE k[i] = g[i]
  <2>1. i - 1 \in 0..N /\ i \in 0..N /\ i # 0
    OBVIOUS
  <2>2. k[i] = f[i]
    BY <2>1
  <2>3. CASE i = 1
    <3>1. g[i - 1] = <<>> /\ ss[i] \in Seq(A)
      BY <1>0, <2>3
    <3>2. <<>> \o ss[i] = ss[i]
      BY <3>1, ConcatEmptySeq
    <3>3. g[i] = g[i - 1] \o ss[i]
      BY <1>0
    <3> QED
      BY <1>1, <2>2, <2>3, <3>1, <3>2, <3>3
  <2>4. CASE i # 1
    <3>1. k[i - 1] = f[i - 1]
      BY <2>1, <2>4
    <3> QED
      BY <1>0, <1>1, <1>3, <2>2, <2>4, <3>1
  <2> QED
    BY <2>3, <2>4
<1>4. N \in Nat /\ k[N] = f[N]
  OBVIOUS
<1> HIDE DEF k
<1>5. Together(k, g, N)
  BY <1>2, <1>3 DEF Together
<1>6. k[N] = g[N]
  BY <1>4, <1>5, StepsAgree
<1> QED
  BY <1>4, <1>6

LEMMA FlattenEmpty == FlattenSeq(<<>>) = <<>>
  BY DEF FlattenSeq

LEMMA Flattened ==
  ASSUME NEW A, NEW N \in Nat, NEW ss \in [1..N -> Seq(A)], NEW g, PutTogether(g, A, N, ss)
  PROVE  FlattenSeq(ss) = g[N]
<1>0. Len(ss) = N
  OBVIOUS
<1>1. CASE N = 0
  <2>1. ss = <<>> /\ g[N] = <<>>
    BY <1>1 DEF PutTogether
  <2> QED
    BY <2>1, FlattenEmpty
<1>2. CASE N # 0
  <2> DEFINE f == CHOOSE x : x = [i \in 1..N |-> IF i = 1 THEN ss[i] ELSE x[i - 1] \o ss[i]]
             h == [i \in 1..N |-> g[i]]
  <2>1. g \in [0..N -> Seq(A)] /\ g[0] = <<>> /\ \A i \in 1..N : g[i] = g[i - 1] \o ss[i]
    BY DEF PutTogether
  <2>2. ASSUME NEW i \in 1..N
        PROVE  g[i] = IF i = 1 THEN ss[i] ELSE h[i - 1] \o ss[i]
    <3>1. CASE i = 1
      <4>1. g[i - 1] = <<>> /\ ss[i] \in Seq(A)
        BY <2>1, <3>1
      <4> QED
        BY <2>1, <3>1, <4>1, ConcatEmptySeq
    <3>2. CASE i # 1
      <4>1. h[i - 1] = g[i - 1]
        BY <3>2
      <4> HIDE DEF h
      <4> QED
        BY <2>1, <3>2, <4>1
    <3> QED
      BY <3>1, <3>2
  <2>3. h = [i \in 1..N |-> IF i = 1 THEN ss[i] ELSE h[i - 1] \o ss[i]]
    BY <2>2
  <2>4. Flattens(f, N, ss)
    BY <2>3, Zenon DEF Flattens
  <2>5. FlattenSeq(ss) = f[N]
    BY <1>0, <1>2 DEF FlattenSeq
  <2> HIDE DEF f
  <2>6. f[N] = g[N]
    BY <1>2, <2>4, PrefixesAgree
  <2> QED
    BY <2>5, <2>6
<1> QED
  BY <1>1, <1>2

LEMMA FlattenAppend ==
  ASSUME NEW A, NEW ss \in Seq(Seq(A)), NEW s \in Seq(A)
  PROVE  /\ FlattenSeq(ss) \in Seq(A)
         /\ FlattenSeq(Append(ss, s)) = FlattenSeq(ss) \o s
<1>1. PICK N \in Nat : N = Len(ss)
  OBVIOUS
<1>2. PICK tt : tt = Append(ss, s)
  OBVIOUS
<1>3. ss \in [1..N -> Seq(A)]
  BY <1>1
<1>a. PICK M \in Nat \ {0} : M = N + 1
  OBVIOUS
<1>b. tt \in Seq(Seq(A)) /\ Len(tt) = M
  BY <1>1, <1>2, <1>a, AppendProperties
<1>4. tt \in [1..M -> Seq(A)] /\ tt[M] = s /\ \A i \in 1..N : tt[i] = ss[i]
  <2>1. tt \in [1..M -> Seq(A)]
    BY <1>b
  <2>2. tt[M] = s
    BY <1>1, <1>2, <1>a
  <2>3. \A i \in 1..N : tt[i] = ss[i]
    BY <1>1, <1>2
  <2> QED
    BY <2>1, <2>2, <2>3
<1>5. PICK h : PutTogether(h, A, M, tt)
  BY <1>4, PrefixesExist
<1>6. PICK g : PutTogether(g, A, N, ss)
  BY <1>3, PrefixesExist
<1>7. FlattenSeq(ss) = g[N] /\ FlattenSeq(tt) = h[M]
  BY <1>3, <1>4, <1>5, <1>6, Flattened
<1>8. g[N] = h[N]
  <2>1. ASSUME NEW i \in 1..N, g[i - 1] = h[i - 1] PROVE g[i] = h[i]
    <3>1. i \in 1..M
      BY <1>a
    <3> QED
      BY <1>4, <1>5, <1>6, <2>1, <3>1 DEF PutTogether
  <2>2. Together(g, h, N)
    BY <1>5, <1>6, <2>1 DEF Together, PutTogether
  <2> QED
    BY <2>2, StepsAgree
<1>9. h[M] = h[N] \o s /\ g[N] \in Seq(A)
  <2>1. M \in 1..M /\ M - 1 = N
    BY <1>a
  <2>2. h[M] = h[M - 1] \o tt[M]
    BY <1>5, <2>1 DEF PutTogether
  <2>3. g[N] \in Seq(A)
    BY <1>6 DEF PutTogether
  <2> QED
    BY <1>4, <2>1, <2>2, <2>3
<1> QED
  BY <1>2, <1>7, <1>8, <1>9

-----------------------------------------------------------------------------
(* Reading a string *)

State == [at: {"char", "escape", "error"}, said: Text]

LEMMA StepType == ASSUME NEW s \in State, NEW t \in Token PROVE Step(s, t) \in State
<1>1. s.said \in Text /\ Append(s.said, t) \in Text
  BY DEF State, Text
<1> QED
  BY <1>1 DEF Step, State

\* g[i] is what the first i tokens of the text have come to.
Scans(g, N, text) ==
  g \in [0..N -> State] /\ g[0] = Start /\ \A i \in 1..N : g[i] = Step(g[i - 1], text[i])

LEMMA ScanExists ==
  ASSUME NEW N \in Nat, NEW text \in [1..N -> Token]
  PROVE  \E g : Scans(g, N, text)
<1> DEFINE step == [x \in State \X (1..N) |-> Step(x[1], text[x[2]])]
<1>1. Start \in State
  BY DEF Start, State, Text
<1>2. step \in StepFunctions(State, N)
  BY StepType DEF StepFunctions
<1>3. \A s \in State, i \in 1..N : step[<<s, i>>] = Step(s, text[i])
  OBVIOUS
<1> HIDE DEF step
<1>4. PICK g : Solves(g, State, Start, N, step)
  BY <1>1, <1>2, StepsExist
<1>5. g \in [0..N -> State] /\ g[0] = Start /\ \A i \in 1..N : g[i] = step[<<g[i - 1], i>>]
  BY <1>4 DEF Solves
<1>6. ASSUME NEW i \in 1..N PROVE g[i] = Step(g[i - 1], text[i])
  <2>1. i - 1 \in 0..N
    OBVIOUS
  <2>2. g[i - 1] \in State
    BY <1>5, <2>1
  <2> QED
    BY <1>3, <1>5, <2>2
<1> QED
  BY <1>5, <1>6 DEF Scans

LEMMA Scanned ==
  ASSUME NEW N \in Nat, NEW text \in [1..N -> Token], NEW g, Scans(g, N, text)
  PROVE  Scan(text) = g[N]
<1> DEFINE Is(x) == x = [i \in 0..N |-> IF i = 0 THEN Start ELSE Step(x[i - 1], text[i])]
           f == CHOOSE x : Is(x)
<1>1. Len(text) = N
  OBVIOUS
<1>2. g \in [0..N -> State] /\ g[0] = Start /\ \A i \in 1..N : g[i] = Step(g[i - 1], text[i])
  BY DEF Scans
<1>3. Is(g)
  BY <1>2
<1>4. Is(f)
  BY <1>3, Zenon
<1>5. Scan(text) = f[N]
  BY <1>1 DEF Scan
<1> HIDE DEF f
<1>6. f[0] = Start /\ \A i \in 1..N : f[i] = Step(f[i - 1], text[i])
  BY <1>4
<1>7. Together(f, g, N)
  BY <1>2, <1>6 DEF Together
<1>8. f[N] = g[N]
  BY <1>7, StepsAgree
<1> QED
  BY <1>5, <1>8

LEMMA ScanEmpty == Scan(<<>>) = Start
<1>1. PICK text : text = <<>>
  OBVIOUS
<1>2. text \in [1..0 -> Token]
  BY <1>1
<1>3. PICK g : Scans(g, 0, text)
  BY <1>2, ScanExists
<1>4. Scan(text) = g[0]
  BY <1>2, <1>3, Scanned
<1> QED
  BY <1>1, <1>3, <1>4 DEF Scans

LEMMA ScanAppend ==
  ASSUME NEW text \in Text, NEW t \in Token
  PROVE  Scan(text) \in State /\ Scan(Append(text, t)) = Step(Scan(text), t)
<1>1. PICK N \in Nat : N = Len(text)
  BY DEF Text
<1>2. PICK longer : longer = Append(text, t)
  OBVIOUS
<1>3. text \in [1..N -> Token]
  BY <1>1 DEF Text
<1>a. PICK M \in Nat : M = N + 1
  OBVIOUS
<1>b. longer \in Seq(Token) /\ Len(longer) = M
  BY <1>1, <1>2, <1>a, AppendProperties DEF Text
<1>4. longer \in [1..M -> Token] /\ longer[M] = t /\ \A i \in 1..N : longer[i] = text[i]
  <2>1. longer \in [1..M -> Token]
    BY <1>b
  <2>2. longer[M] = t
    BY <1>1, <1>2, <1>a DEF Text
  <2>3. \A i \in 1..N : longer[i] = text[i]
    BY <1>1, <1>2 DEF Text
  <2> QED
    BY <2>1, <2>2, <2>3
<1>5. PICK h : Scans(h, M, longer)
  BY <1>4, ScanExists
<1>6. PICK g : Scans(g, N, text)
  BY <1>3, ScanExists
<1>7. Scan(text) = g[N] /\ Scan(longer) = h[M]
  BY <1>3, <1>4, <1>5, <1>6, Scanned
<1>8. g[N] = h[N]
  <2>1. ASSUME NEW i \in 1..N, g[i - 1] = h[i - 1] PROVE g[i] = h[i]
    <3>1. i \in 1..M
      BY <1>a
    <3> QED
      BY <1>4, <1>5, <1>6, <2>1, <3>1 DEF Scans
  <2>2. Together(g, h, N)
    BY <1>5, <1>6, <2>1 DEF Together, Scans
  <2> QED
    BY <2>2, StepsAgree
<1>9. h[M] = Step(h[N], t) /\ g[N] \in State
  <2>1. M \in 1..M /\ M - 1 = N
    BY <1>a
  <2> QED
    BY <1>4, <1>5, <1>6, <2>1 DEF Scans
<1> QED
  BY <1>2, <1>7, <1>8, <1>9

-----------------------------------------------------------------------------
(* Token by token *)

Mapped(f, u) == FlattenSeq([i \in DOMAIN u |-> f[u[i]]])
Mappings(T, A) == [T -> Seq(A)]

LEMMA MappedEmpty == ASSUME NEW f PROVE Mapped(f, <<>>) = <<>>
<1>1. [i \in DOMAIN <<>> |-> f[<<>>[i]]] = <<>>
  OBVIOUS
<1> QED
  BY <1>1, FlattenEmpty DEF Mapped

LEMMA MappedAppend ==
  ASSUME NEW T, NEW A, NEW f \in Mappings(T, A), NEW u \in Seq(T), NEW t \in T
  PROVE  Mapped(f, u) \in Seq(A) /\ Mapped(f, Append(u, t)) = Mapped(f, u) \o f[t]
<1> DEFINE ss == [i \in DOMAIN u |-> f[u[i]]]
           more == [i \in DOMAIN Append(u, t) |-> f[Append(u, t)[i]]]
<1>1. ss \in Seq(Seq(A)) /\ f[t] \in Seq(A)
  BY DEF Mappings
<1>2. more = Append(ss, f[t])
  <2>1. Len(ss) = Len(u) /\ DOMAIN more = 1..(Len(u) + 1)
    OBVIOUS
  <2>2. DOMAIN Append(ss, f[t]) = 1..(Len(u) + 1)
    BY <1>1, <2>1
  <2>3. ASSUME NEW i \in 1..(Len(u) + 1) PROVE more[i] = Append(ss, f[t])[i]
    BY <1>1
  <2>4. Append(ss, f[t]) = [i \in 1..(Len(u) + 1) |-> Append(ss, f[t])[i]]
    BY <1>1, <2>1
  <2>5. more = [i \in 1..(Len(u) + 1) |-> more[i]]
    BY <2>1
  <2> HIDE DEF more, ss
  <2> QED
    BY <2>3, <2>4, <2>5
<1>3. FlattenSeq(ss) \in Seq(A) /\ FlattenSeq(Append(ss, f[t])) = FlattenSeq(ss) \o f[t]
  BY <1>1, FlattenAppend
<1> HIDE DEF ss, more
<1> QED
  BY <1>2, <1>3 DEF Mapped, ss, more

-----------------------------------------------------------------------------
(* Tokens *)

Figures == {Digit, Blank, Blanks}

LEMMA Characters ==
  /\ Letter \in Token /\ Quote \in Token /\ Backslash \in Token /\ Blank \in Token
  /\ Figures \subseteq Token
  /\ ~IsHole(Letter) /\ ~IsHole(Quote) /\ ~IsHole(Backslash)
  /\ \A t \in Figures : ~IsHole(t)
  /\ Letter # Quote /\ Letter # Backslash /\ Quote # Backslash
  /\ Letter \notin Figures /\ Quote \notin Figures /\ Backslash \notin Figures
<1>1. /\ Letter \in Token /\ Quote \in Token /\ Backslash \in Token /\ Blank \in Token
      /\ Figures \subseteq Token
  BY DEF Token, Figures
<1>2. /\ ~IsHole(Letter) /\ ~IsHole(Quote) /\ ~IsHole(Backslash)
      /\ \A t \in Figures : ~IsHole(t)
  BY DEF Letter, Digit, Quote, Backslash, Blank, Blanks, Figures, IsHole
<1>3. /\ Letter # Quote /\ Letter # Backslash /\ Quote # Backslash
      /\ Letter \notin Figures /\ Quote \notin Figures /\ Backslash \notin Figures
  BY DEF Letter, Digit, Quote, Backslash, Blank, Blanks, Figures
<1> QED
  BY <1>1, <1>2, <1>3

\* Holes with names in H, and characters.
Tokens(H) == {t \in Token : IsHole(t) => t[2] \in H}

Escapes == [t \in Token |-> IF t \in {Quote, Backslash} THEN <<Backslash, t>> ELSE <<t>>]

LEMMA EncodedEmpty == Encoded(<<>>) = <<>>
<1>1. Encoded(<<>>) = FlattenSeq(<<>>)
  BY DEF Encoded
<1> QED
  BY <1>1, FlattenEmpty

LEMMA EscapesType == Escapes \in Mappings(Token, Token)
  BY Characters DEF Escapes, Mappings

LEMMA EncodedMapped == ASSUME NEW u \in Text PROVE Encoded(u) = Mapped(Escapes, u)
<1>1. \A i \in DOMAIN u : u[i] \in Token
  BY DEF Text
<1>2. \A i \in DOMAIN u :
        Escapes[u[i]] = IF u[i] \in {Quote, Backslash} THEN <<Backslash, u[i]>> ELSE <<u[i]>>
  BY <1>1 DEF Escapes
<1> QED
  BY <1>2 DEF Encoded, Mapped

LEMMA EncodedAppend ==
  ASSUME NEW u \in Text, NEW t \in Token
  PROVE  /\ Encoded(u) \in Text
         /\ Encoded(Append(u, t)) =
              Encoded(u) \o (IF t \in {Quote, Backslash} THEN <<Backslash, t>> ELSE <<t>>)
<1>1. Append(u, t) \in Text
  BY DEF Text
<1>2. Escapes[t] = IF t \in {Quote, Backslash} THEN <<Backslash, t>> ELSE <<t>>
  BY DEF Escapes
<1>3. u \in Seq(Token)
  BY DEF Text
<1>4. Mapped(Escapes, u) \in Seq(Token)
      /\ Mapped(Escapes, Append(u, t)) = Mapped(Escapes, u) \o Escapes[t]
  BY <1>3, EscapesType, MappedAppend
<1> QED
  BY <1>1, <1>2, <1>4, EncodedMapped DEF Text

LEMMA EncodedType == ASSUME NEW u \in Text PROVE Encoded(u) \in Text
  BY EncodedAppend, Characters

\* What the holes in H are filled with: texts.
Fills(H, v) == [t \in Tokens(H) |-> IF IsHole(t) THEN Encoded(v[t[2]]) ELSE <<t>>]
Puts(H, v) == [t \in Tokens(H) |-> IF IsHole(t) THEN v[t[2]] ELSE <<t>>]

LEMMA FilledEmpty == ASSUME NEW v PROVE Filled(<<>>, v) = <<>> /\ WithValues(<<>>, v) = <<>>
<1>1. Filled(<<>>, v) = FlattenSeq(<<>>)
  BY DEF Filled
<1>2. WithValues(<<>>, v) = FlattenSeq(<<>>)
  BY DEF WithValues
<1> QED
  BY <1>1, <1>2, FlattenEmpty

LEMMA FilledAppend ==
  ASSUME NEW H, NEW v \in [H -> Text], NEW u \in Seq(Tokens(H)), NEW t \in Tokens(H)
  PROVE  /\ Filled(u, v) \in Text
         /\ Filled(Append(u, t), v) =
              Filled(u, v) \o (IF IsHole(t) THEN Encoded(v[t[2]]) ELSE <<t>>)
<1>1. Fills(H, v) \in Mappings(Tokens(H), Token)
  <2>1. ASSUME NEW s \in Tokens(H)
        PROVE  (IF IsHole(s) THEN Encoded(v[s[2]]) ELSE <<s>>) \in Seq(Token)
    <3>1. CASE IsHole(s)
      <4>1. v[s[2]] \in Text
        BY <3>1 DEF Tokens
      <4>2. Encoded(v[s[2]]) \in Text
        BY <4>1, EncodedType
      <4> QED
        BY <3>1, <4>2 DEF Text
    <3>2. CASE ~IsHole(s)
      BY <3>2 DEF Tokens
    <3> QED
      BY <3>1, <3>2
  <2> QED
    BY <2>1 DEF Fills, Mappings
<1>2. ASSUME NEW w \in Seq(Tokens(H)) PROVE Filled(w, v) = Mapped(Fills(H, v), w)
  <2>1. \A i \in DOMAIN w :
          Fills(H, v)[w[i]] = IF IsHole(w[i]) THEN Encoded(v[w[i][2]]) ELSE <<w[i]>>
    BY DEF Fills
  <2> QED
    BY <2>1 DEF Filled, Mapped
<1>3. /\ Mapped(Fills(H, v), u) \in Seq(Token)
      /\ Mapped(Fills(H, v), Append(u, t)) = Mapped(Fills(H, v), u) \o Fills(H, v)[t]
  BY <1>1, MappedAppend
<1>4. Fills(H, v)[t] = IF IsHole(t) THEN Encoded(v[t[2]]) ELSE <<t>>
  BY DEF Fills
<1>5. Append(u, t) \in Seq(Tokens(H))
  OBVIOUS
<1> QED
  BY <1>2, <1>3, <1>4, <1>5 DEF Text

LEMMA PutAppend ==
  ASSUME NEW H, NEW v \in [H -> Text], NEW u \in Seq(Tokens(H)), NEW t \in Tokens(H)
  PROVE  /\ WithValues(u, v) \in Text
         /\ WithValues(Append(u, t), v) =
              WithValues(u, v) \o (IF IsHole(t) THEN v[t[2]] ELSE <<t>>)
<1>1. Puts(H, v) \in Mappings(Tokens(H), Token)
  <2>1. ASSUME NEW s \in Tokens(H)
        PROVE  (IF IsHole(s) THEN v[s[2]] ELSE <<s>>) \in Seq(Token)
    <3>1. CASE IsHole(s)
      BY <3>1 DEF Tokens, Text
    <3>2. CASE ~IsHole(s)
      BY <3>2 DEF Tokens
    <3> QED
      BY <3>1, <3>2
  <2> QED
    BY <2>1 DEF Puts, Mappings
<1>2. ASSUME NEW w \in Seq(Tokens(H)) PROVE WithValues(w, v) = Mapped(Puts(H, v), w)
  <2>1. \A i \in DOMAIN w :
          Puts(H, v)[w[i]] = IF IsHole(w[i]) THEN v[w[i][2]] ELSE <<w[i]>>
    BY DEF Puts
  <2> QED
    BY <2>1 DEF WithValues, Mapped
<1>3. /\ Mapped(Puts(H, v), u) \in Seq(Token)
      /\ Mapped(Puts(H, v), Append(u, t)) = Mapped(Puts(H, v), u) \o Puts(H, v)[t]
  BY <1>1, MappedAppend
<1>4. Puts(H, v)[t] = IF IsHole(t) THEN v[t[2]] ELSE <<t>>
  BY DEF Puts
<1>5. Append(u, t) \in Seq(Tokens(H))
  OBVIOUS
<1> QED
  BY <1>2, <1>3, <1>4, <1>5 DEF Text

-----------------------------------------------------------------------------
(* Strings with values in them *)

LEMMA StepCases ==
  ASSUME NEW s \in State, NEW t \in Token
  PROVE  /\ s.at = "error" => Step(s, t) = s
         /\ s.at = "char" /\ t \notin {Quote, Backslash} =>
              Step(s, t).at = "char" /\ Step(s, t).said = Append(s.said, t)
         /\ s.at = "char" /\ t = Backslash =>
              Step(s, t).at = "escape" /\ Step(s, t).said = s.said
         /\ s.at = "char" /\ t = Quote =>
              Step(s, t).at = "error" /\ Step(s, t).said = s.said
         /\ s.at = "escape" /\ t \in {Quote, Backslash} =>
              Step(s, t).at = "char" /\ Step(s, t).said = Append(s.said, t)
         /\ s.at = "escape" /\ t \notin {Quote, Backslash} =>
              Step(s, t).at = "error" /\ Step(s, t).said = Append(s.said, t)
<1>1. s.at = "error" => Step(s, t) = s
  BY DEF Step
<1>2. s.at = "char" /\ t \notin {Quote, Backslash} =>
        Step(s, t).at = "char" /\ Step(s, t).said = Append(s.said, t)
  BY DEF Step, State
<1>3. s.at = "char" /\ t = Backslash =>
        Step(s, t).at = "escape" /\ Step(s, t).said = s.said
  BY Characters DEF Step, State
<1>4. s.at = "char" /\ t = Quote =>
        Step(s, t).at = "error" /\ Step(s, t).said = s.said
  BY Characters DEF Step, State
<1>5. s.at = "escape" /\ t \in {Quote, Backslash} =>
        Step(s, t).at = "char" /\ Step(s, t).said = Append(s.said, t)
  BY DEF Step
<1>6. s.at = "escape" /\ t \notin {Quote, Backslash} =>
        Step(s, t).at = "error" /\ Step(s, t).said = Append(s.said, t)
  BY DEF Step
<1> QED
  BY <1>1, <1>2, <1>3, <1>4, <1>5, <1>6

LEMMA StepSaid ==
  ASSUME NEW T, T \subseteq Token, NEW s \in State, s.said \in Seq(T), NEW t \in T
  PROVE  Step(s, t).said \in Seq(T)
<1>1. t \in Token /\ s.at \in {"error", "escape", "char"}
  BY DEF State
<1>2. Append(s.said, t) \in Seq(T)
  OBVIOUS
<1>3. Step(s, t).said \in {s.said, Append(s.said, t)}
  BY <1>1, StepCases
<1> QED
  BY <1>2, <1>3

\* A string says what it is made of.
LEMMA ScanSaid ==
  ASSUME NEW T, T \subseteq Token, NEW u \in Seq(T)
  PROVE  u \in Text /\ Scan(u) \in State /\ Scan(u).said \in Seq(T)
<1> DEFINE S == {w \in Seq(T) : w \in Text /\ Scan(w) \in State /\ Scan(w).said \in Seq(T)}
<1>1. <<>> \in S
  <2>1. Start \in State /\ Start.said = <<>>
    BY DEF Start, Text, State
  <2>2. <<>> \in Seq(T) /\ <<>> \in Text
    BY DEF Text
  <2>3. Scan(<<>>) \in State /\ Scan(<<>>).said \in Seq(T)
    BY <2>1, <2>2, ScanEmpty
  <2> QED
    BY <2>2, <2>3
<1>2. ASSUME NEW w \in Seq(T), NEW t \in T, w \in S PROVE Append(w, t) \in S
  <2>1. t \in Token /\ w \in Text /\ Append(w, t) \in Text /\ Append(w, t) \in Seq(T)
    BY <1>2 DEF Text
  <2>2. Scan(Append(w, t)) = Step(Scan(w), t) /\ Scan(w) \in State /\ Scan(w).said \in Seq(T)
    BY <1>2, <2>1, ScanAppend
  <2>3. Step(Scan(w), t) \in State
    BY <2>1, <2>2, StepType
  <2>4. Step(Scan(w), t).said \in Seq(T)
    BY <2>2, StepSaid
  <2> QED
    BY <2>1, <2>2, <2>3, <2>4
<1> HIDE DEF S
<1>3. Seq(T) \subseteq S
  BY <1>1, <1>2, SeqSetInduction
<1> QED
  BY <1>3 DEF S

LEMMA AppendConcat ==
  ASSUME NEW A, NEW u \in Seq(A), NEW w \in Seq(A), NEW a \in A
  PROVE  u \o Append(w, a) = Append(u \o w, a) /\ w \o <<a>> = Append(w, a)
  OBVIOUS

\* Whatever is encoded and put into a string is what the string then says.
THEOREM ScanEncoded ==
  ASSUME NEW u \in Text, Scan(u).at = "char", NEW w \in Text
  PROVE  /\ Scan(u \o Encoded(w)).at = "char"
         /\ Scan(u \o Encoded(w)).said = Scan(u).said \o w
<1> DEFINE S == {x \in Text : /\ Scan(u \o Encoded(x)).at = "char"
                              /\ Scan(u \o Encoded(x)).said = Scan(u).said \o x}
<1>0. Scan(u) \in State /\ Scan(u).said \in Seq(Token) /\ u \in Seq(Token)
  BY ScanSaid DEF Text
<1>1. <<>> \in S
  <2>1. u \o Encoded(<<>>) = u /\ Scan(u).said \o <<>> = Scan(u).said
    BY <1>0, EncodedEmpty
  <2>2. <<>> \in Text
    BY DEF Text
  <2>3. /\ Scan(u \o Encoded(<<>>)).at = "char"
        /\ Scan(u \o Encoded(<<>>)).said = Scan(u).said \o <<>>
    BY <2>1
  <2> QED
    BY <2>2, <2>3
<1>2. ASSUME NEW x \in Seq(Token), NEW t \in Token, x \in S PROVE Append(x, t) \in S
  <2>1. PICK y : y = u \o Encoded(x)
    OBVIOUS
  <2>2. x \in Text /\ Append(x, t) \in Text /\ Encoded(x) \in Seq(Token)
    BY EncodedType DEF Text
  <2>3. y \in Seq(Token) /\ Append(y, Backslash) \in Seq(Token)
    BY <1>0, <2>1, <2>2, Characters
  <2>4. Scan(y) \in State /\ Scan(Append(y, Backslash)) \in State
    BY <2>3, ScanSaid DEF Text
  <2>5. Scan(y).at = "char" /\ Scan(y).said = Scan(u).said \o x
    BY <1>2, <2>1
  <2>6. Append(Scan(y).said, t) = Scan(u).said \o Append(x, t)
    <3>1. PICK a \in Seq(Token) : a = Scan(u).said
      BY <1>0
    <3>2. a \o Append(x, t) = Append(a \o x, t)
      BY AppendConcat
    <3> QED
      BY <2>5, <3>1, <3>2
  <2>7. Encoded(Append(x, t)) =
          Encoded(x) \o (IF t \in {Quote, Backslash} THEN <<Backslash, t>> ELSE <<t>>)
    BY <2>2, EncodedAppend
  <2>8. CASE t \notin {Quote, Backslash}
    <3>1. u \o Encoded(Append(x, t)) = Append(y, t)
      BY <1>0, <2>1, <2>2, <2>7, <2>8
    <3>2. Scan(Append(y, t)) = Step(Scan(y), t)
      BY <2>3, ScanAppend DEF Text
    <3>3. Step(Scan(y), t).at = "char" /\ Step(Scan(y), t).said = Append(Scan(y).said, t)
      BY <2>4, <2>5, <2>8, StepCases
    <3> QED
      BY <2>2, <2>6, <3>1, <3>2, <3>3
  <2>9. CASE t \in {Quote, Backslash}
    <3>1. u \o Encoded(Append(x, t)) = Append(Append(y, Backslash), t)
      <4>1. u \o (Encoded(x) \o <<Backslash, t>>) = Append(Append(u \o Encoded(x), Backslash), t)
        <5>1. PICK e \in Seq(Token), b \in Token : e = Encoded(x) /\ b = Backslash
          BY <2>2, Characters
        <5>2. u \o (e \o <<b, t>>) = Append(Append(u \o e, b), t)
          <6>1. PICK eb \in Seq(Token) : eb = Append(e, b)
            BY AppendProperties
          <6>2. e \o <<b, t>> = Append(eb, t)
            BY <6>1
          <6>3. u \o Append(eb, t) = Append(u \o eb, t)
            BY <1>0, AppendConcat
          <6>4. u \o eb = Append(u \o e, b)
            BY <1>0, <6>1, AppendConcat
          <6> QED
            BY <6>2, <6>3, <6>4
        <5> QED
          BY <5>1, <5>2
      <4> QED
        BY <2>1, <2>7, <2>9, <4>1
    <3>2. Scan(Append(y, Backslash)) = Step(Scan(y), Backslash)
      BY <2>3, ScanAppend, Characters DEF Text
    <3>3. /\ Scan(Append(y, Backslash)).at = "escape"
          /\ Scan(Append(y, Backslash)).said = Scan(y).said
      BY <2>4, <2>5, <3>2, StepCases, Characters
    <3>4. Scan(Append(Append(y, Backslash), t)) = Step(Scan(Append(y, Backslash)), t)
      BY <2>3, ScanAppend DEF Text
    <3>5. /\ Scan(Append(Append(y, Backslash), t)).at = "char"
          /\ Scan(Append(Append(y, Backslash), t)).said = Append(Scan(y).said, t)
      BY <2>4, <2>9, <3>3, <3>4, StepCases
    <3> QED
      BY <2>2, <2>6, <3>1, <3>5
  <2> QED
    BY <2>8, <2>9
<1> HIDE DEF S
<1>3. Text \subseteq S
  BY <1>1, <1>2, SeqSetInduction DEF Text
<1> QED
  BY <1>3 DEF S

\* A template's string with values in its holes says what the template says, with
\* the values in the holes.
LEMMA ScanFilled ==
  ASSUME NEW H, NEW v \in [H -> Text], NEW text \in Seq(Tokens(H)), Scan(text).at # "error"
  PROVE  /\ Scan(Filled(text, v)).at = Scan(text).at
         /\ Scan(Filled(text, v)).said = WithValues(Scan(text).said, v)
<1> DEFINE Good(x) == /\ Scan(Filled(x, v)).at = Scan(x).at
                      /\ Scan(Filled(x, v)).said = WithValues(Scan(x).said, v)
           S == {x \in Seq(Tokens(H)) : Scan(x).at # "error" => Good(x)}
<1>0. Tokens(H) \subseteq Token
  BY DEF Tokens
<1>1. <<>> \in S
  <2>1. Start.said = <<>>
    BY DEF Start
  <2> QED
    BY <2>1, ScanEmpty, FilledEmpty
<1>2. ASSUME NEW x \in Seq(Tokens(H)), NEW t \in Tokens(H), x \in S PROVE Append(x, t) \in S
  <2> SUFFICES ASSUME Scan(Append(x, t)).at # "error" PROVE Good(Append(x, t))
    OBVIOUS
  <2>1. PICK s : s = Scan(x)
    OBVIOUS
  <2>2. PICK f : f = Filled(x, v)
    OBVIOUS
  <2>3. x \in Text /\ s \in State /\ s.said \in Seq(Tokens(H)) /\ t \in Token
    BY <1>0, <2>1, ScanSaid
  <2>4. PICK said : said = WithValues(s.said, v)
    OBVIOUS
  <2>5. Scan(Append(x, t)) = Step(s, t)
    BY <2>1, <2>3, ScanAppend
  <2>6. s.at # "error" /\ s.at \in {"char", "escape", "error"}
    BY <2>3, <2>5, StepCases DEF State
  <2>7. Scan(f).at = s.at /\ Scan(f).said = said
    BY <1>2, <2>1, <2>2, <2>4, <2>6
  <2>8. f \in Seq(Token) /\ said \in Seq(Token)
    BY <2>2, <2>3, <2>4, FilledAppend, PutAppend DEF Text
  <2>9. Scan(f) \in State
    BY <2>8, ScanSaid
  <2>10. /\ Filled(Append(x, t), v) = f \o (IF IsHole(t) THEN Encoded(v[t[2]]) ELSE <<t>>)
         /\ WithValues(Append(s.said, t), v) = said \o (IF IsHole(t) THEN v[t[2]] ELSE <<t>>)
    BY <2>2, <2>3, <2>4, FilledAppend, PutAppend
  <2>11. CASE ~IsHole(t)
    <3>1. f \o <<t>> = Append(f, t) /\ said \o <<t>> = Append(said, t)
      BY <2>3, <2>8, AppendConcat
    <3>2. /\ Filled(Append(x, t), v) = Append(f, t)
          /\ WithValues(Append(s.said, t), v) = Append(said, t)
      BY <2>10, <2>11, <3>1
    <3>3. Scan(Filled(Append(x, t), v)) = Step(Scan(f), t)
      BY <2>3, <2>8, <3>2, ScanAppend DEF Text
    <3>4. Step(Scan(f), t).at = Step(s, t).at
      BY <2>3, <2>6, <2>7, <2>9, StepCases
    <3>5. \/ Step(s, t).said = Append(s.said, t) /\ Step(Scan(f), t).said = Append(said, t)
          \/ Step(s, t).said = s.said /\ Step(Scan(f), t).said = said
      BY <2>3, <2>6, <2>7, <2>9, StepCases
    <3>6. Step(Scan(f), t).said = WithValues(Step(s, t).said, v)
      BY <2>4, <3>2, <3>5
    <3> QED
      BY <2>5, <3>3, <3>4, <3>6
  <2>12. CASE IsHole(t)
    <3>1. t \notin {Quote, Backslash}
      BY <2>12, Characters
    <3>2. s.at = "char"
      BY <2>3, <2>5, <2>6, <3>1, StepCases
    <3>3. Step(s, t).at = "char" /\ Step(s, t).said = Append(s.said, t)
      BY <2>3, <3>1, <3>2, StepCases
    <3>4. PICK w \in Text : w = v[t[2]]
      BY <2>12 DEF Tokens
    <3>5. Scan(f \o Encoded(w)).at = "char" /\ Scan(f \o Encoded(w)).said = said \o w
      BY <2>7, <2>8, <3>2, ScanEncoded DEF Text
    <3> QED
      BY <2>5, <2>10, <2>12, <3>3, <3>4, <3>5
  <2> QED
    BY <2>11, <2>12
<1> HIDE DEF S
<1>3. Seq(Tokens(H)) \subseteq S
  BY <1>1, <1>2, SeqSetInduction
<1> QED
  BY <1>3 DEF S

LEMMA StepAt ==
  ASSUME NEW s \in State, NEW r \in State, s.at = r.at, NEW t \in Token, NEW c \in Token,
         c = t \/ {c, t} \cap {Quote, Backslash} = {}
  PROVE  Step(s, t).at = Step(r, c).at
<1>1. s.at \in {"char", "escape", "error"}
  BY DEF State
<1>2. CASE s.at = "error"
  BY <1>2, StepCases
<1>3. CASE s.at = "escape"
  BY <1>3, StepCases
<1>4. CASE s.at = "char" /\ t \notin {Quote, Backslash}
  <2>1. c \notin {Quote, Backslash}
    BY <1>4
  <2> QED
    BY <1>4, <2>1, StepCases
<1>5. CASE s.at = "char" /\ t = Quote
  BY <1>5, StepCases
<1>6. CASE s.at = "char" /\ t = Backslash
  BY <1>6, StepCases
<1> QED
  BY <1>1, <1>2, <1>3, <1>4, <1>5, <1>6

\* The word that ValidateTemplate puts into every hole.
Dummy(H) == [n \in H |-> <<Letter>>]

LEMMA DummyType ==
  ASSUME NEW H
  PROVE  Dummy(H) \in [H -> Text] /\ Encoded(<<Letter>>) = <<Letter>>
<1>1. <<>> \in Text /\ <<Letter>> = Append(<<>>, Letter) /\ <<Letter>> \in Text
  BY Characters DEF Text
<1>2. Encoded(Append(<<>>, Letter)) = Encoded(<<>>) \o <<Letter>>
  BY <1>1, EncodedAppend, Characters
<1>3. Encoded(<<>>) \o <<Letter>> = <<Letter>>
  <2>1. <<>> \o <<Letter>> = <<Letter>>
    BY <1>1, ConcatEmptySeq DEF Text
  <2> QED
    BY <2>1, EncodedEmpty
<1> QED
  BY <1>1, <1>2, <1>3 DEF Dummy

LEMMA DummyAppend ==
  ASSUME NEW H, NEW x \in Seq(Tokens(H)), NEW t \in Tokens(H)
  PROVE  /\ Filled(x, Dummy(H)) \in Seq(Token)
         /\ Filled(Append(x, t), Dummy(H)) =
              Filled(x, Dummy(H)) \o (IF IsHole(t) THEN <<Letter>> ELSE <<t>>)
<1>1. PICK d \in [H -> Text] : d = Dummy(H)
  BY DummyType
<1>2. /\ Filled(x, d) \in Text
      /\ Filled(Append(x, t), d) =
           Filled(x, d) \o (IF IsHole(t) THEN Encoded(d[t[2]]) ELSE <<t>>)
  BY FilledAppend
<1>3. CASE IsHole(t)
  <2>1. d[t[2]] = <<Letter>>
    BY <1>1, <1>3 DEF Tokens, Dummy
  <2> QED
    BY <1>1, <1>2, <1>3, <2>1, DummyType DEF Text
<1>4. CASE ~IsHole(t)
  BY <1>1, <1>2, <1>4 DEF Text
<1> QED
  BY <1>3, <1>4

\* The word tells whether a string is one, whatever the values will be.
LEMMA ScanDummy ==
  ASSUME NEW H, NEW text \in Seq(Tokens(H))
  PROVE  Scan(Filled(text, Dummy(H))).at = Scan(text).at
<1> DEFINE S == {x \in Seq(Tokens(H)) : Scan(Filled(x, Dummy(H))).at = Scan(x).at}
<1>0. Tokens(H) \subseteq Token
  BY DEF Tokens
<1>1. <<>> \in S
  BY FilledEmpty
<1>2. ASSUME NEW x \in Seq(Tokens(H)), NEW t \in Tokens(H), x \in S PROVE Append(x, t) \in S
  <2>1. PICK f : f = Filled(x, Dummy(H))
    OBVIOUS
  <2>2. f \in Seq(Token)
    BY <2>1, DummyAppend
  <2>3. x \in Text /\ t \in Token /\ Scan(x) \in State /\ Scan(f) \in State
    BY <1>0, <2>2, ScanSaid
  <2>4. PICK c \in Token : c = IF IsHole(t) THEN Letter ELSE t
    BY <2>3, Characters
  <2>5. Filled(Append(x, t), Dummy(H)) = f \o <<c>>
    BY <2>1, <2>4, DummyAppend
  <2>6. f \o <<c>> = Append(f, c)
    BY <2>2
  <2>7. Scan(Append(f, c)) = Step(Scan(f), c) /\ Scan(Append(x, t)) = Step(Scan(x), t)
    BY <2>2, <2>3, ScanAppend DEF Text
  <2>8. c = t \/ {c, t} \cap {Quote, Backslash} = {}
    BY <2>4, Characters
  <2>9. Step(Scan(x), t).at = Step(Scan(f), c).at
    BY <1>2, <2>1, <2>3, <2>8, StepAt
  <2>10. Append(x, t) \in Seq(Tokens(H))
    OBVIOUS
  <2>11. Scan(Filled(Append(x, t), Dummy(H))).at = Scan(Append(x, t)).at
    BY <2>5, <2>6, <2>7, <2>9
  <2> QED
    BY <2>10, <2>11
<1> HIDE DEF S
<1>3. Seq(Tokens(H)) \subseteq S
  BY <1>1, <1>2, SeqSetInduction
<1> QED
  BY <1>3 DEF S

\* Without a hole there is nothing to fill.
LEMMA NoHoles ==
  ASSUME NEW H, NEW v \in [H -> Text], NEW text \in Seq(Tokens({}))
  PROVE  Filled(text, v) = text /\ WithValues(text, v) = text
<1> DEFINE S == {x \in Seq(Tokens({})) : Filled(x, v) = x /\ WithValues(x, v) = x}
<1>1. <<>> \in S
  BY FilledEmpty
<1>2. ASSUME NEW x \in Seq(Tokens({})), NEW t \in Tokens({}), x \in S PROVE Append(x, t) \in S
  <2>1. ~IsHole(t) /\ t \in Tokens(H) /\ Tokens({}) \subseteq Tokens(H)
    BY DEF Tokens
  <2>2. x \in Seq(Tokens(H)) /\ x \o <<t>> = Append(x, t)
    BY <2>1
  <2>3. Filled(Append(x, t), v) = x \o <<t>> /\ WithValues(Append(x, t), v) = x \o <<t>>
    BY <1>2, <2>1, <2>2, FilledAppend, PutAppend
  <2> QED
    BY <2>2, <2>3
<1> HIDE DEF S
<1>3. Seq(Tokens({})) \subseteq S
  BY <1>1, <1>2, SeqSetInduction
<1> QED
  BY <1>3 DEF S

-----------------------------------------------------------------------------
(* Numbers with values in them *)

Digits == Seq(Figures)

LEMMA DigitsOfConcat ==
  ASSUME NEW a \in Seq(Token), NEW b \in Seq(Token), a \o b \in Digits
  PROVE  a \in Digits /\ b \in Digits
<1>1. \A i \in 1..(Len(a) + Len(b)) : (a \o b)[i] \in Figures
  BY DEF Digits
<1>2. ASSUME NEW i \in 1..Len(a) PROVE a[i] \in Figures
  <2>1. i \in 1..(Len(a) + Len(b)) /\ (a \o b)[i] = a[i]
    BY ConcatProperties
  <2> QED
    BY <1>1, <2>1
<1>3. ASSUME NEW i \in 1..Len(b) PROVE b[i] \in Figures
  <2>1. Len(a) + i \in 1..(Len(a) + Len(b)) /\ (a \o b)[Len(a) + i] = b[i]
    BY ConcatProperties
  <2> QED
    BY <1>1, <2>1
<1> QED
  BY <1>2, <1>3 DEF Digits

LEMMA EncodedDigits ==
  ASSUME NEW w \in Text, Encoded(w) \in Digits
  PROVE  Encoded(w) = w
<1> DEFINE S == {x \in Text : Encoded(x) \in Digits => Encoded(x) = x}
<1>1. <<>> \in S
  BY EncodedEmpty DEF Text
<1>2. ASSUME NEW x \in Seq(Token), NEW t \in Token, x \in S PROVE Append(x, t) \in S
  <2> SUFFICES ASSUME Encoded(Append(x, t)) \in Digits PROVE Encoded(Append(x, t)) = Append(x, t)
    BY DEF Text
  <2>1. PICK e \in Seq(Token) : e = Encoded(x)
    BY EncodedType DEF Text
  <2>2. Encoded(Append(x, t)) =
          e \o (IF t \in {Quote, Backslash} THEN <<Backslash, t>> ELSE <<t>>)
    BY <2>1, EncodedAppend DEF Text
  <2>3. CASE t \in {Quote, Backslash}
    <3>1. Encoded(Append(x, t)) = e \o <<Backslash, t>>
      BY <2>2, <2>3
    <3>2. <<Backslash, t>> \in Seq(Token)
      BY Characters
    <3>4. <<Backslash, t>> \in Digits
      BY <3>1, <3>2, DigitsOfConcat
    <3>3. <<Backslash, t>>[1] \in Figures
      BY <3>4 DEF Digits
    <3> QED
      BY <3>3, Characters
  <2>4. CASE t \notin {Quote, Backslash}
    <3>1. Encoded(Append(x, t)) = e \o <<t>> /\ <<t>> \in Seq(Token)
      BY <2>2, <2>4
    <3>2. e \in Digits
      BY <3>1, DigitsOfConcat
    <3> QED
      BY <1>2, <2>1, <3>1, <3>2
  <2> QED
    BY <2>3, <2>4
<1> HIDE DEF S
<1>3. Text \subseteq S
  BY <1>1, <1>2, SeqSetInduction DEF Text
<1> QED
  BY <1>3 DEF S

\* What has become a number has the values in it as they are.
LEMMA FilledDigits ==
  ASSUME NEW H, NEW v \in [H -> Text], NEW text \in Seq(Tokens(H)), Filled(text, v) \in Digits
  PROVE  Filled(text, v) = WithValues(text, v)
<1> DEFINE S == {x \in Seq(Tokens(H)) : Filled(x, v) \in Digits => Filled(x, v) = WithValues(x, v)}
<1>1. <<>> \in S
  BY FilledEmpty
<1>2. ASSUME NEW x \in Seq(Tokens(H)), NEW t \in Tokens(H), x \in S PROVE Append(x, t) \in S
  <2> SUFFICES ASSUME Filled(Append(x, t), v) \in Digits
               PROVE  Filled(Append(x, t), v) = WithValues(Append(x, t), v)
    OBVIOUS
  <2>1. PICK f \in Seq(Token) : f = Filled(x, v)
    BY FilledAppend DEF Text
  <2>2. CASE IsHole(t)
    <3>1. PICK w \in Text : w = v[t[2]]
      BY <2>2 DEF Tokens
    <3>2. Encoded(w) \in Seq(Token)
      BY EncodedType DEF Text
    <3>3. Filled(Append(x, t), v) = f \o Encoded(w)
      BY <2>1, <2>2, <3>1, FilledAppend
    <3>4. f \in Digits /\ Encoded(w) \in Digits
      BY <3>2, <3>3, DigitsOfConcat
    <3>5. Encoded(w) = w
      BY <3>4, EncodedDigits
    <3>6. WithValues(Append(x, t), v) = WithValues(x, v) \o w
      BY <2>2, <3>1, PutAppend
    <3> QED
      BY <1>2, <2>1, <3>3, <3>4, <3>5, <3>6
  <2>3. CASE ~IsHole(t)
    <3>1. <<t>> \in Seq(Token)
      BY DEF Tokens
    <3>2. Filled(Append(x, t), v) = f \o <<t>>
      BY <2>1, <2>3, FilledAppend
    <3>3. f \in Digits
      BY <3>1, <3>2, DigitsOfConcat
    <3>4. WithValues(Append(x, t), v) = WithValues(x, v) \o <<t>>
      BY <2>3, PutAppend
    <3> QED
      BY <1>2, <2>1, <3>2, <3>3, <3>4
  <2> QED
    BY <2>2, <2>3
<1> HIDE DEF S
<1>3. Seq(Tokens(H)) \subseteq S
  BY <1>1, <1>2, SeqSetInduction
<1> QED
  BY <1>3 DEF S

\* What is a number with the word in its holes has none.
LEMMA DummyDigits ==
  ASSUME NEW H, NEW text \in Seq(Tokens(H)), Filled(text, Dummy(H)) \in Digits
  PROVE  text \in Seq(Tokens({}))
<1> DEFINE S == {x \in Seq(Tokens(H)) : Filled(x, Dummy(H)) \in Digits => x \in Seq(Tokens({}))}
<1>1. <<>> \in S
  OBVIOUS
<1>2. ASSUME NEW x \in Seq(Tokens(H)), NEW t \in Tokens(H), x \in S PROVE Append(x, t) \in S
  <2> SUFFICES ASSUME Filled(Append(x, t), Dummy(H)) \in Digits
               PROVE  Append(x, t) \in Seq(Tokens({}))
    OBVIOUS
  <2>1. PICK f \in Seq(Token) : f = Filled(x, Dummy(H))
    BY DummyAppend
  <2>2. Filled(Append(x, t), Dummy(H)) = f \o (IF IsHole(t) THEN <<Letter>> ELSE <<t>>)
    BY <2>1, DummyAppend
  <2>3. CASE IsHole(t)
    <3>2. Filled(Append(x, t), Dummy(H)) = f \o <<Letter>> /\ <<Letter>> \in Seq(Token)
      BY <2>2, <2>3, Characters
    <3>3. <<Letter>> \in Digits
      BY <3>2, DigitsOfConcat
    <3>4. <<Letter>>[1] \in Figures
      BY <3>3 DEF Digits
    <3> QED
      BY <3>4, Characters
  <2>4. CASE ~IsHole(t)
    <3>1. <<t>> \in Seq(Token) /\ t \in Tokens({})
      BY <2>4 DEF Tokens
    <3>2. f \in Digits
      BY <2>2, <2>4, <3>1, DigitsOfConcat
    <3> QED
      BY <1>2, <2>1, <3>1, <3>2
  <2> QED
    BY <2>3, <2>4
<1> HIDE DEF S
<1>3. Seq(Tokens(H)) \subseteq S
  BY <1>1, <1>2, SeqSetInduction
<1> QED
  BY <1>3 DEF S

-----------------------------------------------------------------------------
(* Leaves *)

LEMMA NodeType ==
  ASSUME NEW l \in Node
  PROVE  /\ l.kind \in {"null", "map", "leaf"} /\ l.quoted \in BOOLEAN /\ l.text \in Text
         /\ l.kind # "leaf" => l.text = <<>>
<1>1. CASE l \in {NoText("null"), NoText("map")}
  <2>1. l.kind \in {"null", "map"} /\ l.text = <<>>
    BY <1>1 DEF NoText
  <2>2. l.quoted = FALSE
    BY <1>1 DEF NoText
  <2>3. <<>> \in Text
    BY DEF Text
  <2> QED
    BY <2>1, <2>2, <2>3
<1>2. CASE l \in [kind : {"leaf"}, quoted : BOOLEAN, text : Text]
  BY <1>2
<1> QED
  BY <1>1, <1>2 DEF Node

\* A leaf with values in its holes.
WithText(l, v) == [l EXCEPT !.text = Filled(@, v)]

LEMMA WithTextType ==
  ASSUME NEW H, NEW v \in [H -> Text], NEW l \in Node, l.text \in Seq(Tokens(H))
  PROVE  /\ WithText(l, v) \in Node
         /\ WithText(l, v).kind = l.kind /\ WithText(l, v).quoted = l.quoted
         /\ WithText(l, v).text = Filled(l.text, v)
<1>1. CASE l \in {NoText("null"), NoText("map")}
  <2>1. l.text = <<>> /\ Filled(<<>>, v) = <<>>
    BY <1>1, FilledEmpty DEF NoText
  <2>2. WithText(l, v) = l
    BY <1>1, <2>1 DEF NoText, WithText
  <2> QED
    BY <2>1, <2>2
<1>2. CASE l \in [kind : {"leaf"}, quoted : BOOLEAN, text : Text]
  <2>1. Filled(l.text, v) \in Text
    <3>1. CASE l.text = <<>>
      <4>1. Filled(<<>>, v) = <<>> /\ <<>> \in Text
        BY FilledEmpty DEF Text
      <4> QED
        BY <3>1, <4>1
    <3>2. CASE l.text # <<>>
      <4>1. PICK u \in Seq(Tokens(H)), t \in Tokens(H) : l.text = Append(u, t)
        BY <3>2, SequenceEmptyOrAppend
      <4>2. l.text \in Seq(Tokens(H))
        OBVIOUS
      <4> QED
        BY <4>1, <4>2, FilledAppend
    <3> QED
      BY <3>1, <3>2
  <2> QED
    BY <1>2, <2>1 DEF WithText, Node
<1> QED
  BY <1>1, <1>2 DEF Node

LEMMA NumeralDigits ==
  ASSUME NEW text \in Text, Numeral(text)
  PROVE  text \in Digits
<1>1. \A k \in DOMAIN text : text[k] \in Figures
  BY DEF Numeral, Figures
<1> QED
  BY <1>1 DEF Text, Digits

\* What is valid with the word is valid with all values.
LEMMA LeafWorks ==
  ASSUME NEW H, NEW v \in [H -> Text], NEW l \in Node, l.text \in Seq(Tokens(H)),
         ValidLeaf(WithText(l, Dummy(H)))
  PROVE  ValidLeaf(WithText(l, v))
<1>1. PICK d \in [H -> Text] : d = Dummy(H)
  BY DummyType
<1>2. /\ WithText(l, v).quoted = l.quoted /\ WithText(l, d).quoted = l.quoted
      /\ WithText(l, v).text = Filled(l.text, v) /\ WithText(l, d).text = Filled(l.text, d)
      /\ WithText(l, v) \in Node /\ WithText(l, d) \in Node
  BY WithTextType
<1>3. CASE l.quoted
  <2>1. Scan(Filled(l.text, d)).at = "char"
    BY <1>1, <1>2, <1>3 DEF ValidLeaf
  <2>2. Scan(l.text).at = "char"
    BY <1>1, <2>1, ScanDummy
  <2>3. Scan(Filled(l.text, v)).at = "char"
    BY <2>2, ScanFilled
  <2> QED
    BY <1>2, <1>3, <2>3 DEF ValidLeaf
<1>4. CASE ~l.quoted
  <2>1. Numeral(Filled(l.text, d))
    BY <1>1, <1>2, <1>4 DEF ValidLeaf
  <2>2. Filled(l.text, d) \in Text
    BY <1>2, NodeType
  <2>3. Filled(l.text, Dummy(H)) \in Digits
    BY <1>1, <2>1, <2>2, NumeralDigits
  <2>4. l.text \in Seq(Tokens({}))
    BY <2>3, DummyDigits
  <2>5. Filled(l.text, d) = l.text /\ Filled(l.text, v) = l.text
    BY <2>4, NoHoles
  <2> QED
    BY <1>2, <1>4, <2>1, <2>5 DEF ValidLeaf
<1> QED
  BY <1>3, <1>4

\* What is valid says what is meant ...
LEMMA LeafSays ==
  ASSUME NEW H, NEW v \in [H -> Text], NEW l \in Node, l.text \in Seq(Tokens(H)),
         l.kind = "leaf" => ValidLeaf(WithText(l, v))
  PROVE  Says(WithText(l, v), l, v)
<1>1. /\ WithText(l, v).quoted = l.quoted /\ WithText(l, v).kind = l.kind
      /\ WithText(l, v).text = Filled(l.text, v) /\ WithText(l, v) \in Node
  BY WithTextType
<1>2. SUFFICES ASSUME l.kind = "leaf", Means(l)
               PROVE  Read(WithText(l, v)) = Meant(l, v)
  BY <1>1 DEF Says
<1>3. CASE l.quoted
  <2>1. Scan(l.text).at = "char"
    BY <1>2, <1>3 DEF Means
  <2>2. Scan(Filled(l.text, v)).said = WithValues(Scan(l.text).said, v)
    BY <2>1, ScanFilled
  <2> QED
    BY <1>1, <1>3, <2>2 DEF Read, Meant
<1>4. CASE ~l.quoted
  <2>1. Numeral(Filled(l.text, v))
    BY <1>1, <1>2, <1>4 DEF ValidLeaf
  <2>2. Filled(l.text, v) \in Digits
    BY <1>1, <2>1, NodeType, NumeralDigits
  <2>3. Filled(l.text, v) = WithValues(l.text, v)
    BY <2>2, FilledDigits
  <2> QED
    BY <1>1, <1>4, <2>3 DEF Read, Meant
<1> QED
  BY <1>3, <1>4

\* ... and what has no holes says itself.
LEMMA LeafSaysItself ==
  ASSUME NEW v \in [{} -> Text], NEW l \in Node, l.text \in Seq(Tokens({}))
  PROVE  Says(l, l, v)
<1>1. Tokens({}) \subseteq Token
  BY DEF Tokens
<1>2. Scan(l.text).said \in Seq(Tokens({}))
  BY <1>1, ScanSaid
<1>3. Read(l) \in Seq(Tokens({}))
  BY <1>2 DEF Read
<1>4. WithValues(Read(l), v) = Read(l)
  BY <1>3, NoHoles
<1> QED
  BY <1>4 DEF Says, Meant

-----------------------------------------------------------------------------
(* Documents *)

LEMMA DocumentNodes ==
  ASSUME NEW d, IsDocument(d), NEW p \in DOMAIN d
  PROVE  /\ p \in Seq(STRING) /\ d[p] \in Node
         /\ d[p].text \in Seq(Tokens(ExtractPlaceholders(d)))
<1>1. p \in Seq(STRING) /\ d[p] \in Node
  BY DEF IsDocument
<1>2. PICK text : text = d[p].text
  OBVIOUS
<1>3. text \in Seq(Token)
  BY <1>1, <1>2, NodeType DEF Text
<1>4. ASSUME NEW i \in DOMAIN text PROVE text[i] \in Tokens(ExtractPlaceholders(d))
  <2>1. text[i] \in Token
    BY <1>3
  <2>2. IsHole(text[i]) => text[i][2] \in Holes(text)
    BY DEF Holes
  <2>3. Holes(text) \subseteq ExtractPlaceholders(d)
    BY <1>2 DEF ExtractPlaceholders
  <2> QED
    BY <2>1, <2>2, <2>3 DEF Tokens
<1>5. text \in Seq(Tokens(ExtractPlaceholders(d)))
  BY <1>3, <1>4
<1> QED
  BY <1>1, <1>2, <1>5

LEMMA Substituted ==
  ASSUME NEW d, IsDocument(d), NEW v \in [ExtractPlaceholders(d) -> Text]
  PROVE  /\ IsDocument(SubstitutePlaceholders(d, v))
         /\ DOMAIN SubstitutePlaceholders(d, v) = DOMAIN d
         /\ \A p \in DOMAIN d : SubstitutePlaceholders(d, v)[p] = WithText(d[p], v)
<1>1. PICK e : e = SubstitutePlaceholders(d, v)
  OBVIOUS
<1>2. e = [p \in DOMAIN d |-> WithText(d[p], v)]
  BY <1>1 DEF SubstitutePlaceholders, WithText
<1>3. \A p \in DOMAIN d : e[p] \in Node /\ e[p].kind = d[p].kind
  BY <1>2, DocumentNodes, WithTextType
<1>4. IsDocument(e)
  <2>1. /\ DOMAIN d \subseteq Seq(STRING) /\ <<>> \in DOMAIN d
        /\ \A p \in DOMAIN d : \A n \in 0..(Len(p) - 1) :
             SubSeq(p, 1, n) \in DOMAIN d /\ d[SubSeq(p, 1, n)].kind = "map"
    BY DEF IsDocument
  <2>2. DOMAIN e = DOMAIN d
    BY <1>2
  <2>3. e \in [DOMAIN e -> Node]
    BY <1>2, <1>3
  <2>4. \A p \in DOMAIN e : \A n \in 0..(Len(p) - 1) :
          SubSeq(p, 1, n) \in DOMAIN e /\ e[SubSeq(p, 1, n)].kind = "map"
    BY <1>3, <2>1, <2>2
  <2> QED
    BY <2>1, <2>2, <2>3, <2>4 DEF IsDocument
<1> QED
  BY <1>1, <1>2, <1>4

\* Values for other holes change nothing.
LEMMA OnlyUsedMatter ==
  ASSUME NEW d, IsDocument(d), NEW values, values \in [DOMAIN values -> Text],
         ExtractPlaceholders(d) \subseteq DOMAIN values,
         NEW used, used = Restrict(values, ExtractPlaceholders(d) \cap DOMAIN values)
  PROVE  /\ used \in [ExtractPlaceholders(d) -> Text]
         /\ SubstitutePlaceholders(d, values) = SubstitutePlaceholders(d, used)
<1>1. used = [n \in ExtractPlaceholders(d) |-> values[n]]
  <2>1. ExtractPlaceholders(d) \cap DOMAIN values = ExtractPlaceholders(d)
    OBVIOUS
  <2> QED
    BY <2>1 DEF Restrict
<1>2. used \in [ExtractPlaceholders(d) -> Text]
  BY <1>1
<1>3. ASSUME NEW p \in DOMAIN d PROVE Filled(d[p].text, values) = Filled(d[p].text, used)
  <2>1. PICK text : text = d[p].text
    OBVIOUS
  <2>2. ASSUME NEW i \in DOMAIN text, IsHole(text[i]) PROVE values[text[i][2]] = used[text[i][2]]
    <3>1. text[i] \in Tokens(ExtractPlaceholders(d))
      BY <2>1, DocumentNodes
    <3>2. text[i][2] \in ExtractPlaceholders(d)
      BY <2>2, <3>1 DEF Tokens
    <3> QED
      BY <1>1, <3>2
  <2>3. [i \in DOMAIN text |-> IF IsHole(text[i]) THEN Encoded(values[text[i][2]]) ELSE <<text[i]>>]
        = [i \in DOMAIN text |-> IF IsHole(text[i]) THEN Encoded(used[text[i][2]]) ELSE <<text[i]>>]
    BY <2>2
  <2> QED
    BY <2>1, <2>3 DEF Filled
<1>4. SubstitutePlaceholders(d, values) = SubstitutePlaceholders(d, used)
  BY <1>3 DEF SubstitutePlaceholders
<1> QED
  BY <1>2, <1>4

\* What ValidateTemplate accepts works with all values.
THEOREM TemplateWorks ==
  ASSUME NEW d, IsDocument(d), ValidateTemplate(d),
         NEW v \in [ExtractPlaceholders(d) -> Text]
  PROVE  Valid(SubstitutePlaceholders(d, v))
<1>1. PICK w \in [ExtractPlaceholders(d) -> Text] : w = Dummy(ExtractPlaceholders(d))
  BY DummyType
<1>2. Valid(SubstitutePlaceholders(d, w))
  BY <1>1 DEF ValidateTemplate, Dummy
<1>3. SUFFICES ASSUME NEW p \in DOMAIN d, WithText(d[p], v).kind = "leaf"
               PROVE  ValidLeaf(WithText(d[p], v))
  BY Substituted DEF Valid
<1>4. d[p] \in Node /\ d[p].text \in Seq(Tokens(ExtractPlaceholders(d)))
  BY DocumentNodes
<1>5. WithText(d[p], v).kind = d[p].kind /\ WithText(d[p], w).kind = d[p].kind
  BY <1>4, WithTextType
<1>6. ValidLeaf(WithText(d[p], w))
  BY <1>2, <1>3, <1>5, Substituted DEF Valid
<1> QED
  BY <1>1, <1>4, <1>6, LeafWorks

\* What is valid with its values says, everywhere, what template and values mean.
LEMMA TemplateSays ==
  ASSUME NEW d, IsDocument(d), NEW v \in [ExtractPlaceholders(d) -> Text],
         Valid(SubstitutePlaceholders(d, v)), NEW p
  PROVE  Says(At(SubstitutePlaceholders(d, v), p), At(d, p), v)
<1>1. CASE p \in DOMAIN d
  <2>1. d[p] \in Node /\ d[p].text \in Seq(Tokens(ExtractPlaceholders(d)))
    BY <1>1, DocumentNodes
  <2>2. SubstitutePlaceholders(d, v)[p] = WithText(d[p], v)
    BY <1>1, Substituted
  <2>3. d[p].kind = "leaf" => ValidLeaf(WithText(d[p], v))
    BY <1>1, <2>1, <2>2, Substituted, WithTextType DEF Valid
  <2>4. Says(WithText(d[p], v), d[p], v)
    BY <2>1, <2>3, LeafSays
  <2> QED
    BY <1>1, <2>2, <2>4, Substituted DEF At
<1>2. CASE p \notin DOMAIN d
  BY <1>2, Substituted DEF At, Says, NoText
<1> QED
  BY <1>1, <1>2

LEMMA PlainSays ==
  ASSUME NEW d, IsDocument(d), ExtractPlaceholders(d) = {}, NEW v \in [{} -> Text], NEW p
  PROVE  Says(At(d, p), At(d, p), v)
<1>1. CASE p \in DOMAIN d
  <2>1. d[p] \in Node /\ d[p].text \in Seq(Tokens({}))
    BY <1>1, DocumentNodes
  <2>2. Says(d[p], d[p], v)
    BY <2>1, LeafSaysItself
  <2> QED
    BY <1>1, <2>2 DEF At
<1>2. CASE p \notin DOMAIN d
  BY <1>2 DEF At, Says, NoText
<1> QED
  BY <1>1, <1>2

-----------------------------------------------------------------------------
(* Documents that are merged *)

Key(p, n) == SubSeq(p, 1, n)

LEMMA KeyOf ==
  ASSUME NEW p \in Seq(STRING), NEW n \in 0..Len(p)
  PROVE  Key(p, n) \in Seq(STRING) /\ Key(p, Len(p)) = p /\ Key(p, 0) = <<>>
<1>1. \A i \in 1..n : p[i] \in STRING
  OBVIOUS
<1>2. Key(p, n) \in Seq(STRING)
  BY DEF Key
<1>3. Key(p, Len(p)) = p
  BY SubSeqFull DEF Key
<1>4. Key(p, 0) = <<>>
  BY DEF Key
<1> QED
  BY <1>2, <1>3, <1>4

LEMMA KeyOfKey ==
  ASSUME NEW p \in Seq(STRING), NEW n \in 0..Len(p), NEW m \in 0..n
  PROVE  Key(Key(p, n), m) = Key(p, m) /\ Len(Key(p, n)) = n
<1>1. Len(Key(p, n)) = n
  BY DEF Key
<1>2. CASE m = 0
  BY <1>1, <1>2, KeyOf DEF Key
<1>3. CASE m # 0
  <2>1. n \in 1..Len(p) /\ 1 \in 1..Len(p) /\ 1 \in 1..(n - 1 + 1) /\ m \in 1..(n - 1 + 1)
    BY <1>3
  <2>2. SubSeq(SubSeq(p, 1, n), 1, m) = SubSeq(p, 1 + 1 - 1, 1 + m - 1)
    BY <2>1, SubSeqOfSubSeq
  <2>3. 1 + 1 - 1 = 1 /\ 1 + m - 1 = m
    OBVIOUS
  <2> QED
    BY <1>1, <2>2, <2>3 DEF Key
<1> QED
  BY <1>1, <1>2, <1>3

\* What lies above a path of a document is in it, and a map.
LEMMA Above ==
  ASSUME NEW d, IsDocument(d), NEW p \in Seq(STRING), NEW n \in 0..Len(p),
         Key(p, n) \in DOMAIN d, NEW m \in 0..n
  PROVE  Key(p, m) \in DOMAIN d /\ (m < n => d[Key(p, m)].kind = "map")
<1>1. CASE m = n
  BY <1>1
<1>2. CASE m # n
  <2>1. PICK q \in Seq(STRING) : q = Key(p, n)
    BY KeyOf
  <2>2. Len(q) = n /\ Key(q, m) = Key(p, m)
    BY <2>1, KeyOfKey
  <2>3. m \in 0..(Len(q) - 1)
    BY <1>2, <2>2
  <2>4. Key(q, m) \in DOMAIN d /\ d[Key(q, m)].kind = "map"
    BY <2>1, <2>3 DEF IsDocument, Key
  <2> QED
    BY <2>2, <2>4
<1> QED
  BY <1>1, <1>2

BothMaps(b, o, k) == IsMapAt(b, k) /\ IsMapAt(o, k)

\* Where deepMerge ends its descent.
Ends(b, o, p) == {n \in 1..Len(p) : ~BothMaps(b, o, Key(p, n))}

LEMMA TakenCases ==
  ASSUME NEW b, NEW o, NEW p \in Seq(STRING)
  PROVE  \/ /\ \A n \in 1..Len(p) : BothMaps(b, o, Key(p, n))
            /\ Taken(b, o, p) = o
         \/ \E n \in 1..Len(p) :
              /\ ~BothMaps(b, o, Key(p, n))
              /\ \A m \in 1..Len(p) : m < n => BothMaps(b, o, Key(p, m))
              /\ Key(p, n) \in DOMAIN o => Taken(b, o, p) = o
              /\ Key(p, n) \notin DOMAIN o => Taken(b, o, p) = b
<1>1. PICK ends : ends = Ends(b, o, p)
  OBVIOUS
<1>2. Taken(b, o, p) = IF ends = {} \/ Key(p, Min(ends)) \in DOMAIN o THEN o ELSE b
  BY <1>1, Zenon DEF Taken, Ends, Key, BothMaps
<1>3. CASE ends = {}
  BY <1>1, <1>2, <1>3 DEF Ends
<1>4. CASE ends # {}
  <2>1. ends \subseteq Nat
    BY <1>1 DEF Ends
  <2>2. \E x \in ends : \A y \in ends : x <= y
    BY <1>4, <2>1, Least
  <2>3. PICK n : n = Min(ends)
    OBVIOUS
  <2>4. n \in ends /\ \A y \in ends : n <= y
    BY <2>2, <2>3, Zenon DEF Min
  <2>5. n \in 1..Len(p) /\ ~BothMaps(b, o, Key(p, n))
    BY <1>1, <2>4 DEF Ends
  <2>6. ASSUME NEW m \in 1..Len(p), m < n PROVE BothMaps(b, o, Key(p, m))
    <3>1. m \notin ends
      BY <2>4, <2>5, <2>6
    <3> QED
      BY <1>1, <3>1 DEF Ends
  <2>7. /\ Key(p, n) \in DOMAIN o => Taken(b, o, p) = o
        /\ Key(p, n) \notin DOMAIN o => Taken(b, o, p) = b
    BY <1>2, <1>4, <2>3
  <2> QED
    BY <2>5, <2>6, <2>7
<1> QED
  BY <1>3, <1>4

LEMMA TakenIsOne ==
  ASSUME NEW b, NEW o, NEW p PROVE Taken(b, o, p) = b \/ Taken(b, o, p) = o
  BY Zenon DEF Taken

LEMMA MergeIsTaken ==
  ASSUME NEW b, NEW o, NEW p
  PROVE  At(DeepMerge(b, o), p) = At(Taken(b, o, p), p)
<1>1. PICK t : t = Taken(b, o, p)
  OBVIOUS
<1>2. p \in DOMAIN t => p \in DOMAIN b \cup DOMAIN o
  BY <1>1, TakenIsOne
<1>3. p \in DOMAIN DeepMerge(b, o) <=> p \in DOMAIN t
  BY <1>1, <1>2 DEF DeepMerge
<1>4. p \in DOMAIN t => DeepMerge(b, o)[p] = t[p]
  BY <1>1, <1>3 DEF DeepMerge
<1> QED
  BY <1>1, <1>3, <1>4 DEF At

\* The override wins where it says something ...
LEMMA OverrideWins ==
  ASSUME NEW b, NEW o, IsDocument(o), NEW p \in DOMAIN o
  PROVE  At(DeepMerge(b, o), p) = o[p]
<1>1. p \in Seq(STRING)
  BY DEF IsDocument
<1>2. Key(p, Len(p)) \in DOMAIN o
  BY <1>1, KeyOf
<1>3. \A n \in 1..Len(p) : Key(p, n) \in DOMAIN o
  BY <1>1, <1>2, Above
<1>4. Taken(b, o, p) = o
  BY <1>1, <1>3, TakenCases
<1> QED
  BY <1>4, MergeIsTaken DEF At

Hidden(o, p) == \E n \in 0..(Len(p) - 1) : At(o, Key(p, n)).kind \in {"leaf", "null"}

\* ... nothing is left below what it puts there that is no map ...
LEMMA NothingBelow ==
  ASSUME NEW b, NEW o, IsDocument(o), o[<<>>].kind = "map",
         NEW p \in Seq(STRING), p \notin DOMAIN o, Hidden(o, p)
  PROVE  At(DeepMerge(b, o), p) = NoText("absent")
<1>1. PICK n \in 0..(Len(p) - 1) : At(o, Key(p, n)).kind \in {"leaf", "null"}
  BY DEF Hidden
<1>2. Key(p, n) \in DOMAIN o /\ o[Key(p, n)].kind # "map"
  BY <1>1 DEF At, NoText
<1>3. n \in 1..Len(p)
  BY <1>2, KeyOf
<1>4. ~BothMaps(b, o, Key(p, n))
  BY <1>2 DEF BothMaps, IsMapAt, At
<1>5. \A m \in 0..n : Key(p, m) \in DOMAIN o
  BY <1>2, <1>3, Above
<1>6. Taken(b, o, p) = o
  <2>1. PICK m \in 1..Len(p) :
          /\ \A i \in 1..Len(p) : i < m => BothMaps(b, o, Key(p, i))
          /\ Key(p, m) \in DOMAIN o => Taken(b, o, p) = o
    BY <1>3, <1>4, TakenCases
  <2>2. m \in 0..n
    BY <1>3, <1>4, <2>1
  <2> QED
    BY <1>5, <2>1, <2>2
<1> QED
  BY <1>6, MergeIsTaken DEF At

\* ... and the base stays everywhere else.
LEMMA BaseStays ==
  ASSUME NEW b, IsDocument(b), NEW o, IsDocument(o),
         NEW p \in Seq(STRING), p \notin DOMAIN o, ~Hidden(o, p)
  PROVE  At(DeepMerge(b, o), p) = At(b, p)
<1>1. p # <<>> /\ Len(p) \in 1..Len(p)
  BY DEF IsDocument
<1>2. ~BothMaps(b, o, Key(p, Len(p)))
  BY KeyOf DEF BothMaps, IsMapAt, At, NoText
<1>3. PICK n \in 1..Len(p) :
        /\ ~BothMaps(b, o, Key(p, n))
        /\ Key(p, n) \in DOMAIN o => Taken(b, o, p) = o
        /\ Key(p, n) \notin DOMAIN o => Taken(b, o, p) = b
  BY <1>1, <1>2, TakenCases
<1>4. CASE Key(p, n) \notin DOMAIN o
  BY <1>3, <1>4, MergeIsTaken
<1>5. CASE Key(p, n) \in DOMAIN o
  <2>1. n < Len(p)
    BY <1>5, KeyOf
  <2>2. o[Key(p, n)].kind = "map"
    <3>1. At(o, Key(p, n)).kind \notin {"leaf", "null"}
      BY <2>1 DEF Hidden
    <3>2. o[Key(p, n)] \in Node
      BY <1>5 DEF IsDocument
    <3>3. o[Key(p, n)].kind \in {"leaf", "null", "map"}
      BY <3>2 DEF Node, NoText
    <3> QED
      BY <1>5, <3>1, <3>3 DEF At
  <2>3. ~IsMapAt(b, Key(p, n))
    BY <1>3, <1>5, <2>2 DEF BothMaps, IsMapAt, At
  <2>4. p \notin DOMAIN b
    <3> SUFFICES ASSUME p \in DOMAIN b PROVE FALSE
      OBVIOUS
    <3>1. Key(p, Len(p)) \in DOMAIN b
      BY KeyOf
    <3>2. Key(p, n) \in DOMAIN b /\ b[Key(p, n)].kind = "map"
      BY <2>1, <3>1, Above
    <3> QED
      BY <2>3, <3>2 DEF IsMapAt, At
  <2> QED
    BY <1>3, <1>5, <2>4, MergeIsTaken DEF At
<1> QED
  BY <1>4, <1>5

LEMMA MergeValid ==
  ASSUME NEW b, NEW o, IsDocument(b), IsDocument(o), Valid(b), Valid(o)
  PROVE  Valid(DeepMerge(b, o)) /\ DOMAIN DeepMerge(b, o) \subseteq Seq(STRING)
<1>1. DOMAIN DeepMerge(b, o) \subseteq DOMAIN b \cup DOMAIN o
  BY DEF DeepMerge
<1>2. ASSUME NEW p \in DOMAIN DeepMerge(b, o)
      PROVE  \/ p \in DOMAIN b /\ DeepMerge(b, o)[p] = b[p]
             \/ p \in DOMAIN o /\ DeepMerge(b, o)[p] = o[p]
  BY <1>2, TakenIsOne DEF DeepMerge
<1>3. Valid(DeepMerge(b, o))
  BY <1>2 DEF Valid
<1> QED
  BY <1>1, <1>3 DEF IsDocument

-----------------------------------------------------------------------------
(* What a handler makes of its inputs *)

FilledIn(T, values) ==
  IF ExtractPlaceholders(T) = {} THEN T ELSE SubstitutePlaceholders(T, values)

UsedOf(T, values) == Restrict(values, ExtractPlaceholders(T) \cap DOMAIN values)

LEMMA ComposedCases ==
  ASSUME NEW way, NEW T, NEW values, NEW override,
         NEW c, c = Composed(way, T, values, override),
         NEW filled, filled = FilledIn(T, values)
  PROVE  /\ c.outcome \in Outcomes
         /\ c.outcome \in {"created", "invalid"} =>
              ExtractPlaceholders(T) \subseteq DOMAIN values
         /\ c.outcome = "invalid" => ExtractPlaceholders(T) # {} /\ ~Valid(filled)
         /\ c.outcome = "created" =>
              /\ ExtractPlaceholders(T) = {} \/ Valid(filled)
              /\ override = NoOverride => c.config = filled
              /\ override # NoOverride =>
                   /\ Unmarshals(filled) /\ Unmarshals(override)
                   /\ ~Panics(filled, override)
                   /\ c.config = MergeJSON(filled, override)
<1>1. PICK holes : holes = ExtractPlaceholders(T)
  OBVIOUS
<1>2. Given(way, values) \subseteq DOMAIN values
  BY DEF Given
<1>3. CASE ~(holes \subseteq Given(way, values))
  <2>1. c = [outcome |-> "missing", config |-> Null]
    BY <1>1, <1>3 DEF Composed
  <2> QED
    BY <2>1 DEF Outcomes
<1>4. CASE holes \subseteq Given(way, values)
  <2>1. CASE holes # {} /\ ~Valid(filled)
    <3>1. c = [outcome |-> "invalid", config |-> Null]
      BY <1>1, <1>4, <2>1, Zenon DEF Composed, FilledIn, Works
    <3> QED
      BY <1>1, <1>2, <1>4, <2>1, <3>1 DEF Outcomes
  <2>2. CASE (holes = {} \/ Valid(filled)) /\ override = NoOverride
    <3>1. c = [outcome |-> "created", config |-> filled]
      BY <1>1, <1>4, <2>2 DEF Composed, FilledIn, Works
    <3> QED
      BY <1>1, <1>2, <1>4, <2>2, <3>1 DEF Outcomes
  <2>3. CASE (holes = {} \/ Valid(filled)) /\ override # NoOverride
    <3>1. CASE ~(Unmarshals(filled) /\ Unmarshals(override))
      <4>1. c = [outcome |-> "unmergeable", config |-> Null]
        BY <1>1, <1>4, <2>3, <3>1 DEF Composed, FilledIn, Works
      <4> QED
        BY <4>1 DEF Outcomes
    <3>2. CASE Unmarshals(filled) /\ Unmarshals(override) /\ Panics(filled, override)
      <4>1. c = [outcome |-> "panic", config |-> Null]
        BY <1>1, <1>4, <2>3, <3>2 DEF Composed, FilledIn, Works
      <4> QED
        BY <4>1 DEF Outcomes
    <3>3. CASE Unmarshals(filled) /\ Unmarshals(override) /\ ~Panics(filled, override)
      <4>1. c = [outcome |-> "created", config |-> MergeJSON(filled, override)]
        BY <1>1, <1>4, <2>3, <3>3 DEF Composed, FilledIn, Works
      <4> QED
        BY <1>1, <1>2, <1>4, <2>3, <3>3, <4>1 DEF Outcomes
    <3> QED
      BY <3>1, <3>2, <3>3
  <2> QED
    BY <2>1, <2>2, <2>3
<1> QED
  BY <1>3, <1>4

\* What was substituted says what is meant, and what a user gave besides does not
\* matter.
LEMMA FilledSays ==
  ASSUME NEW T, IsDocument(T), NEW values, values \in [DOMAIN values -> Text],
         ExtractPlaceholders(T) \subseteq DOMAIN values,
         NEW filled, filled = FilledIn(T, values),
         ExtractPlaceholders(T) = {} \/ Valid(filled)
  PROVE  /\ IsDocument(filled)
         /\ \A p : Says(At(filled, p), At(T, p), UsedOf(T, values))
<1>1. PICK used : used = UsedOf(T, values)
  OBVIOUS
<1>2. /\ used \in [ExtractPlaceholders(T) -> Text]
      /\ SubstitutePlaceholders(T, values) = SubstitutePlaceholders(T, used)
  BY <1>1, OnlyUsedMatter DEF UsedOf
<1>3. CASE ExtractPlaceholders(T) = {}
  <2>1. filled = T /\ used \in [{} -> Text]
    BY <1>2, <1>3 DEF FilledIn
  <2> QED
    BY <1>1, <1>3, <2>1, PlainSays
<1>4. CASE ExtractPlaceholders(T) # {}
  <2>1. filled = SubstitutePlaceholders(T, used) /\ Valid(SubstitutePlaceholders(T, used))
    BY <1>2, <1>4 DEF FilledIn
  <2> QED
    BY <1>1, <1>2, <2>1, Substituted, TemplateSays
<1> QED
  BY <1>3, <1>4

\* A template that was accepted works.
LEMMA AcceptedWorks ==
  ASSUME NEW T, IsDocument(T), Accepted(T), NEW values, values \in [DOMAIN values -> Text],
         ExtractPlaceholders(T) \subseteq DOMAIN values
  PROVE  Valid(FilledIn(T, values))
<1>1. PICK used : used = UsedOf(T, values)
  OBVIOUS
<1>2. /\ used \in [ExtractPlaceholders(T) -> Text]
      /\ SubstitutePlaceholders(T, values) = SubstitutePlaceholders(T, used)
  BY <1>1, OnlyUsedMatter DEF UsedOf
<1>3. CASE ExtractPlaceholders(T) = {}
  BY <1>3 DEF Accepted, FilledIn
<1>4. CASE ExtractPlaceholders(T) # {}
  <2>1. Valid(SubstitutePlaceholders(T, used))
    BY <1>2, <1>4, TemplateWorks DEF Accepted
  <2> QED
    BY <1>2, <1>4, <2>1 DEF FilledIn
<1> QED
  BY <1>3, <1>4

-----------------------------------------------------------------------------
(* Promises, path by path *)

LEMMA KindOf ==
  ASSUME NEW d, IsDocument(d), NEW p
  PROVE  /\ p \in DOMAIN d => At(d, p) = d[p] /\ At(d, p).kind \in {"leaf", "null", "map"}
         /\ p \notin DOMAIN d => At(d, p).kind = "absent"
<1>1. p \in DOMAIN d => d[p].kind \in {"leaf", "null", "map"}
  <2>1. p \in DOMAIN d => d[p] \in Node
    BY DEF IsDocument
  <2> QED
    BY <2>1 DEF Node, NoText
<1> QED
  BY <1>1 DEF At, NoText

LEMMA PromisedCases ==
  ASSUME NEW x, NEW p, NEW w, w = At(Over(x), p),
         w.kind \in {"leaf", "null", "map", "absent"},
         w.kind \in {"leaf", "null"} => At(x.config, p) = w,
         w.kind = "map" => At(x.config, p).kind = "map" \/ DOMAIN Over(x) = {<<>>},
         w.kind = "absent" /\ Hidden(Over(x), p) => At(x.config, p).kind = "absent",
         w.kind = "absent" /\ ~Hidden(Over(x), p)
           => Says(At(x.config, p), At(x.base["gateway"], p), x.values)
  PROVE  Promised(x, p)
<1>1. CASE w.kind \in {"leaf", "null"}
  BY <1>1 DEF Promised
<1>2. CASE w.kind = "map"
  BY <1>2 DEF Promised
<1>3. CASE w.kind = "absent"
  BY <1>3 DEF Promised, Hidden, Key
<1> QED
  BY <1>1, <1>2, <1>3

\* The template says it all when there is no override, or none that says anything.
LEMMA PlainPromise ==
  ASSUME NEW x, NEW p,
         Says(At(x.config, p), At(x.base["gateway"], p), x.values),
         \/ Over(x) = <<>>
         \/ /\ DOMAIN Over(x) = {<<>>} /\ IsDocument(Over(x))
            /\ Over(x)[<<>>].kind = "map"
  PROVE  Promised(x, p)
<1>1. CASE Over(x) = <<>>
  <2>1. \A q : At(Over(x), q).kind = "absent"
    BY <1>1 DEF At, NoText
  <2>2. ~Hidden(Over(x), p)
    BY <2>1 DEF Hidden
  <2> QED
    BY <2>1, <2>2, PromisedCases
<1>2. CASE /\ DOMAIN Over(x) = {<<>>} /\ IsDocument(Over(x))
           /\ Over(x)[<<>>].kind = "map"
  <2>1. \A q : At(Over(x), q).kind \in {"map", "absent"}
    BY <1>2 DEF At, NoText
  <2>2. ~Hidden(Over(x), p)
    BY <2>1 DEF Hidden
  <2> QED
    BY <1>2, <2>1, <2>2, PromisedCases
<1> QED
  BY <1>1, <1>2

LEMMA MergedPromise ==
  ASSUME NEW x, NEW p \in Seq(STRING), NEW filled, NEW o,
         IsDocument(filled), IsDocument(o), o[<<>>].kind = "map",
         Over(x) = o, x.config = DeepMerge(filled, o),
         Says(At(filled, p), At(x.base["gateway"], p), x.values)
  PROVE  Promised(x, p)
<1>1. CASE p \in DOMAIN o
  <2>1. At(x.config, p) = At(o, p) /\ At(o, p).kind \in {"leaf", "null", "map"}
    BY <1>1, OverrideWins, KindOf
  <2> QED
    BY <2>1, PromisedCases
<1>2. CASE p \notin DOMAIN o
  <2>1. At(o, p).kind = "absent"
    BY <1>2, KindOf
  <2>2. Hidden(o, p) => At(x.config, p).kind = "absent"
    BY <1>2, NothingBelow DEF NoText
  <2>3. ~Hidden(o, p) => At(x.config, p) = At(filled, p)
    BY <1>2, BaseStays
  <2> QED
    BY <2>1, <2>2, <2>3, PromisedCases
<1> QED
  BY <1>1, <1>2

-----------------------------------------------------------------------------
(* How a line is read *)

LEMMA CutType == ASSUME NEW u \in Text PROVE Cut(u) \in Text
<1>1. PICK ends : ends = {i \in DOMAIN u : u[i] \in {Blank, Blanks}}
  OBVIOUS
<1>2. Cut(u) = IF ends = {} THEN u ELSE SubSeq(u, 1, Min(ends) - 1)
  BY <1>1 DEF Cut
<1>3. CASE ends = {}
  BY <1>2, <1>3
<1>4. CASE ends # {}
  <2>1. u \in Seq(Token) /\ ends \subseteq 1..Len(u)
    BY <1>1 DEF Text
  <2>2. ends \subseteq Nat
    BY <2>1
  <2>3. \E x \in ends : \A y \in ends : x <= y
    BY <1>4, <2>2, Least
  <2>4. PICK n : n = Min(ends)
    OBVIOUS
  <2>5. n \in ends
    BY <2>3, <2>4, Zenon DEF Min
  <2>6. n \in 1..Len(u)
    BY <2>1, <2>5
  <2>7. SubSeq(u, 1, n - 1) \in Seq(Token)
    BY <2>1, <2>6, SubSeqProperties
  <2> QED
    BY <1>2, <1>4, <2>4, <2>7 DEF Text
<1> QED
  BY <1>3, <1>4

LEMMA SqueezedText ==
  ASSUME NEW u \in Text
  PROVE  [i \in DOMAIN u |-> IF u[i] = Blanks THEN Blank ELSE u[i]] \in Text
  BY Characters DEF Text

LEMMA SqueezedDocument ==
  ASSUME NEW d, IsDocument(d)
  PROVE  IsDocument(Squeezed(d))
<1> DEFINE s(p) == [d[p] EXCEPT !.text =
                     [i \in DOMAIN @ |-> IF @[i] = Blanks THEN Blank ELSE @[i]]]
<1>1. ASSUME NEW p \in DOMAIN d PROVE s(p) \in Node /\ s(p).kind = d[p].kind
  <2>1. PICK l \in Node : l = d[p]
    BY DEF IsDocument
  <2>2. l.text \in Text
    BY NodeType
  <2>3. PICK t \in Text : t = [i \in DOMAIN l.text |-> IF l.text[i] = Blanks THEN Blank ELSE l.text[i]]
    BY <2>2, SqueezedText
  <2>4. s(p) = [l EXCEPT !.text = t]
    BY <2>1, <2>3
  <2>5. CASE l \in {NoText("null"), NoText("map")}
    <3>1. l.text = <<>> /\ t = <<>>
      BY <2>3, <2>5 DEF NoText
    <3>2. [l EXCEPT !.text = t] = l
      BY <2>5, <3>1 DEF NoText
    <3> QED
      BY <2>1, <2>4, <3>2
  <2>6. CASE l \in [kind : {"leaf"}, quoted : BOOLEAN, text : Text]
    <3>1. [l EXCEPT !.text = t] \in [kind : {"leaf"}, quoted : BOOLEAN, text : Text]
      BY <2>6
    <3>2. [l EXCEPT !.text = t].kind = l.kind
      BY <2>6
    <3> QED
      BY <2>1, <2>4, <3>1, <3>2 DEF Node
  <2> QED
    BY <2>5, <2>6 DEF Node
<1>2. Squeezed(d) = [p \in DOMAIN d |-> s(p)]
  BY DEF Squeezed
<1> HIDE DEF s
<1>3. DOMAIN Squeezed(d) = DOMAIN d /\ \A p \in DOMAIN d : Squeezed(d)[p] = s(p)
  BY <1>2
<1>4. Squeezed(d) \in [DOMAIN d -> Node]
  BY <1>1, <1>2
<1>5. \A p \in DOMAIN d : \A n \in 0..(Len(p) - 1) :
        SubSeq(p, 1, n) \in DOMAIN d /\ Squeezed(d)[SubSeq(p, 1, n)].kind = "map"
  BY <1>1, <1>3 DEF IsDocument
<1> QED
  BY <1>3, <1>4, <1>5 DEF IsDocument

LEMMA GarbageDocument == IsDocument(Garbage)
<1>1. DOMAIN Garbage = {<<>>} /\ Garbage[<<>>] = [kind |-> "leaf", quoted |-> FALSE, text |-> <<Letter>>]
  BY DEF Garbage, Leaf
<1>2. <<Letter>> \in Text
  BY Characters DEF Text
<1>3. Garbage[<<>>] \in Node
  BY <1>1, <1>2 DEF Node
<1>4. Garbage \in [DOMAIN Garbage -> Node]
  BY <1>1, <1>3 DEF Garbage, Leaf
<1>5. \A p \in DOMAIN Garbage : 0..(Len(p) - 1) = {}
  BY <1>1
<1> QED
  BY <1>1, <1>4, <1>5 DEF IsDocument

LEMMA ValuesReadType ==
  ASSUME NEW way, NEW values \in Fillings
  PROVE  /\ DOMAIN ValuesRead(way, values) = DOMAIN values
         /\ ValuesRead(way, values) \in [DOMAIN values -> Text]
         /\ \A n \in DOMAIN values :
              ValuesRead(way, values)[n] = IF way \in FromSlack THEN Cut(values[n]) ELSE values[n]
<1>1. values \in [DOMAIN values -> Text]
  BY InputsAssumption
<1>2. \A n \in DOMAIN values : Cut(values[n]) \in Text
  BY <1>1, CutType
<1> QED
  BY <1>1, <1>2 DEF ValuesRead

\* What is read is an override, or none; and it is what was typed when the line can
\* be understood.
LEMMA OverrideReadCases ==
  ASSUME NEW way \in Ways, NEW override \in Overrides \cup {NoOverride},
         NEW read \in OverridesRead(way, override)
  PROVE  /\ read = NoOverride \/ IsDocument(read)
         /\ \/ read = override
            \/ override # NoOverride /\ way \in {"json", "bare"} /\ read = Squeezed(override)
            \/ override # NoOverride /\ way = "bare" /\ ~IsMapAt(override, <<>>)
            \/ override # NoOverride /\ way = "early"
<1>1. CASE override = NoOverride
  BY <1>1 DEF OverridesRead
<1>2. CASE override # NoOverride
  <2>1. IsDocument(override) /\ IsDocument(Squeezed(override))
    BY <1>2, InputsAssumption, SqueezedDocument
  <2>2. CASE way \in {"api", "page"}
    BY <1>2, <2>1, <2>2 DEF OverridesRead
  <2>3. CASE way = "json"
    BY <1>2, <2>1, <2>3 DEF OverridesRead
  <2>4. CASE way = "bare"
    BY <1>2, <2>1, <2>4 DEF OverridesRead
  <2>5. CASE way = "early"
    BY <1>2, <2>5, GarbageDocument DEF OverridesRead
  <2> QED
    BY <2>2, <2>3, <2>4, <2>5 DEF Ways, FromSlack
<1> QED
  BY <1>1, <1>2

\* An understood line is read as it was typed.
LEMMA UnderstoodAsTyped ==
  ASSUME NEW way \in Ways, NEW values \in Fillings, NEW T,
         NEW override \in Overrides \cup {NoOverride},
         NEW read \in OverridesRead(way, override),
         NEW x, x.way = way, x.values = UsedOf(T, values), x.override = override,
         Understood(x)
  PROVE  read = override /\ UsedOf(T, ValuesRead(way, values)) = UsedOf(T, values)
<1>1. way \in FromSlack =>
        /\ \A n \in DOMAIN UsedOf(T, values) :
             Cut(UsedOf(T, values)[n]) = UsedOf(T, values)[n]
        /\ override # NoOverride =>
             /\ way = "json" \/ (way = "bare" /\ IsMapAt(override, <<>>))
             /\ Squeezed(override) = override
  BY DEF Understood
<1>2. {"json", "bare", "early"} \subseteq FromSlack
  BY DEF FromSlack
<1>3. read = override
  BY <1>1, <1>2, OverrideReadCases
<1>4. PICK names : names = ExtractPlaceholders(T) \cap DOMAIN values
  OBVIOUS
<1>5. /\ UsedOf(T, values) = [n \in names |-> values[n]]
      /\ UsedOf(T, ValuesRead(way, values)) = [n \in names |-> ValuesRead(way, values)[n]]
  BY <1>4, ValuesReadType DEF UsedOf, Restrict
<1>6. \A n \in names : ValuesRead(way, values)[n] = values[n]
  BY <1>1, <1>4, <1>5, ValuesReadType
<1> QED
  BY <1>3, <1>5, <1>6

-----------------------------------------------------------------------------
(* A creation *)

IsJson(T, base, config) ==
  Valid(config) \/ (base \notin Acceptable /\ ExtractPlaceholders(T) = {} /\ config = T)

OrderInv(x) ==
  /\ x.outcome \in Outcomes
  /\ x.base \in Rows \cup {NoRow}
  /\ x.way \in Ways
  /\ x.override \in Overrides \cup {NoOverride}
  /\ x.outcome = "created" /\ Understood(x) => \A p \in Paths(x) : Promised(x, p)
  /\ x.outcome = "invalid" => x.base \notin Acceptable
  /\ x.outcome = "created" => IsJson(x.base["gateway"], x.base, x.config)

\* What is made of values and an override is JSON ...
LEMMA CreatedValid ==
  ASSUME NEW way, NEW base \in Rows, NEW T, T = base["gateway"], IsDocument(T),
         NEW values, values \in [DOMAIN values -> Text],
         NEW override, override = NoOverride \/ IsDocument(override),
         NEW c, c = Composed(way, T, values, override), c.outcome = "created"
  PROVE  IsJson(T, base, c.config)
<1>1. PICK filled : filled = FilledIn(T, values)
  OBVIOUS
<1>2. /\ ExtractPlaceholders(T) \subseteq DOMAIN values
      /\ ExtractPlaceholders(T) = {} \/ Valid(filled)
      /\ override = NoOverride => c.config = filled
      /\ override # NoOverride => /\ Unmarshals(filled) /\ Unmarshals(override)
                                  /\ c.config = MergeJSON(filled, override)
  BY <1>1, ComposedCases
<1>3. CASE override = NoOverride
  <2>1. ExtractPlaceholders(T) = {} => filled = T
    BY <1>1 DEF FilledIn
  <2>2. base \in Acceptable => Valid(filled)
    BY <1>1, <1>2, TemplatesAssumption, AcceptedWorks
  <2> QED
    BY <1>2, <1>3, <2>1, <2>2 DEF IsJson
<1>4. CASE override # NoOverride
  <2>1. IsDocument(override) /\ Valid(filled) /\ Valid(override)
    BY <1>2, <1>4 DEF Unmarshals
  <2>2. IsDocument(filled)
    BY <1>1, <1>2, FilledSays
  <2>3. Valid(DeepMerge(filled, override))
    BY <2>1, <2>2, MergeValid
  <2>4. Valid(c.config)
    BY <1>2, <1>4, <2>1, <2>3 DEF MergeJSON
  <2> QED
    BY <2>4 DEF IsJson
<1> QED
  BY <1>3, <1>4

\* ... and says at every path what it should, of the values and the override as they
\* were read.
LEMMA CreatedPromise ==
  ASSUME NEW way, NEW base \in Rows, NEW T, T = base["gateway"], IsDocument(T),
         NEW values, values \in [DOMAIN values -> Text],
         NEW override, override = NoOverride \/ IsDocument(override),
         NEW c, c = Composed(way, T, values, override), c.outcome = "created",
         NEW x, x.base = base, x.values = UsedOf(T, values), x.override = override,
         x.config = c.config
  PROVE  \A p \in Paths(x) : Promised(x, p)
<1>1. PICK filled : filled = FilledIn(T, values)
  OBVIOUS
<1>2. /\ ExtractPlaceholders(T) \subseteq DOMAIN values
      /\ ExtractPlaceholders(T) = {} \/ Valid(filled)
      /\ override = NoOverride => c.config = filled
      /\ override # NoOverride => /\ Unmarshals(filled) /\ Unmarshals(override)
                                  /\ ~Panics(filled, override)
                                  /\ c.config = MergeJSON(filled, override)
  BY <1>1, ComposedCases
<1>3. IsDocument(filled) /\ \A p : Says(At(filled, p), At(T, p), UsedOf(T, values))
  BY <1>1, <1>2, FilledSays
<1>4. DOMAIN T \subseteq Seq(STRING) /\ DOMAIN filled \subseteq Seq(STRING)
  BY <1>3 DEF IsDocument
<1>5. CASE override = NoOverride
  <2>1. x.config = filled /\ Over(x) = <<>>
    BY <1>2, <1>5 DEF Over
  <2>2. \A p : Promised(x, p)
    BY <1>3, <2>1, PlainPromise
  <2> QED
    BY <2>2
<1>6. CASE override # NoOverride
  <2>1. /\ Unmarshals(filled) /\ Unmarshals(override) /\ ~Panics(filled, override)
        /\ x.config = MergeJSON(filled, override)
    BY <1>2, <1>6
  <2>2. IsDocument(override) /\ Valid(filled) /\ Valid(override)
    BY <1>6, <2>1 DEF Unmarshals
  <2>3. CASE IsNull(override)
    <3>1. x.config = filled /\ Over(x) = <<>>
      BY <2>1, <2>3 DEF Over, MergeJSON
    <3> QED
      BY <1>3, <2>2, <3>1, PlainPromise
  <2>4. CASE ~IsNull(override)
    <3>1. Over(x) = override /\ override[<<>>].kind = "map"
      BY <1>6, <2>1, <2>4 DEF Over, Unmarshals, IsNull
    <3>2. CASE IsNull(filled)
      <4>1. x.config = filled /\ DOMAIN override = {<<>>}
        BY <2>1, <3>2 DEF MergeJSON, Panics
      <4> QED
        BY <1>3, <2>2, <3>1, <4>1, PlainPromise
    <3>3. CASE ~IsNull(filled)
      <4>1. x.config = DeepMerge(filled, override)
        BY <2>1, <2>4, <3>3 DEF MergeJSON
      <4>2. Valid(x.config) /\ DOMAIN x.config \subseteq Seq(STRING)
        BY <1>3, <2>2, <4>1, MergeValid
      <4>3. DOMAIN override \subseteq Seq(STRING)
        BY <2>2 DEF IsDocument
      <4>4. Paths(x) \subseteq Seq(STRING)
        BY <1>4, <3>1, <4>2, <4>3 DEF Paths
      <4>5. \A p \in Seq(STRING) :
              Says(At(filled, p), At(x.base["gateway"], p), x.values)
        BY <1>3
      <4>6. \A p \in Seq(STRING) : Promised(x, p)
        BY <1>3, <2>2, <3>1, <4>1, <4>5, MergedPromise
      <4> QED
        BY <4>4, <4>6
    <3> QED
      BY <3>2, <3>3
  <2> QED
    BY <2>3, <2>4
<1> QED
  BY <1>5, <1>6

LEMMA CreatedKeeps ==
  ASSUME NEW way \in Ways, NEW base \in Rows, NEW T, T = base["gateway"], IsDocument(T),
         NEW values \in Fillings, NEW override \in Overrides \cup {NoOverride},
         NEW read \in OverridesRead(way, override),
         NEW c, c = Composed(way, T, ValuesRead(way, values), read), c.outcome = "created",
         NEW x, x = [outcome |-> c.outcome, base |-> base, way |-> way,
                     values |-> UsedOf(T, values), override |-> override,
                     config |-> c.config]
  PROVE  OrderInv(x)
<1>1. PICK given : given = ValuesRead(way, values)
  OBVIOUS
<1>2. given \in [DOMAIN given -> Text]
  BY <1>1, ValuesReadType
<1>3. read = NoOverride \/ IsDocument(read)
  BY OverrideReadCases
<1>4. IsJson(T, base, c.config)
  BY <1>1, <1>2, <1>3, CreatedValid
<1>5. ASSUME Understood(x) PROVE \A p \in Paths(x) : Promised(x, p)
  <2>1. read = override /\ UsedOf(T, given) = UsedOf(T, values)
    BY <1>1, <1>5, UnderstoodAsTyped
  <2>2. /\ x.base = base /\ x.values = UsedOf(T, given) /\ x.override = read
        /\ x.config = c.config
    BY <2>1
  <2> QED
    BY <1>1, <1>2, <1>3, <2>2, CreatedPromise
<1> QED
  BY <1>4, <1>5 DEF OrderInv, Outcomes

LEMMA RefusedKeeps ==
  ASSUME NEW way, NEW base \in Rows, NEW T, T = base["gateway"], IsDocument(T),
         NEW values, values \in [DOMAIN values -> Text], NEW override,
         NEW c, c = Composed(way, T, values, override), c.outcome # "created",
         NEW x, x.outcome = c.outcome, x.base = base, x.override = NoOverride,
         x.way \in Ways
  PROVE  OrderInv(x)
<1>1. PICK filled : filled = FilledIn(T, values)
  OBVIOUS
<1>2. /\ c.outcome \in Outcomes
      /\ c.outcome = "invalid" => /\ ExtractPlaceholders(T) \subseteq DOMAIN values
                                  /\ ~Valid(filled)
  BY <1>1, ComposedCases
<1>3. c.outcome = "invalid" => base \notin Acceptable
  BY <1>1, <1>2, TemplatesAssumption, AcceptedWorks
<1> QED
  BY <1>2, <1>3 DEF OrderInv

-----------------------------------------------------------------------------
(* The row has a document *)

GatewayInv ==
  /\ row \in Rows => IsDocument(row["gateway"])
  /\ \A r \in Replicas :
       replica[r].pc = "write" => IsDocument(replica[r].current["gateway"])

CreationInv ==
  /\ DefaultsInv /\ GatewayInv
  /\ DOMAIN order = Orders
  /\ \A o \in Orders : OrderInv(order[o])

LEMMA DefaultsKeeps ==
  ASSUME DefaultsInv, [DefaultsNext]_defaults
  PROVE  DefaultsInv'
<1>1. ASSUME NEW r \in Replicas, SyncWrite(r) PROVE DefaultsInv'
  BY <1>1, ServerWriteKeeps DEF SyncWrite, DefaultsInv, DefaultsTypeOK
<1> QED
  BY <1>1, MigrateKeeps, SyncReadKeeps, FailKeeps, UpdateKeeps, PageOpenKeeps,
     PageUpdateKeeps, StutterKeeps
  DEF DefaultsNext

\* A step of a server that leaves the row, or writes a document.
LEMMA RowKeepsGateway ==
  ASSUME GatewayInv, row' = row \/ IsDocument(row'["gateway"]),
         \A r \in Replicas : replica'[r].pc = "write" => replica'[r] = replica[r]
  PROVE  GatewayInv'
  BY DEF GatewayInv

LEMMA GatewayKeeps ==
  ASSUME DefaultsInv, GatewayInv, [DefaultsNext]_defaults
  PROVE  GatewayInv'
<1>0. replica \in [Replicas -> Replica]
  BY DEF DefaultsInv, DefaultsTypeOK
<1>1. ASSUME NEW r \in Replicas, replica' = [replica EXCEPT ![r].pc = "read"]
                              \/ replica' = [replica EXCEPT ![r].pc = "serve"]
      PROVE  \A q \in Replicas : replica'[q].pc = "write" => replica'[q] = replica[q]
  <2> SUFFICES ASSUME NEW q \in Replicas, replica'[q].pc = "write"
               PROVE  replica'[q] = replica[q]
    OBVIOUS
  <2>1. CASE q = r
    <3>1. replica'[r].pc \in {"read", "serve"}
      BY <1>0, <1>1 DEF Replica
    <3> QED
      BY <2>1, <3>1
  <2>2. CASE q # r
    BY <1>0, <1>1, <2>2
  <2> QED
    BY <2>1, <2>2
<1>2. ASSUME NEW r \in Replicas, Migrate(r) PROVE GatewayInv'
  <2>1. row' = row \/ IsDocument(row'["gateway"])
    BY <1>2, TemplatesAssumption DEF Migrate
  <2>2. replica' = [replica EXCEPT ![r].pc = "read"]
    BY <1>2 DEF Migrate
  <2> QED
    BY <1>1, <2>1, <2>2, RowKeepsGateway
<1>3. ASSUME NEW r \in Replicas, SyncRead(r) PROVE GatewayInv'
  <2>1. row \in Rows /\ IsDocument(row["gateway"]) /\ row' = row
    BY <1>3 DEF DefaultsInv, CopyInv, SyncRead, GatewayInv
  <2>2. replica' = [replica EXCEPT
          ![r] = [pc |-> "write", current |-> Overlaid(r, row)]]
    BY <1>3 DEF SyncRead
  <2>3. replica'[r].current = Overlaid(r, row)
    BY <1>0, <2>2
  <2>4. IsDocument(Overlaid(r, row)["gateway"])
    <3>1. CASE Env[r]["gateway"] = Unset
      <4>1. Overlaid(r, row)["gateway"] = row["gateway"]
        BY <3>1, TemplatesAssumption DEF Overlaid
      <4> QED
        BY <2>1, <4>1
    <3>2. CASE Env[r]["gateway"] # Unset
      <4>1. Overlaid(r, row)["gateway"] = Env[r]["gateway"]
        BY <3>2, TemplatesAssumption DEF Overlaid
      <4> QED
        BY <3>2, <4>1, TemplatesAssumption
    <3> QED
      BY <3>1, <3>2
  <2>5. \A q \in Replicas : q # r => replica'[q] = replica[q]
    BY <1>0, <2>2
  <2>6. \A q \in Replicas :
          replica'[q].pc = "write" => IsDocument(replica'[q].current["gateway"])
    <3> SUFFICES ASSUME NEW q \in Replicas, replica'[q].pc = "write"
                 PROVE  IsDocument(replica'[q].current["gateway"])
      OBVIOUS
    <3>1. CASE q = r
      BY <2>3, <2>4, <3>1
    <3>2. CASE q # r
      BY <2>5, <3>2 DEF GatewayInv
    <3> QED
      BY <3>1, <3>2
  <2> QED
    BY <2>1, <2>6 DEF GatewayInv
<1>4. ASSUME NEW r \in Replicas, replica[r].pc = "write"
      PROVE  IsDocument(replica[r].current["gateway"])
  BY <1>4 DEF GatewayInv
<1>5. ASSUME NEW r \in Replicas, SyncWrite(r) PROVE GatewayInv'
  <2>1. IsDocument(row'["gateway"])
    BY <1>4, <1>5 DEF SyncWrite
  <2>2. replica' = [replica EXCEPT ![r].pc = "serve"]
    BY <1>5 DEF SyncWrite
  <2> QED
    BY <1>1, <2>1, <2>2, RowKeepsGateway
<1>6. ASSUME NEW r \in Replicas, Fail(r) PROVE GatewayInv'
  <2>1. row' = row \/ IsDocument(row'["gateway"])
    BY <1>4, <1>6 DEF Fail
  <2>2. replica' = [replica EXCEPT ![r].pc = "read"]
    BY <1>6 DEF Fail
  <2> QED
    BY <1>1, <2>1, <2>2, RowKeepsGateway
<1>7. ASSUME replica' = replica, row' = row \/ IsDocument(row'["gateway"])
      PROVE  GatewayInv'
  BY <1>7, RowKeepsGateway
<1>8. ASSUME UpdateDefaults PROVE GatewayInv'
  <2>1. IsDocument(row'["gateway"]) /\ replica' = replica
    BY <1>8, TemplatesAssumption DEF UpdateDefaults
  <2> QED
    BY <1>7, <2>1
<1>9. ASSUME NEW a \in Forms, PageAdminDefaults(a) PROVE GatewayInv'
  BY <1>7, <1>9 DEF PageAdminDefaults
<1>10. ASSUME NEW a \in Forms, PageUpdateDefaults(a) PROVE GatewayInv'
  <2>1. IsDocument(row'["gateway"]) /\ replica' = replica
    BY <1>10, TemplatesAssumption DEF PageUpdateDefaults
  <2> QED
    BY <1>7, <2>1
<1>11. ASSUME UNCHANGED defaults PROVE GatewayInv'
  BY <1>7, <1>11 DEF defaults
<1> QED
  BY <1>2, <1>3, <1>5, <1>6, <1>8, <1>9, <1>10, <1>11 DEF DefaultsNext

-----------------------------------------------------------------------------
(* The steps *)

LEMMA CreationInit == Init => CreationInv
<1> SUFFICES ASSUME Init PROVE CreationInv
  OBVIOUS
<1>1. DefaultsInv
  BY InitKeeps DEF Init
<1>2. GatewayInv
  <2>1. NoRow \notin Rows
    BY TemplatesAssumption, ValuesAssumption DEF NoRow, Rows
  <2> QED
    BY <2>1 DEF Init, DefaultsInit, GatewayInv
<1>3. OrderInv(NoOrder)
  BY DEF NoOrder, OrderInv, Outcomes, Ways
<1> QED
  BY <1>1, <1>2, <1>3 DEF Init, CreationInv

LEMMA CreateKeeps ==
  ASSUME CreationInv, NEW o \in Orders, CreateInstance(o)
  PROVE  CreationInv'
<1>1. row \in Rows /\ IsDocument(row["gateway"])
  BY DEF CreateInstance, Serving, CreationInv, DefaultsInv, CopyInv, GatewayInv
<1>2. PICK T : T = row["gateway"]
  OBVIOUS
<1>3. PICK way \in Ways, values \in Fillings, override \in Overrides \cup {NoOverride} :
        \E read \in OverridesRead(way, override) :
          LET d == Composed(way, row["gateway"], ValuesRead(way, values), read)
          IN  order' = [order EXCEPT ![o] =
                IF d.outcome = "created"
                  THEN [outcome |-> d.outcome, base |-> row, way |-> way,
                        values |-> UsedOf(row["gateway"], values), override |-> override,
                        config |-> d.config]
                  ELSE [NoOrder EXCEPT !.outcome = d.outcome, !.base = row]]
  BY Zenon DEF CreateInstance, UsedOf
<1>4. PICK read \in OverridesRead(way, override) :
        LET d == Composed(way, row["gateway"], ValuesRead(way, values), read)
        IN  order' = [order EXCEPT ![o] =
              IF d.outcome = "created"
                THEN [outcome |-> d.outcome, base |-> row, way |-> way,
                      values |-> UsedOf(row["gateway"], values), override |-> override,
                      config |-> d.config]
                ELSE [NoOrder EXCEPT !.outcome = d.outcome, !.base = row]]
  BY <1>3
<1>5. PICK c : c = Composed(way, T, ValuesRead(way, values), read)
  OBVIOUS
<1>6. /\ DOMAIN order' = Orders
      /\ \A q \in Orders : q # o => order'[q] = order[q]
  BY <1>4 DEF CreationInv
<1>7. ASSUME c.outcome = "created" PROVE OrderInv(order'[o])
  <2>1. order'[o] = [outcome |-> c.outcome, base |-> row, way |-> way,
                     values |-> UsedOf(T, values), override |-> override,
                     config |-> c.config]
    BY <1>2, <1>4, <1>5, <1>7 DEF CreationInv
  <2> QED
    BY <1>1, <1>2, <1>5, <1>7, <2>1, CreatedKeeps
<1>8. ASSUME c.outcome # "created" PROVE OrderInv(order'[o])
  <2>1. order'[o] = [NoOrder EXCEPT !.outcome = c.outcome, !.base = row]
    BY <1>2, <1>4, <1>5, <1>8 DEF CreationInv
  <2>2. /\ order'[o].outcome = c.outcome /\ order'[o].base = row
        /\ order'[o].override = NoOverride /\ order'[o].way \in Ways
    BY <2>1 DEF NoOrder, Ways
  <2>3. ValuesRead(way, values) \in [DOMAIN ValuesRead(way, values) -> Text]
    BY ValuesReadType
  <2> QED
    BY <1>1, <1>2, <1>5, <1>8, <2>2, <2>3, RefusedKeeps
<1>9. \A q \in Orders : OrderInv(order'[q])
  BY <1>6, <1>7, <1>8 DEF CreationInv
<1>10. DefaultsInv' /\ GatewayInv'
  <2>1. UNCHANGED defaults
    BY DEF CreateInstance
  <2> QED
    BY <2>1, DefaultsKeeps, GatewayKeeps DEF CreationInv
<1> QED
  BY <1>6, <1>9, <1>10 DEF CreationInv

LEMMA CreationNext == CreationInv /\ [Next]_vars => CreationInv'
<1> SUFFICES ASSUME CreationInv, [Next]_vars PROVE CreationInv'
  OBVIOUS
<1>1. ASSUME [DefaultsNext]_defaults, UNCHANGED order PROVE CreationInv'
  <2>1. DefaultsInv' /\ GatewayInv'
    BY <1>1, DefaultsKeeps, GatewayKeeps DEF CreationInv
  <2> QED
    BY <1>1, <2>1 DEF CreationInv
<1>2. CASE DefaultsNext /\ UNCHANGED order
  BY <1>1, <1>2
<1>3. CASE \E o \in Orders : CreateInstance(o)
  BY <1>3, CreateKeeps
<1>4. CASE UNCHANGED vars
  <2>1. UNCHANGED defaults /\ UNCHANGED order
    BY <1>4 DEF vars, defaults
  <2> QED
    BY <1>1, <2>1
<1> QED
  BY <1>2, <1>3, <1>4 DEF Next

-----------------------------------------------------------------------------
(* The theorems *)

\* Creations start from whole rows with a document in them, and have one of the
\* outcomes that the handlers answer with.
THEOREM CreationInvariant == Spec => []CreationInv
  BY CreationInit, CreationNext, PTL DEF Spec

\* Rows, copies and orders have their types (instance.go:49-138).
THEOREM CreationTypes == Spec => []TypeOK
<1>1. CreationInv => TypeOK
  BY DEF CreationInv, DefaultsInv, TypeOK, OrderInv
<1> QED
  BY <1>1, CreationInvariant, PTL

\* Whatever template, values and override, what is created says at every path what
\* the override says, and elsewhere what the template says with the values in its
\* holes: no value can add a field, end a string early or change a neighbour
\* (template.go:33, merge.go:8).  From Slack, provided that the line's words can be
\* put together again as they were typed (Understood).
THEOREM CreatedAsPromisedAlways == Spec => []CreatedAsPromised
<1>1. CreationInv => CreatedAsPromised
  BY DEF CreationInv, CreatedAsPromised, OrderInv
<1> QED
  BY <1>1, CreationInvariant, PTL

\* The one trial with a word that ValidateTemplate makes decides for all values
\* (template.go:59).
THEOREM SavedTemplatesAlwaysWork == Spec => []SavedTemplatesWork
<1>1. CreationInv => SavedTemplatesWork
  BY DEF CreationInv, SavedTemplatesWork, OrderInv
<1> QED
  BY <1>1, CreationInvariant, PTL

\* Only JSON comes out, whatever the template, the values and the override, except
\* that an environment's text without placeholders is handed on unread
\* (instance.go:81-116, main.go:87).
THEOREM CreatedIsAlwaysJson == Spec => []CreatedIsJson
<1>1. CreationInv => CreatedIsJson
  BY DEF CreationInv, CreatedIsJson, OrderInv, IsJson
<1> QED
  BY <1>1, CreationInvariant, PTL

=============================================================================
