----------------------------- MODULE MCAccounts -----------------------------
(***************************************************************************)
(* Accounts for TLC: two people, one of whom has two addresses.            *)
(***************************************************************************)
EXTENDS Accounts, TLC

CONSTANTS ann, bob, annNow, annLater, bobNow

Addresses == {annNow, annLater, bobNow}

Owners ==
  [m \in Addresses |-> IF m = bobNow THEN bob ELSE ann]

Interchangeable == Permutations(Requests) \cup Permutations(Ids)

=============================================================================
