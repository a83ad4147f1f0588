----------------------------- MODULE MCAccounts -----------------------------
(* Instances of Accounts for TLC.                                          *)
EXTENDS Accounts, TLC

CONSTANT u1

\* One administrator exists; the other users are registrations of one email.
MCEmail == [u \in Users |-> IF u = u1 THEN "e1" ELSE "e2"]

\* Tokens, slots and the users that register are alike.
MCSymmetry == Permutations(Tokens) \cup Permutations(Requests)
                \cup Permutations(Users \ {u1})
=============================================================================
