----------------------------- MODULE MCAccounts -----------------------------
(***************************************************************************)
(* Accounts on small instances.  The addresses are taken among "a", "b",   *)
(* "A", which tolower() folds onto "a", and "E", which stands for one with *)
(* a capital letter outside ASCII: tolower() in the C locale leaves it as  *)
(* it is, lower() of PostgreSQL does not.                                  *)
(***************************************************************************)
EXTENDS Accounts, TLC

LowerOf == [x \in Address |-> IF x = "A" THEN "a" ELSE x]
PgLowerOf == [x \in Address |-> IF x = "A" THEN "a" ELSE
                                IF x = "E" THEN "e" ELSE x]

Symmetric == Permutations(Uuid) \cup Permutations(Worker)
TokensSymmetric == Permutations(Uuid)

=============================================================================
