----------------------------- MODULE MCAccounts -----------------------------
(* Values for the constants of Accounts: one user older than the wallets   *)
(* table, and as many ids as she and the requests can use.                 *)
EXTENDS Accounts, FiniteSets, TLC

CONSTANTS e1, e2

MCEmails == {e1, e2}
MCLegacy == <<e1>>
MCIds == 1..(Len(MCLegacy) + Cardinality(Requests))

RequestSymmetry == Permutations(Requests)

=============================================================================
