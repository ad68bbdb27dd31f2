---- MODULE MCAccounts ----
EXTENDS Accounts, TLC

Renaming == Permutations(Calls) \cup Permutations(Passwords)
====
