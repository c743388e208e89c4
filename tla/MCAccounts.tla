------------------------------ MODULE MCAccounts ------------------------------
\* Accounts for TLC: requests, emails and organizations are interchangeable.
EXTENDS Accounts, TLC

Symmetry == Permutations(Requests) \cup Permutations(Emails) \cup Permutations(Orgs)
=============================================================================
