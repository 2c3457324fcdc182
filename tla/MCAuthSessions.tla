---------------------------- MODULE MCAuthSessions ----------------------------
EXTENDS AuthSessions, TLC

\* Requests of one kind differ in their names only.
RequestSymmetry == Permutations(Logins) \cup Permutations(Refreshes)
=============================================================================
