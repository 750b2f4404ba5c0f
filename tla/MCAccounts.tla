------------------------------ MODULE MCAccounts ------------------------------
EXTENDS Accounts, TLC

CONSTANTS a, b, i1, i2, p1, p2, p3, r1, r2

TwoUsers == {a, b}
OnlyB == {b}
TwoIds == {i1, i2}
TwoPasswords == {p1, p2}
TwoRequests == {r1, r2}
Symmetry == Permutations(Id) \cup Permutations(Password) \cup Permutations(Request)

\* Bounds: while somebody has a second factor there is one session, token or
\* ticket at most; while failed logins are counted too, and nobody is setting up
\* a factor or administering: the throttle looks at none of this.
Apart == {"setup", "confirm", "change", "admin", "disable", "disproved"}
FewAtOnce ==
  /\ (\A u \in User : totp[u] = None) \/ Cardinality(credentials \cup tickets) <= 1
  /\ \/ attempts = [u \in User |-> NoAttempts]
     \/ /\ Cardinality(credentials \cup tickets) <= 1
        /\ \A r \in Request : request[r].at \notin Apart
=============================================================================
