------------------------------- MODULE MCJobs -------------------------------
EXTENDS Jobs

CONSTANTS c1, t1, t2, n1, n2, k1, k2

OneCert == {c1}
TwoTargets == {t1, t2}
TwoChannels == {n1, n2}
TwoFindings == {k1, k2}
EachAlone == {{"expiry"}, {"liveness"}, {"discovery"}, {"cert-probe"}}
=============================================================================
