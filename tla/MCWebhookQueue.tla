--------------------------- MODULE MCWebhookQueue ---------------------------
EXTENDS WebhookQueue

CONSTANTS e1, e2, ok, broken, w1, w2

TwoEvents == {e1, e2}
BothEndpoints == {ok, broken}
OnlyHealthy == {ok}
TwoWorkers == {w1, w2}
OneWorker == {w1}
\* e1 matches both endpoints, e2 only the broken one.
FirstMatchesAll == [e \in Event |-> IF e = e1 THEN Endpoint ELSE {broken}]
AllMatchAll == [e \in Event |-> Endpoint]
=============================================================================
