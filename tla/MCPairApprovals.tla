-------------------------- MODULE MCPairApprovals --------------------------
(* PairApprovals with two clients, one of which sends a device key.          *)
EXTENDS PairApprovals

CONSTANTS d1, ana, web, home, hall, r1, r2, r3, n1, n2, n3

OneId == {d1}
OnePhone == {ana}
OneBrowser == {web}
TwoHosts == {home, hall}
ThreeRequests == {r1, r2, r3}
ThreeNumbers == {n1, n2, n3}

=============================================================================
