-------------------------- MODULE MCDiscoverySession --------------------------
(* Small instances of DiscoverySession for TLC.                             *)
EXTENDS DiscoverySession, TLC

CONSTANTS r1, r2, p1, p2, k1, k2, e1, e2

OneRequest == {r1}
TwoRequests == {r1, r2}
OnePolicy == {p1}
TwoPolicies == {p1, p2}
OneCandidate == {k1}
TwoCandidates == {k1, k2}
OneEvidence == {e1}
TwoEvidences == {e1, e2}
TwoRisks == {1, 2}
=============================================================================
