--------------------------- MODULE MCRouteScheduler ---------------------------
(* Small instance of RouteScheduler for TLC.                                *)
EXTENDS RouteScheduler, TLC

CONSTANTS t1, t2, r1, r2

TwoTimers == {t1, t2}
TwoRequests == {r1, r2}
=============================================================================
