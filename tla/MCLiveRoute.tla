----------------------------- MODULE MCLiveRoute -----------------------------
(* Small instances of LiveRoute for TLC.                                    *)
EXTENDS LiveRoute, TLC

CONSTANTS c1, c2, s1

OneCycle == {c1}
TwoCycles == {c1, c2}
NoSubmit == {}
OneSubmit == {s1}
=============================================================================
