------------------------------ MODULE MCIntake ------------------------------
(* Small instances of Intake.                                              *)
EXTENDS Intake

CONSTANTS t1, t2, nobody

OneTicker == {t1}
TwoTickers == {t1, t2}
NoTicker == {}
Plain == {"plain"}
Soft == {"soft"}
AnyTier0 == {"unrouted", "hard", "soft", "plain"}
Routed == {"hard", "soft", "plain"}
=============================================================================
