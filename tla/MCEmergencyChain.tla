-------------------------- MODULE MCEmergencyChain --------------------------
(* Small instances of the escalation chain.                                *)
EXTENDS EmergencyChain, TLC

CONSTANTS t1, t2, webhook

OneTicker == {t1}
TwoTickers == {t1, t2}
Everyone == {Contact}
SomeMissing == {Contact, Contact \ {"tenant"}}
TickerSymmetry == Permutations(TwoTickers)
=============================================================================
