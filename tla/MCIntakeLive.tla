----------------------------- MODULE MCIntakeLive -----------------------------
(* Two messages while the database works, or one while it fails at the worst *)
(* moments.                                                                  *)
EXTENDS MCIntake

VARIABLE failing  \* the database fails now and then

LiveInit ==
    /\ Init /\ failing \in BOOLEAN
    /\ \A m \in Messages : tier0[m] = "plain" \/ (failing /\ m = 1)

\* While it fails only the first message comes.
LiveNext ==
    /\ Next /\ UNCHANGED failing
    /\ failing \/ UNCHANGED faults
    /\ failing => \A p \in Deliveries : p[1] = 1 \/ proc'[p] = proc[p]

LiveSpec == LiveInit /\ [][LiveNext]_<<vars, failing>> /\ Fairness
=============================================================================
