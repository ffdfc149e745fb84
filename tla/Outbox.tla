------------------------------- MODULE Outbox -------------------------------
(***************************************************************************)
(* What an outbox promises of a row that one process at a time owns: the   *)
(* row is worked on only while it is open, it is reported done only after  *)
(* the other side took it, and an outcome is final.  The drain of the      *)
(* number releases (Provisioning) is shown to implement it, however many   *)
(* sweeps overlap.  SharedOutbox is the weaker promise of an outbox whose  *)
(* rows several processes may have in hand at once.                        *)
(***************************************************************************)
CONSTANT Row

VARIABLES
    state,   \* per row: "absent", "open", "done", "dropped"
    took     \* per row: the other side has accepted it at least once

outboxVars == <<state, took>>

OutboxInit ==
    /\ state = [r \in Row |-> "absent"]
    /\ took = [r \in Row |-> FALSE]

Moves == {<<"absent", "open">>, <<"open", "done">>, <<"open", "dropped">>}

\* What a step may do to a row.  An attempt that reaches the other side may
\* lose its answer, and the row then stays open.
RowStep(r) ==
    /\ state'[r] = state[r] \/ <<state[r], state'[r]>> \in Moves
    /\ took'[r] = took[r] \/ (took'[r] /\ state[r] = "open")
    /\ state'[r] = "done" => took'[r]

\* One statement may touch several rows.
OutboxNext ==
    /\ state' \in [Row -> {"absent", "open", "done", "dropped"}]
    /\ took' \in [Row -> BOOLEAN]
    /\ \A r \in Row : RowStep(r)

OutboxSpec == OutboxInit /\ [][OutboxNext]_outboxVars
=============================================================================
