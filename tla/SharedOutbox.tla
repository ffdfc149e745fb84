----------------------------- MODULE SharedOutbox -----------------------------
(***************************************************************************)
(* What an outbox promises of a row that several processes may drain at    *)
(* once, each writing its outcome by the id of the row alone: whoever      *)
(* works on a row took it in hand while it was open, nobody else reaches   *)
(* the other side or writes what became of it, and a row is reported done  *)
(* only after the other side took it.  An outcome is final only once no    *)
(* process has the row in hand: where one process owns a row until it has  *)
(* settled it, the drain implements Outbox, which promises that.  The      *)
(* drains of the text messages (Texts) and of the push messages (Push) are *)
(* shown to implement this one.                                            *)
(***************************************************************************)
CONSTANTS Row, Drainer

VARIABLES
    state,   \* per row: "absent", "open", "done", "dropped"
    took,    \* per row: the other side has accepted it at least once
    hands    \* per row: who has claimed it and not yet said what became of it

sharedVars == <<state, took, hands>>

SharedInit ==
    /\ state = [r \in Row |-> "absent"]
    /\ took = [r \in Row |-> FALSE]
    /\ hands = [r \in Row |-> {}]

\* A row comes, or is given up by a statement about many rows.
Moves == {<<"absent", "open">>, <<"open", "dropped">>}

\* One of those who have the row in hand writes its outcome and lets go of it.
Written(r) == state'[r] # "absent" /\ \E k \in hands[r] : hands'[r] = hands[r] \ {k}

SharedRowStep(r) ==
    /\ state'[r] = state[r] \/ <<state[r], state'[r]>> \in Moves \/ Written(r)
    /\ state'[r] = "done" => took'[r]
    /\ took'[r] = took[r] \/ (took'[r] /\ hands[r] # {})
    /\ hands'[r] \subseteq hands[r] \/ (state[r] = "open" /\ state'[r] = "open")

SharedNext ==
    /\ state' \in [Row -> {"absent", "open", "done", "dropped"}]
    /\ took' \in [Row -> BOOLEAN]
    /\ hands' \in [Row -> SUBSET Drainer]
    /\ \A r \in Row : SharedRowStep(r)

SharedOutboxSpec == SharedInit /\ [][SharedNext]_sharedVars
=============================================================================
