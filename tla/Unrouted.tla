------------------------------- MODULE Unrouted -------------------------------
(***************************************************************************)
(* What becomes of a text for a number that is no property's               *)
(* (app/unrouted_maintenance.py): an operator resolves the row by hand, a  *)
(* daily digest reminds of the rows nobody resolved, and resolved rows are *)
(* deleted after a while.  Each machine has its own ticker, and remembers  *)
(* the day of its last digest in memory only.                              *)
(***************************************************************************)
EXTENDS Naturals, FiniteSets

CONSTANTS
    Strays,          \* unrouted_inbound rows
    Janitors,        \* machines whose ticker runs the sweep
    RetentionDays,   \* _RETENTION_DAYS
    DeleteBatch,     \* _RETENTION_SWEEP_BATCH_LIMIT
    MaxJanitorFault  \* bound: failed statements and restarts

ASSUME UnroutedAssumption ==
    /\ RetentionDays \in Nat \ {0} /\ DeleteBatch \in Nat \ {0}
    /\ MaxJanitorFault \in Nat

VARIABLES
    stray,          \* per row: its state and the days since it got there
    janitor,        \* per machine: control state, whether a sweep of it ended
                    \* today, and whether it sent today's digest
    reported,       \* rows that a digest of today counted
    janitorFaults   \* failed statements and restarts so far

unroutedVars == <<stray, janitor, reported, janitorFaults>>

\* Ages are counted as far as the retention looks.
Ancient == RetentionDays + 1
StrayIn(where, age) == [in |-> where, age |-> age]
StraysIn(where) == {r \in Strays : stray[r].in = where}

JanitorAt(label) == [pc |-> label, fired |-> FALSE, ticked |-> FALSE]

\* The service runs, or nothing does.
UnroutedInit ==
    /\ stray \in [Strays -> {StrayIn("absent", 0), StrayIn("open", 0),
                             StrayIn("resolved", 0), StrayIn("resolved", Ancient)}]
    /\ janitor \in {[t \in Janitors |-> JanitorAt(label)] : label \in {"idle", "down"}}
    /\ reported = {} /\ janitorFaults = 0

JanitorTo(t, label) == janitor' = [janitor EXCEPT ![t].pc = label]
JanitorFault == janitorFaults < MaxJanitorFault /\ janitorFaults' = janitorFaults + 1

\* The webhook's dead letter (Intake).
StrayArrives(r) ==
    /\ stray[r].in = "absent"
    /\ stray' = [stray EXCEPT ![r] = StrayIn("open", 0)]
    /\ UNCHANGED <<janitor, reported, janitorFaults>>

\* By hand, in SQL: now, or backdated to the arrival.
OperatorResolves(r) ==
    /\ stray[r].in = "open"
    /\ \E age \in {0, stray[r].age} : stray' = [stray EXCEPT ![r] = StrayIn("resolved", age)]
    /\ UNCHANGED <<janitor, reported, janitorFaults>>

\* The sweep of a tick begins.
JanitorStart(t) ==
    /\ janitor[t].pc = "idle"
    /\ JanitorTo(t, "retention")
    /\ UNCHANGED <<stray, reported, janitorFaults>>

\* Mutant: the age alone decides.
DeletableAnyState == {r \in Strays : stray[r].in \in {"open", "resolved"} /\ stray[r].age > RetentionDays}
\* _retention_cutoff is exclusive.
Deletable == {r \in Strays : stray[r].in = "resolved" /\ stray[r].age > RetentionDays}

\* One batch, the oldest first; a full batch is followed by another until the
\* time budget of the tick is used up.
DeleteSome(t) ==
    /\ janitor[t].pc = "retention"
    /\ \E batch \in SUBSET Deletable :
         /\ Cardinality(batch) <= DeleteBatch
         /\ Cardinality(batch) < DeleteBatch => batch = Deletable
         /\ stray' = [r \in Strays |-> IF r \in batch THEN StrayIn("deleted", 0) ELSE stray[r]]
         /\ \/ JanitorTo(t, "digest")
            \/ Cardinality(batch) = DeleteBatch /\ UNCHANGED janitor
    /\ UNCHANGED <<reported, janitorFaults>>

\* Unresolved, past the hour of grace: it did not arrive today.
DueForDigest == {r \in StraysIn("open") : stray[r].age > 0}

\* _maybe_fire_digest, once per day and process: last_fired_day is set after
\* the alert, and only by an alert.
Digest(t) ==
    LET fires == ~janitor[t].fired /\ DueForDigest # {} IN
    /\ janitor[t].pc = "digest"
    /\ janitor' = [janitor EXCEPT ![t] = [pc |-> "idle", ticked |-> TRUE,
                                             fired |-> @.fired \/ fires]]
    /\ reported' = IF fires THEN reported \cup DueForDigest ELSE reported
    /\ UNCHANGED <<stray, janitorFaults>>

\* A retention that fails does not silence the digest; a digest that fails
\* leaves no stamp.
JanitorFails(t) ==
    /\ JanitorFault
    /\ \/ janitor[t].pc = "retention" /\ JanitorTo(t, "digest")
       \/ janitor[t].pc = "digest" /\ JanitorTo(t, "idle")
    /\ UNCHANGED <<stray, reported>>

\* A deploy: the stamp is gone.
JanitorRestarts(t) ==
    /\ JanitorFault
    /\ janitor[t].pc # "down" /\ janitor' = [janitor EXCEPT ![t] = JanitorAt("idle")]
    /\ UNCHANGED <<stray, reported>>

\* A tick every minute: no day passes without a sweep, and midnight may come
\* in the middle of one.
JanitorDay ==
    /\ \A t \in Janitors : janitor[t].ticked
    /\ stray' = [r \in Strays |->
                    [stray[r] EXCEPT !.age = IF stray[r].in \in {"absent", "deleted"} \/ @ = Ancient
                                             THEN @ ELSE @ + 1]]
    /\ janitor' = [t \in Janitors |-> [janitor[t] EXCEPT !.fired = FALSE, !.ticked = FALSE]]
    /\ reported' = {}
    /\ UNCHANGED janitorFaults

JanitorSweep(t) == JanitorStart(t) \/ DeleteSome(t) \/ Digest(t)

UnroutedNext ==
    \/ \E r \in Strays : StrayArrives(r) \/ OperatorResolves(r)
    \/ \E t \in Janitors :
         JanitorSweep(t) \/ JanitorFails(t) \/ JanitorRestarts(t)
    \/ JanitorDay

\* Ticks keep coming (scheduler.py), and so do days.
UnroutedFairness ==
    /\ \A t \in Janitors : WF_unroutedVars(JanitorSweep(t))
    /\ WF_unroutedVars(JanitorDay)

-----------------------------------------------------------------------------
(* Properties.                                                             *)

UnroutedTypeOK ==
    /\ stray \in [Strays -> [in : {"absent", "open", "resolved", "deleted"}, age : 0..Ancient]]
    /\ janitor \in [Janitors -> [pc : {"down", "idle", "retention", "digest"},
                                fired : BOOLEAN, ticked : BOOLEAN]]
    /\ reported \subseteq Strays
    /\ janitorFaults \in 0..MaxJanitorFault

\* A row nobody resolves is never lost and comes up in digest after digest, and
\* a resolved one is deleted in the end, however many there are, whatever fails
\* and however often the machines restart.
Serviced == \A t \in Janitors : janitor[t].pc # "down"
StraysHandled ==
    Serviced => \A r \in Strays :
        /\ <>(stray[r].in = "open") => <>(stray[r].in = "resolved") \/ []<>(r \in reported)
        /\ stray[r].in = "resolved" ~> stray[r].in # "resolved"
=============================================================================
