------------------------------- MODULE Intake -------------------------------
(***************************************************************************)
(* What becomes of an inbound text: Twilio's deliveries of it to the       *)
(* webhook (routers/webhooks/twilio.py), the background task with its      *)
(* completion gate (agent/graph_entry.py), the graph run that drafts or    *)
(* degrades (agent/graph.py, nodes/degraded_mode.py), and the sweep that   *)
(* retries a failed classification (agent/degraded_mode_sweep.py).         *)
(*                                                                         *)
(* All messages are one tenant's and belong to one case.  What happens to  *)
(* a draft once it is up for approval is DraftFlow's subject: here the     *)
(* landlord's decision and the sending of the reply are one step.          *)
(***************************************************************************)
EXTENDS Naturals, Sequences

CONSTANTS
    MaxMessage,   \* bound: messages
    MaxDelivery,  \* bound: deliveries of a message
    Tickers,      \* the tickers that run the retry sweep
    Tier0,        \* what the pre-filter may say of a message
    Free,         \* nobody holds the case lock
    MaxFault,     \* bound: database errors and lost responses
    MaxCrash      \* bound: processes that die

Messages == 1..MaxMessage
Deliveries == Messages \X (1..MaxDelivery)
Procs == Deliveries \cup Tickers

ASSUME IntakeAssumption ==
    /\ MaxMessage \in Nat \ {0} /\ MaxDelivery \in Nat \ {0}
    /\ MaxFault \in Nat /\ MaxCrash \in Nat
    /\ Free \notin Procs
    /\ Deliveries \cap Tickers = {}
    /\ Tier0 \subseteq {"unrouted", "hard", "soft", "plain"}

VARIABLES
    tier0,     \* per message: property unknown, or HARD hit, SOFT annotation, nothing
    stored,    \* messages rows, stored in the order of their numbers
    letters,   \* unrouted_inbound rows
    answered,  \* messages Twilio got a 200 for: they are not delivered again
    calls,     \* messages with an emergency_call row
    eyes,      \* messages with a needs_eyes row
    acks,      \* messages with a tenant_ack row
    retry,     \* per message: its degraded_retry row
    audited,   \* messages with a 'degraded_mode' audit row
    drafted,   \* messages with a 'drafted' audit row
    linked,    \* messages that identify_case has put on the case
    case,      \* cases.status
    pending,   \* the message whose run drafted the pending draft, 0 if there is none
    thread,    \* the checkpoint of the case's thread
    lock,      \* who holds the per-case advisory lock
    proc,      \* per delivery and ticker: control state, message, what it has read
    covered,   \* messages that a drafted reply has taken into account
    moved,     \* messages that went to a case of their own
    paged,     \* messages whose failure was reported to the operators
    faults,    \* database errors and lost responses so far
    crashes    \* deaths so far

rows == <<stored, letters, calls, eyes, acks, retry, audited, drafted, linked>>
caseVars == <<case, pending, thread, lock>>
seenVars == <<covered, moved, paged>>
vars == <<tier0, stored, letters, answered, calls, eyes, acks, retry, audited, drafted, linked,
          case, pending, thread, lock, proc, covered, moved, paged, faults, crashes>>

\* RETRY_SCHEDULE, in minutes after the failure, and _MAX_CANDIDATE_EXCEPTIONS.
RetrySchedule == <<1, 5, 15>>
MaxExceptions == 3

NoRetry == [status |-> "none", outcome |-> "none", attempt |-> 0, due |-> FALSE,
            exceptions |-> 0, snapshot |-> "none"]

Init ==
    /\ tier0 \in [Messages -> Tier0]
    /\ stored = {} /\ letters = {} /\ answered = {}
    /\ calls = {} /\ eyes = {} /\ acks = {} /\ audited = {} /\ drafted = {} /\ linked = {}
    /\ retry = [m \in Messages |-> NoRetry]
    /\ case = "open" /\ pending = 0 /\ thread = "new" /\ lock = Free
    /\ proc = [p \in Procs |->
                  [pc |-> IF p \in Tickers THEN "idle" ELSE "unsent",
                   msg |-> IF p \in Tickers THEN 1 ELSE p[1], saw |-> {}, attempt |-> 0]]
    /\ covered = {} /\ moved = {} /\ paged = {}
    /\ faults = 0 /\ crashes = 0

Goto(p, label) == proc' = [proc EXCEPT ![p].pc = label]
At(p, label) == proc[p].pc = label
Msg(p) == proc[p].msg

Fault == faults < MaxFault /\ faults' = faults + 1
\* Mutant: a failure is logged and reported to nobody.
PageNobody(p) == UNCHANGED paged
\* _report_run_graph_failure and its like: metadata only, to Sentry.
Page(p) == paged' = paged \cup {Msg(p)}
NeedsEyes(p) == eyes' = eyes \cup {Msg(p)}
Unlock(p) == lock' = IF lock = p THEN Free ELSE lock

-----------------------------------------------------------------------------
(* The webhook.                                                            *)

WebhookUnchanged == UNCHANGED <<tier0, eyes, acks, retry, audited, drafted, linked, caseVars,
                                covered, moved, crashes>>

\* Twilio delivers a message until it gets a 200 for it; a delivery it timed
\* out on may still be at work.
Deliver(p) ==
    /\ At(p, "unsent")
    /\ Msg(p) \notin answered
    /\ p[2] > 1 => proc[<<p[1], p[2] - 1>>].pc # "unsent"
    /\ p[1] > 1 => p[1] - 1 \in stored \cup letters
    /\ Goto(p, "store")
    /\ WebhookUnchanged
    /\ UNCHANGED <<stored, letters, answered, calls, paged, faults>>

\* The message, or the dead letter, in a transaction of its own; a row that is
\* there already is read back.
Store(p) ==
    /\ At(p, "store")
    /\ IF tier0[Msg(p)] = "unrouted"
       THEN letters' = letters \cup {Msg(p)} /\ Goto(p, "respond") /\ UNCHANGED stored
       ELSE /\ stored' = stored \cup {Msg(p)}
            /\ Goto(p, IF tier0[Msg(p)] = "hard" THEN "artifacts" ELSE "respond")
            /\ UNCHANGED letters
    /\ WebhookUnchanged
    /\ UNCHANGED <<answered, calls, paged, faults>>

\* _ensure_tenant_emergency_artifacts.
Artifacts(p) ==
    /\ At(p, "artifacts")
    /\ calls' = calls \cup {Msg(p)}
    /\ Goto(p, "respond")
    /\ WebhookUnchanged
    /\ UNCHANGED <<stored, letters, answered, paged, faults>>

\* Mutant: a failed emergency artifact is swallowed like any other side effect.
AfterErrorSwallowed(label) == IF label = "artifacts" THEN "respond" ELSE "failed"
\* What an error at this point of the webhook leads to: a 5xx, so that Twilio
\* delivers again.
AfterError(label) == "failed"

WebhookError(p) ==
    /\ proc[p].pc \in {"store", "artifacts"}
    /\ Fault
    /\ Goto(p, AfterError(proc[p].pc))
    /\ IF At(p, "artifacts") \/ tier0[Msg(p)] = "unrouted" THEN Page(p) ELSE UNCHANGED paged
    /\ WebhookUnchanged
    /\ UNCHANGED <<stored, letters, answered, calls>>

\* The 200, which may get lost; the background task starts after it.
Respond(p) ==
    /\ At(p, "respond")
    /\ \/ answered' = answered \cup {Msg(p)} /\ UNCHANGED faults
       \/ Fault /\ UNCHANGED answered
    /\ Goto(p, IF tier0[Msg(p)] = "unrouted" THEN "done" ELSE "gate")
    /\ WebhookUnchanged
    /\ UNCHANGED <<stored, letters, calls, paged>>

Webhook(p) == Store(p) \/ Artifacts(p) \/ Respond(p)

-----------------------------------------------------------------------------
(* The background task and the graph run.                                  *)

RunUnchanged == UNCHANGED <<tier0, stored, letters, answered, calls, crashes>>

\* The completion gate: this message was degraded, or drafted by a run that
\* reached its end or its interrupt.
Completed(m) == m \in audited \/ (m \in drafted /\ thread \in {"paused", "ended"})

Gate(p) ==
    /\ At(p, "gate")
    /\ Goto(p, IF Completed(Msg(p)) THEN "skipped" ELSE "load")
    /\ RunUnchanged
    /\ UNCHANGED <<eyes, acks, retry, audited, drafted, linked, caseVars, covered, moved, paged,
                   faults>>

\* load_context reads the channel's history; a resolved case is not offered,
\* and the message goes to a case of its own, where a retry may fail again.
LoadContext(p) ==
    /\ At(p, "load")
    /\ IF case = "resolved"
       THEN moved' = moved \cup {Msg(p)}
            /\ \E next \in IF p \in Tickers THEN {"resolve", "reschedule"} ELSE {"done"} :
                   Goto(p, next)
       ELSE proc' = [proc EXCEPT ![p].pc = "identify", ![p].saw = stored] /\ UNCHANGED moved
    /\ RunUnchanged
    /\ UNCHANGED <<eyes, acks, retry, audited, drafted, linked, caseVars, covered, paged, faults>>

IdentifyCase(p) ==
    /\ At(p, "identify")
    /\ linked' = linked \cup {Msg(p)}
    /\ case' = IF case = "resolved" THEN "reopened" ELSE case
    /\ Goto(p, "wait")
    /\ RunUnchanged
    /\ UNCHANGED <<eyes, acks, retry, audited, drafted, pending, thread, lock, covered, moved,
                   paged, faults>>

TakeLock(p) ==
    /\ At(p, "wait") /\ lock = Free
    /\ lock' = p
    /\ thread' = "running"
    /\ Goto(p, "classify")
    /\ RunUnchanged
    /\ UNCHANGED <<eyes, acks, retry, audited, drafted, linked, case, pending, covered, moved,
                   paged, faults>>

\* Mutant: a run that did not get the lock is dropped.
AfterTimeoutDrops(p) == IF p \in Tickers THEN "record" ELSE "done"
\* CaseLockAcquisitionTimeoutError: the background task queues a retry, the
\* sweep counts an exception.
AfterTimeout(p) == IF p \in Tickers THEN "record" ELSE "queue"

LockTimeout(p) ==
    /\ At(p, "wait") /\ lock # Free
    /\ Goto(p, AfterTimeout(p))
    /\ Page(p)
    /\ RunUnchanged
    /\ UNCHANGED <<eyes, acks, retry, audited, drafted, linked, caseVars, covered, moved, faults>>

\* queue_degraded_retry: one row per message, with the case's status of now.
QueueRetry(m) ==
    retry' = IF retry[m].status = "none"
             THEN [retry EXCEPT ![m].status = "pending", ![m].snapshot = case]
             ELSE retry

QueueAfterTimeout(p) ==
    /\ At(p, "queue")
    /\ \/ QueueRetry(Msg(p)) /\ UNCHANGED faults
       \/ Fault /\ UNCHANGED retry
    /\ Goto(p, "done")
    /\ RunUnchanged
    /\ UNCHANGED <<eyes, acks, audited, drafted, linked, caseVars, covered, moved, paged>>

\* The run's classification is the only thing that can fail without an error.
Classify(p) ==
    /\ At(p, "classify")
    /\ \E next \in {"draft", "degrade"} : Goto(p, next)
    /\ RunUnchanged
    /\ UNCHANGED <<eyes, acks, retry, audited, drafted, linked, caseVars, covered, moved, paged,
                   faults>>

\* Stale-then-insert; the reply is drafted knowing the messages that were
\* loaded.  A guard failure or an emergency goes on to the generic leg.
DraftResponse(p) ==
    /\ At(p, "draft")
    /\ pending' = Msg(p)
    /\ drafted' = drafted \cup {Msg(p)}
    /\ covered' = covered \cup proc[p].saw
    /\ \E next \in {"mark", "generic"} : Goto(p, next)
    /\ RunUnchanged
    /\ UNCHANGED <<eyes, acks, retry, audited, linked, case, thread, lock, moved, paged, faults>>

MarkAwaitingApproval(p) ==
    /\ At(p, "mark")
    /\ case' = IF pending # 0 THEN "awaiting_approval" ELSE case
    /\ Goto(p, "pause")
    /\ RunUnchanged
    /\ UNCHANGED <<eyes, acks, retry, audited, drafted, linked, pending, thread, lock, covered,
                   moved, paged, faults>>

\* Mutant: the sweep takes the end of the run for success.
AfterRunResolves(p, classified) == IF p \notin Tickers THEN "done" ELSE "resolve"
\* The run is over: the task is done, the sweep settles its retry row.
AfterRun(p, classified) ==
    IF p \notin Tickers THEN "done" ELSE IF classified THEN "resolve" ELSE "reschedule"

AwaitApproval(p) ==
    /\ At(p, "pause")
    /\ thread' = IF pending # 0 THEN "paused" ELSE "ended"
    /\ Unlock(p)
    /\ Goto(p, AfterRun(p, TRUE))
    /\ RunUnchanged
    /\ UNCHANGED <<eyes, acks, retry, audited, drafted, linked, case, pending, covered, moved,
                   paged, faults>>

\* degraded_mode swallows the error of its own write, and reports it.
DegradedWrite(p, written) ==
    /\ \/ written /\ UNCHANGED <<paged, faults>>
       \/ Fault /\ Page(p) /\ UNCHANGED <<eyes, acks, retry, audited>>
    /\ thread' = "ended"
    /\ Unlock(p)
    /\ RunUnchanged
    /\ UNCHANGED <<drafted, linked, case, pending, covered, moved>>

HandleGenericDegraded(p) ==
    /\ At(p, "generic")
    /\ DegradedWrite(p, /\ NeedsEyes(p)
                        /\ audited' = IF Msg(p) \in eyes THEN audited ELSE audited \cup {Msg(p)}
                        /\ UNCHANGED <<acks, retry>>)
    /\ Goto(p, AfterRun(p, TRUE))

\* The audit row is written when the leg made something new, and always on the
\* leg of a HARD hit, which makes nothing.
HandleClassificationFailed(p) ==
    LET m == Msg(p) IN
    /\ At(p, "degrade")
    /\ DegradedWrite(p,
          CASE tier0[m] = "hard" -> audited' = audited \cup {m} /\ UNCHANGED <<eyes, acks, retry>>
            [] tier0[m] = "soft" ->
                  /\ acks' = acks \cup {m}
                  /\ NeedsEyes(p)
                  /\ audited' = IF m \in acks /\ m \in eyes THEN audited ELSE audited \cup {m}
                  /\ UNCHANGED retry
            [] tier0[m] = "plain" ->
                  /\ acks' = acks \cup {m}
                  /\ QueueRetry(m)
                  /\ audited' = IF m \in acks /\ retry[m].status # "none" THEN audited
                                ELSE audited \cup {m}
                  /\ UNCHANGED eyes)
    /\ Goto(p, AfterRun(p, FALSE))

\* An exception ends the run and releases the lock; the thread stays where its
\* last checkpoint left it.
RunRaises(p) ==
    /\ proc[p].pc \in {"gate", "load", "identify", "wait", "classify", "draft", "mark", "pause"}
    /\ Fault
    /\ Goto(p, IF p \in Tickers THEN "record" ELSE "lastresort")
    /\ Page(p)
    /\ Unlock(p)
    /\ RunUnchanged
    /\ UNCHANGED <<eyes, acks, retry, audited, drafted, linked, case, pending, thread, covered,
                   moved>>

\* _attempt_last_resort_needs_eyes.
LastResort(p) ==
    /\ At(p, "lastresort")
    /\ \/ NeedsEyes(p) /\ UNCHANGED faults
       \/ Fault /\ UNCHANGED eyes
    /\ Goto(p, "done")
    /\ RunUnchanged
    /\ UNCHANGED <<acks, retry, audited, drafted, linked, caseVars, covered, moved, paged>>

Run(p) ==
    \/ Gate(p) \/ LoadContext(p) \/ IdentifyCase(p) \/ TakeLock(p) \/ LockTimeout(p)
    \/ QueueAfterTimeout(p) \/ Classify(p) \/ DraftResponse(p) \/ MarkAwaitingApproval(p)
    \/ AwaitApproval(p) \/ HandleGenericDegraded(p) \/ HandleClassificationFailed(p)
    \/ LastResort(p)

-----------------------------------------------------------------------------
(* The retry sweep.                                                        *)

SweepUnchanged == UNCHANGED <<tier0, stored, letters, answered, calls, acks, drafted, linked,
                              caseVars, covered, moved, crashes>>

\* The next checkpoint of the schedule comes.
RetryDue(m) ==
    /\ retry[m].status = "pending" /\ ~retry[m].due
    /\ retry' = [retry EXCEPT ![m].due = TRUE]
    /\ SweepUnchanged
    /\ UNCHANGED <<eyes, audited, proc, paged, faults>>

SweepSelect(t, m) ==
    /\ At(t, "idle")
    /\ retry[m].status = "pending" /\ retry[m].due
    /\ proc' = [proc EXCEPT ![t] = [pc |-> "check", msg |-> m, saw |-> {},
                                    attempt |-> retry[m].attempt]]
    /\ SweepUnchanged
    /\ UNCHANGED <<eyes, retry, audited, paged, faults>>

\* _case_has_moved_on: the status is not what it was at the failure, or a newer
\* message of the tenant is on the case.
MovedOn(m) ==
    \/ case # retry[m].snapshot
    \/ \E j \in linked : j > m

\* Mutant: the row is written whatever has become of it.
StillHeldAlways(t) == TRUE
\* Every write of the sweep asserts the row as it was selected.
StillHeld(t) ==
    /\ retry[Msg(t)].status = "pending"
    /\ retry[Msg(t)].attempt = proc[t].attempt

\* The row's last word.
Close(t, word, attempt) ==
    retry' = [retry EXCEPT ![Msg(t)].status = "exhausted", ![Msg(t)].outcome = word,
                           ![Msg(t)].attempt = attempt, ![Msg(t)].due = FALSE]

Audit(t) == audited' = audited \cup {Msg(t)}

\* The re-animation guard.
Check(t) ==
    /\ At(t, "check")
    /\ IF ~MovedOn(Msg(t)) THEN Goto(t, "load") /\ UNCHANGED <<retry, audited>>
       ELSE /\ Goto(t, "idle")
            /\ IF StillHeld(t)
               THEN Close(t, "superseded", retry[Msg(t)].attempt) /\ Audit(t)
               ELSE UNCHANGED <<retry, audited>>
    /\ SweepUnchanged
    /\ UNCHANGED <<eyes, paged, faults>>

Resolve(t) ==
    /\ At(t, "resolve")
    /\ IF StillHeld(t) THEN Close(t, "resolved", retry[Msg(t)].attempt) /\ Audit(t)
       ELSE UNCHANGED <<retry, audited>>
    /\ Goto(t, "idle")
    /\ SweepUnchanged
    /\ UNCHANGED <<eyes, paged, faults>>

Escalate(t) ==
    /\ Close(t, "escalated", proc[t].attempt + 1)
    /\ NeedsEyes(t)
    /\ Audit(t)

\* Mutant: a failed attempt is not counted.
NextAttemptSame(attempt) == attempt
NextAttempt(attempt) == attempt + 1

\* The retry failed again: the next checkpoint, or the landlord.
Reschedule(t) ==
    LET attempt == NextAttempt(proc[t].attempt) IN
    /\ At(t, "reschedule")
    /\ IF ~StillHeld(t) THEN UNCHANGED <<retry, eyes, audited>>
       ELSE IF attempt < Len(RetrySchedule)
       THEN /\ retry' = [retry EXCEPT ![Msg(t)].attempt = attempt, ![Msg(t)].due = FALSE]
            /\ Audit(t)
            /\ UNCHANGED eyes
       ELSE Escalate(t)
    /\ Goto(t, "idle")
    /\ SweepUnchanged
    /\ UNCHANGED <<paged, faults>>

SettleError(t) ==
    /\ proc[t].pc \in {"check", "resolve", "reschedule"}
    /\ Fault
    /\ Goto(t, "record")
    /\ Page(t)
    /\ SweepUnchanged
    /\ UNCHANGED <<eyes, retry, audited>>

\* _record_candidate_exception: count it, escalate at the third.
RecordException(t) ==
    LET m == Msg(t)
        count == retry[m].exceptions + 1 IN
    /\ At(t, "record")
    /\ \/ /\ UNCHANGED faults
          /\ IF retry[m].status # "pending" THEN UNCHANGED <<retry, eyes, audited>>
             ELSE IF count >= MaxExceptions /\ StillHeld(t)
             THEN /\ retry' = [retry EXCEPT ![m].status = "exhausted", ![m].outcome = "escalated",
                                            ![m].attempt = proc[t].attempt + 1, ![m].due = FALSE,
                                            ![m].exceptions = count]
                  /\ NeedsEyes(t)
                  /\ Audit(t)
             ELSE retry' = [retry EXCEPT ![m].exceptions = count] /\ UNCHANGED <<eyes, audited>>
       \/ Fault /\ UNCHANGED <<retry, eyes, audited>>
    /\ Goto(t, "idle")
    /\ SweepUnchanged
    /\ UNCHANGED paged

Sweep(t) ==
    \/ \E m \in Messages : SweepSelect(t, m)
    \/ Check(t) \/ Resolve(t) \/ Reschedule(t) \/ RecordException(t)

-----------------------------------------------------------------------------
(* The landlord, and crashes.                                              *)

LandlordUnchanged == UNCHANGED <<tier0, rows, answered, lock, proc, covered, moved, paged, faults,
                                 crashes>>

\* The landlord decides on the card of the queue; an approved reply is sent.
Decide ==
    /\ case = "awaiting_approval" /\ pending # 0 /\ lock = Free
    /\ case' \in {"awaiting_tenant", "open"}
    /\ pending' = 0
    /\ thread' = "ended"
    /\ LandlordUnchanged

ResolveCase ==
    /\ case # "resolved"
    /\ case' = "resolved"
    /\ pending' = 0
    /\ LandlordUnchanged
    /\ UNCHANGED thread

\* The machine dies.  Nobody resumes a background task; a ticker starts over.
Crash(p) ==
    /\ proc[p].pc \notin {"unsent", "idle", "done", "skipped", "failed"}
    /\ crashes < MaxCrash /\ crashes' = crashes + 1
    /\ Goto(p, IF p \in Tickers THEN "idle" ELSE "failed")
    /\ Unlock(p)
    /\ UNCHANGED <<tier0, rows, answered, case, pending, thread, seenVars, faults>>

Next ==
    \/ \E p \in Deliveries : Deliver(p) \/ Webhook(p) \/ WebhookError(p)
    \/ \E p \in Procs : Run(p) \/ RunRaises(p) \/ Crash(p)
    \/ \E m \in Messages : RetryDue(m)
    \/ \E t \in Tickers : Sweep(t) \/ SettleError(t)
    \/ Decide \/ ResolveCase

Spec == Init /\ [][Next]_vars

\* Requests and background tasks run until they end, the ticker keeps ticking,
\* checkpoints come.  Twilio need not deliver again, the landlord need not act.
Fairness ==
    /\ \A p \in Deliveries : WF_vars(Webhook(p)) /\ WF_vars(Run(p))
    /\ \A t \in Tickers : WF_vars(Sweep(t) \/ Run(t))
    /\ \A m \in Messages : WF_vars(RetryDue(m))

-----------------------------------------------------------------------------
(* Properties.                                                             *)

\* The rows and the control states have their types.
TypeOK ==
    /\ tier0 \in [Messages -> Tier0]
    /\ stored \subseteq Messages /\ letters \subseteq Messages /\ answered \subseteq Messages
    /\ calls \subseteq stored /\ eyes \subseteq stored /\ acks \subseteq stored
    /\ audited \subseteq stored /\ drafted \subseteq stored /\ linked \subseteq stored
    /\ retry \in [Messages ->
          [status : {"none", "pending", "exhausted"},
           outcome : {"none", "superseded", "resolved", "escalated"},
           attempt : 0..Len(RetrySchedule), due : BOOLEAN, exceptions : Nat,
           snapshot : {"none", "open", "awaiting_approval", "awaiting_tenant", "resolved",
                       "reopened"}]]
    /\ case \in {"open", "awaiting_approval", "awaiting_tenant", "resolved", "reopened"}
    /\ pending \in 0..MaxMessage
    /\ thread \in {"new", "running", "paused", "ended"}
    /\ lock \in Procs \cup {Free}
    /\ proc \in [Procs ->
          [pc : {"unsent", "store", "artifacts", "respond", "failed", "gate", "load", "identify",
                 "wait", "queue", "classify", "draft", "mark", "pause", "generic", "degrade",
                 "lastresort", "skipped", "done", "idle", "check", "resolve", "reschedule",
                 "record"},
           msg : Messages, saw : SUBSET Messages, attempt : 0..Len(RetrySchedule)]]
    /\ covered \subseteq stored /\ moved \subseteq stored /\ paged \subseteq Messages
    /\ faults \in 0..MaxFault /\ crashes \in 0..MaxCrash

\* Twilio is told 200, and gives the message up, only when the message is
\* durable and, after a HARD hit, so is its emergency.
AcceptedMeansRecorded ==
    \A m \in answered :
        IF tier0[m] = "unrouted" THEN m \in letters
        ELSE m \in stored /\ (tier0[m] = "hard" => m \in calls)

\* What a sweep has said of a retry is the last word on it: overlapping ticks
\* never escalate a message that was resolved, nor the other way round.
OutcomeIsFinal ==
    [][\A m \in Messages : retry[m].status = "exhausted" =>
          retry'[m].status = "exhausted" /\ retry'[m].outcome = retry[m].outcome]_vars

\* A retry counts as resolved only when a run has drafted a reply that knew its
\* message, or the message has gone to a case of its own.
ResolvedMeansDrafted ==
    \A m \in Messages : retry[m].outcome = "resolved" => m \in covered \cup moved

InFrontOfLandlord(m) == m \in covered \cup eyes \cup calls

\* The retries of a message come to an end, whatever fails or times out.
RetryLadderEnds == \A m \in Messages : retry[m].status = "pending" ~> retry[m].status = "exhausted"

\* As long as the database works, a message that was accepted ends up in front
\* of the landlord, however often classification fails or the lock is taken.
LandlordFindsOut ==
    \A m \in Messages :
        (m \in answered /\ m \in stored)
            ~> (InFrontOfLandlord(m) \/ m \in moved \/ retry[m].outcome = "superseded"
                \/ faults > 0)

\* When the database fails as well, somebody knows: the landlord or, by a
\* report, the operators.
NobodyLeftInTheDark ==
    \A m \in Messages :
        (m \in answered /\ m \in stored)
            ~> (InFrontOfLandlord(m) \/ m \in paged \/ m \in moved
                \/ retry[m].outcome = "superseded")

\* What emergency-prefilter.md and graph_entry.py promise: a message whose
\* classification failed, or never got its turn, is retried until the landlord
\* is told, unless a newer message or the case's resolution made it moot.
RetriedUntilSeen ==
    [][\A m \in Messages :
          (retry[m].outcome = "none" /\ retry'[m].outcome = "superseded")
              => \/ InFrontOfLandlord(m)
                 \/ case = "resolved"
                 \/ \E j \in linked : j > m]_vars
=============================================================================
