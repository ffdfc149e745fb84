--------------------------- MODULE EmergencyChain ---------------------------
(***************************************************************************)
(* The emergency escalation chain of app/agent/emergency_chain.py: one     *)
(* emergency_call row, the emergency_sms row born with its step 0, and the *)
(* processes that work on them: the webhook's instant T+0 attempt (Inline) *)
(* and one 60-second ticker per running machine (Tickers; two of them      *)
(* overlap while a deploy replaces a machine).                             *)
(*                                                                         *)
(* Every database transaction and every Twilio request is one step.  Time  *)
(* is counted in minutes since the emergency_call row was created.         *)
(* All statements are keyed by this row's id or its message_id, so chains  *)
(* of different messages do not touch each other's rows.                   *)
(***************************************************************************)
EXTENDS Naturals, Sequences

CONSTANTS
    Tickers,      \* the scheduler tickers that may run
    Inline,       \* the webhook request that fires T+0
    Reachable,    \* the possible contact configurations, subsets of Contact
    MaxStep,      \* bound: steps the chain may claim
    MaxSlot,      \* bound: claims of the emergency_sms row
    MaxNow,       \* bound: minutes that may pass
    MaxFault      \* bound: failed requests, database errors and crashes

Contact == {"number", "landlord", "backup", "tenant"}
Procs == Tickers \cup {Inline}

ASSUME ChainAssumption ==
    /\ Inline \notin Tickers
    /\ Reachable \subseteq SUBSET Contact
    /\ MaxStep \in Nat
    /\ MaxSlot \in Nat
    /\ MaxNow \in Nat
    /\ MaxFault \in Nat

VARIABLES
    call,      \* emergency_call row: status of the row
    attempt,   \* emergency_call row: the step that is claimed next
    next,      \* emergency_call row: next_attempt_at
    sms,       \* emergency_sms row: status
    slot,      \* emergency_sms row: attempt, the claim counter
    reach,     \* the phone numbers on record
    now,       \* minutes since the chain's start
    pc,        \* per process: control state
    old,       \* per process: the attempt it read, then the step it runs
    pos,       \* per process: position in the step's actions
    mine,      \* per process: the emergency_sms claim counter it read or won
    out,       \* per process: outcome of its safety text
    placed,    \* placed[s][k]: requests made for the k-th action of step s
    audit,     \* audit[s]: emergency_call_attempt rows of step s
    acks,      \* 'acknowledged' audit rows
    sends,     \* sends[k]: safety texts Twilio accepted under claim k
    faults     \* faults that have happened

rowVars == <<call, attempt, next, sms, slot, acks, audit>>
envVars == <<reach, now, faults>>
obsVars == <<placed, sends>>
vars == <<call, attempt, next, sms, slot, acks, audit, reach, now, faults,
          pc, old, pos, mine, out, placed, sends>>

-----------------------------------------------------------------------------
(* The schedule and the actions of each step.                              *)

Offsets == <<0, 2, 5, 10, 15, 20>>
RepeatInterval == 15

\* Minutes from the chain's start at which attempt a is due.
NextOffset(a) ==
    IF a < Len(Offsets)
    THEN Offsets[a + 1]
    ELSE Offsets[Len(Offsets)] + (a - Len(Offsets) + 1) * RepeatInterval

\* The contacts step s asks for, in order.
ActionsForStep(s) ==
    CASE s = 0 -> <<"landlord_call", "tenant_safety_sms">>
      [] s = 1 -> <<"landlord_sms">>
      [] s = 2 -> <<"landlord_call">>
      [] s = 3 -> <<"backup_call", "backup_sms">>
      [] s = 4 -> <<"landlord_call", "tenant_status_sms">>
      [] OTHER -> <<"landlord_call", "backup_call", "backup_sms">>

ContactOf(action) ==
    CASE action \in {"landlord_call", "landlord_sms"} -> "landlord"
      [] action \in {"backup_call", "backup_sms"} -> "backup"
      [] OTHER -> "tenant"

\* An action without a from-number or a phone is recorded as skipped.
CanContact(action) == {"number", ContactOf(action)} \subseteq reach

Steps == 0..MaxStep
MaxActions == 3
Working == {"act", "smsread", "smscas", "smssend"}

\* Mutant: a failed text is not looked at again.
SmsOpenPendingOnly == {"pending"}
\* The statuses of an emergency_sms row that is still to be sent.
SmsOpen == {"pending", "failed"}

-----------------------------------------------------------------------------
Init ==
    /\ call = "none" /\ attempt = 0 /\ next = 0
    /\ sms = "none" /\ slot = 0
    /\ acks = 0
    /\ audit = [s \in Steps |-> 0]
    /\ reach \in Reachable
    /\ now = 0
    /\ faults = 0
    /\ pc = [p \in Procs |-> "idle"]
    /\ old = [p \in Procs |-> 0]
    /\ pos = [p \in Procs |-> 1]
    /\ mine = [p \in Procs |-> 0]
    /\ out = [p \in Procs |-> "skipped"]
    /\ placed = [s \in Steps |-> [k \in 1..MaxActions |-> 0]]
    /\ sends = [k \in 1..MaxSlot |-> 0]

\* Mutant: the ticker does not survive the step it ran.
AfterStepTickerStops(p) == "done"
\* A ticker that is done with the step goes on to the drain sweep of its tick.
AfterStep(p) == IF p = Inline THEN "done" ELSE "drain"

Goto(p, label) == pc' = [pc EXCEPT ![p] = label]

\* The webhook inserts the row, due at once, and fires the protocol.
CreateEmergency ==
    /\ call = "none"
    /\ call' = "pending"
    /\ next' = 0
    /\ Goto(Inline, "claim")
    /\ UNCHANGED <<attempt, sms, slot, acks, audit, envVars, old, pos, mine, out, obsVars>>

\* Mutant: next_attempt_at is not compared with the clock.
DueAlways == call = "pending"
\* _SELECT_DUE_EMERGENCY_CALLS_SQL.
Due == call = "pending" /\ next <= now

\* One tick starts: SELECT the due row.
SweepSelect(t) ==
    /\ pc[t] = "idle"
    /\ Goto(t, IF Due THEN "claim" ELSE "drain")
    /\ old' = [old EXCEPT ![t] = attempt]
    /\ UNCHANGED <<rowVars, envVars, pos, mine, out, obsVars>>

\* Mutants: the claim does not compare attempt; it does not look at the ack.
WinsStepNoCas(p) == call = "pending"
WinsStepIgnoringAck(p) == attempt = old[p]
\* _CLAIM_STEP_SQL's WHERE clause.
WinsStep(p) == call = "pending" /\ attempt = old[p]

\* The claim moves the row to its next step and due time, with step 0's
\* emergency_sms insert in the same transaction, before any request is made.
ClaimStep(p) ==
    /\ pc[p] = "claim"
    /\ WinsStep(p) /\ attempt < MaxStep
    /\ attempt' = old[p] + 1
    /\ next' = NextOffset(old[p] + 1)
    /\ sms' = IF old[p] = 0 THEN "pending" ELSE sms
    /\ Goto(p, "act")
    /\ pos' = [pos EXCEPT ![p] = 1]
    /\ out' = [out EXCEPT ![p] = "skipped"]
    /\ UNCHANGED <<call, slot, acks, audit, envVars, old, mine, obsVars>>

LostRace(p) ==
    /\ pc[p] = "claim"
    /\ ~WinsStep(p) \/ attempt = MaxStep
    /\ Goto(p, AfterStep(p))
    /\ UNCHANGED <<rowVars, envVars, old, pos, mine, out, obsVars>>

CurrentAction(p) == ActionsForStep(old[p])[pos[p]]
HasAction(p) == pos[p] <= Len(ActionsForStep(old[p]))

\* One call or text to landlord, backup or tenant; a failure is swallowed, so
\* the request being made is all that matters.
PlaceContact(p) ==
    /\ pc[p] = "act"
    /\ HasAction(p) /\ CurrentAction(p) # "tenant_safety_sms"
    /\ placed' = IF CanContact(CurrentAction(p))
                 THEN [placed EXCEPT ![old[p]][pos[p]] = @ + 1]
                 ELSE placed
    /\ pos' = [pos EXCEPT ![p] = @ + 1]
    /\ UNCHANGED <<rowVars, envVars, pc, old, mine, out, sends>>

\* The safety text goes out only under a claim of the emergency_sms row.
SafetySms(p) ==
    /\ pc[p] = "act"
    /\ HasAction(p) /\ CurrentAction(p) = "tenant_safety_sms"
    /\ IF CanContact("tenant_safety_sms")
       THEN Goto(p, "smsread") /\ UNCHANGED pos
       ELSE pos' = [pos EXCEPT ![p] = @ + 1] /\ UNCHANGED pc
    /\ UNCHANGED <<rowVars, envVars, old, mine, out, obsVars>>

\* Outcome r of the safety text; the step goes on with its next action.
SmsOutcome(p, r) ==
    /\ Goto(p, "act")
    /\ out' = [out EXCEPT ![p] = r]
    /\ pos' = [pos EXCEPT ![p] = @ + 1]

\* _claim_emergency_sms_for_send reads the claim counter ...
SmsRead(p) ==
    /\ pc[p] = "smsread"
    /\ mine' = [mine EXCEPT ![p] = slot]
    /\ IF sms \in SmsOpen
       THEN Goto(p, "smscas") /\ UNCHANGED <<pos, out>>
       ELSE SmsOutcome(p, "skipped")
    /\ UNCHANGED <<rowVars, envVars, old, obsVars>>

\* Mutant: the claim does not compare the counter it read.
WinsSlotNoCas(p) == sms \in SmsOpen /\ slot < MaxSlot
\* _CLAIM_SMS_DRAIN_SQL on behalf of p: the counter moves, the status stays.
WinsSlot(p) == sms \in SmsOpen /\ slot = mine[p] /\ slot < MaxSlot

TakeSlot(p) ==
    /\ slot' = mine[p] + 1
    /\ mine' = [mine EXCEPT ![p] = @ + 1]

\* ... and compares-and-swaps it; the loser skips the text.
SmsCas(p) ==
    /\ pc[p] = "smscas"
    /\ IF WinsSlot(p)
       THEN TakeSlot(p) /\ Goto(p, "smssend") /\ UNCHANGED <<pos, out>>
       ELSE SmsOutcome(p, "skipped") /\ UNCHANGED <<slot, mine>>
    /\ UNCHANGED <<call, attempt, next, sms, acks, audit, envVars, old, obsVars>>

Accepted(p) == sends' = [sends EXCEPT ![mine[p]] = @ + 1]

Fault == faults < MaxFault /\ faults' = faults + 1

SmsSendOk(p) ==
    /\ pc[p] = "smssend"
    /\ Accepted(p)
    /\ SmsOutcome(p, "sent")
    /\ UNCHANGED <<rowVars, envVars, old, mine, placed>>

\* Any exception while the text is claimed or sent is recorded as failed; a
\* request that timed out may have been accepted all the same.
SmsFails(p) ==
    /\ pc[p] \in {"smsread", "smscas", "smssend"}
    /\ Fault
    /\ SmsOutcome(p, "failed")
    /\ \/ UNCHANGED sends
       \/ pc[p] = "smssend" /\ Accepted(p)
    /\ UNCHANGED <<rowVars, reach, now, old, mine, placed>>

\* The closing transaction: the attempt's audit row and, for step 0, the
\* status of the emergency_sms row.
FinishStep(p) ==
    /\ pc[p] = "act" /\ ~HasAction(p)
    /\ audit' = [audit EXCEPT ![old[p]] = @ + 1]
    /\ sms' = IF old[p] = 0 /\ out[p] # "skipped" /\ sms \in SmsOpen
              THEN out[p] ELSE sms
    /\ Goto(p, AfterStep(p))
    /\ UNCHANGED <<call, attempt, next, slot, acks, envVars, old, pos, mine, out, obsVars>>

\* _run_candidate_safely: a database error abandons the step, the tick goes on.
StepError(p) ==
    /\ pc[p] = "claim" \/ (pc[p] = "act" /\ ~HasAction(p))
    /\ Fault
    /\ Goto(p, AfterStep(p))
    /\ UNCHANGED <<rowVars, reach, now, old, pos, mine, out, obsVars>>

-----------------------------------------------------------------------------
(* The drain sweep's emergency_sms pass.                                   *)

DrainSelect(t) ==
    /\ pc[t] = "drain"
    /\ Goto(t, IF sms \in SmsOpen THEN "drainclaim" ELSE "idle")
    /\ mine' = [mine EXCEPT ![t] = slot]
    /\ UNCHANGED <<rowVars, envVars, old, pos, out, obsVars>>

DrainClaim(t) ==
    /\ pc[t] = "drainclaim"
    /\ IF WinsSlot(t)
       THEN /\ TakeSlot(t)
            /\ Goto(t, IF CanContact("tenant_safety_sms") THEN "drainsend" ELSE "drainexhaust")
       ELSE Goto(t, "idle") /\ UNCHANGED <<slot, mine>>
    /\ UNCHANGED <<call, attempt, next, sms, acks, audit, envVars, old, pos, out, obsVars>>

DrainSendOk(t) ==
    /\ pc[t] = "drainsend"
    /\ Accepted(t)
    /\ Goto(t, "drainsent")
    /\ UNCHANGED <<rowVars, envVars, old, pos, mine, out, placed>>

DrainSendFails(t) ==
    /\ pc[t] = "drainsend"
    /\ Fault
    /\ UNCHANGED sends \/ Accepted(t)
    /\ Goto(t, "drainfailed")
    /\ UNCHANGED <<rowVars, reach, now, old, pos, mine, out, placed>>

\* Mutant: a failed send is written as sent.
DrainResultOptimistic(label) == IF label = "drainexhaust" THEN "exhausted" ELSE "sent"
\* The status a drain outcome writes, by id alone.
DrainResult(label) ==
    CASE label = "drainsent" -> "sent"
      [] label = "drainfailed" -> "failed"
      [] label = "drainexhaust" -> "exhausted"

DrainMark(t) ==
    /\ pc[t] \in {"drainsent", "drainfailed", "drainexhaust"}
    /\ sms' = DrainResult(pc[t])
    /\ Goto(t, "idle")
    /\ UNCHANGED <<call, attempt, next, slot, acks, audit, envVars, old, pos, mine, out, obsVars>>

\* _run_sms_drain_candidate_safely: a database error ends this candidate.
DrainError(t) ==
    /\ pc[t] \in {"drain", "drainclaim", "drainsent", "drainfailed", "drainexhaust"}
    /\ Fault
    /\ Goto(t, "idle")
    /\ UNCHANGED <<rowVars, reach, now, old, pos, mine, out, obsVars>>

-----------------------------------------------------------------------------
\* The first acknowledgment stamps the row and writes its audit row, a later one
\* changes nothing.
Acknowledge ==
    /\ call = "pending"
    /\ call' = "acknowledged"
    /\ acks' = acks + 1
    /\ UNCHANGED <<attempt, next, sms, slot, audit, envVars, pc, old, pos, mine, out, obsVars>>

\* Some step has made a request of these kinds.
Requested(kinds) ==
    \E s \in Steps, k \in 1..MaxActions :
        placed[s][k] > 0 /\ k <= Len(ActionsForStep(s)) /\ ActionsForStep(s)[k] \in kinds

\* The dashboard shows the emergency from the start; "1" is pressed in a call,
\* of whichever step; the link came with an alert and is opened by a tap.
AckOnDashboard == Acknowledge
PressKey == Requested({"landlord_call", "backup_call"}) /\ Acknowledge
OpenLink == Requested({"landlord_sms", "backup_sms"}) /\ Acknowledge
Answered == AckOnDashboard \/ PressKey \/ OpenLink

\* The machine dies: a request is gone, a ticker starts over.
Crash(p) ==
    /\ pc[p] \notin {"idle", "done"}
    /\ Fault
    /\ Goto(p, IF p = Inline THEN "done" ELSE "idle")
    /\ UNCHANGED <<rowVars, reach, now, old, pos, mine, out, obsVars>>

Minute ==
    /\ call # "none" /\ now < MaxNow
    /\ now' = now + 1
    /\ UNCHANGED <<rowVars, reach, faults, pc, old, pos, mine, out, obsVars>>

Handle(p) ==
    \/ ClaimStep(p) \/ LostRace(p)
    \/ PlaceContact(p) \/ SafetySms(p)
    \/ SmsRead(p) \/ SmsCas(p) \/ SmsSendOk(p)
    \/ FinishStep(p)

Tick(t) ==
    \/ SweepSelect(t)
    \/ DrainSelect(t) \/ DrainClaim(t) \/ DrainSendOk(t) \/ DrainMark(t)

Next ==
    \/ CreateEmergency \/ Answered \/ Minute
    \/ \E p \in Procs : Handle(p) \/ SmsFails(p) \/ StepError(p) \/ Crash(p)
    \/ \E t \in Tickers : Tick(t) \/ DrainSendFails(t) \/ DrainError(t)

Spec == Init /\ [][Next]_vars

\* The ticker task is restarted whenever it dies, so a live machine keeps
\* ticking; requests run until they return; the clock does not stop.
FairSpec ==
    /\ Spec
    /\ WF_vars(CreateEmergency)
    /\ WF_vars(Minute)
    /\ \A p \in Procs : WF_vars(Handle(p))
    /\ \A t \in Tickers : WF_vars(Tick(t))

-----------------------------------------------------------------------------
(* Properties.                                                             *)

\* The rows, the per-process control state and the observations have their
\* types; a process that runs a step has a step of the chain.
TypeOK ==
    /\ call \in {"none", "pending", "acknowledged"}
    /\ attempt \in Steps
    /\ next \in Nat
    /\ sms \in {"none", "pending", "failed", "sent", "exhausted"}
    /\ slot \in 0..MaxSlot
    /\ acks \in Nat
    /\ audit \in [Steps -> Nat]
    /\ reach \in Reachable
    /\ now \in 0..MaxNow
    /\ faults \in 0..MaxFault
    /\ pc \in [Procs -> {"idle", "claim", "done", "drain", "drainclaim", "drainsend",
                         "drainsent", "drainfailed", "drainexhaust"} \cup Working]
    /\ old \in [Procs -> Steps]
    /\ pos \in [Procs -> 1..(MaxActions + 1)]
    /\ mine \in [Procs -> 0..MaxSlot]
    /\ out \in [Procs -> {"skipped", "sent", "failed"}]
    /\ placed \in [Steps -> [1..MaxActions -> Nat]]
    /\ sends \in [1..MaxSlot -> Nat]

\* However the T+0 request, overlapping tickers and crashes interleave, no
\* contact of any step is requested twice and no step is audited twice
\* (_CLAIM_STEP_SQL claims each step before any Twilio request).
EachStepOnce ==
    \A s \in Steps :
        /\ audit[s] <= 1
        /\ \A k \in 1..MaxActions : placed[s][k] <= 1

\* No step runs before its minute of the documented schedule, and a late tick
\* does not push the later steps back: the row is due at the offset of its
\* attempt from the chain's start, never from the tick that claimed it.
OnSchedule ==
    /\ call # "none" => next = NextOffset(attempt)
    /\ \A s \in Steps : s < attempt => NextOffset(s) <= now

\* Each claim of the emergency_sms row pays for at most one safety text, no
\* matter which of the T+0 path and the drain sweeps wins it.
OneTextPerClaim == \A k \in 1..MaxSlot : sends[k] <= 1

Delivered == \E k \in 1..MaxSlot : sends[k] > 0

\* The row says 'sent' only when Twilio took the text: no interleaving of
\* the two writers lets an undelivered text leave the retry set as sent.
SentMeansDelivered == sms = "sent" => Delivered

\* The safety text is given up only when there is no number to send it to.
ExhaustedMeansUnreachable == sms = "exhausted" => ~CanContact("tenant_safety_sms")

\* An acknowledgment is final and is recorded once; from then on no step is
\* claimed, so only a step already claimed can still contact anyone.
AckFinal ==
    [][call = "acknowledged" => /\ call' = "acknowledged" /\ attempt' = attempt
                                /\ acks' = acks]_vars

\* What the comments of emergency_chain.py promise ("NEVER send twice"): one
\* emergency gives the tenant at most one safety text.
NeverSendTwice ==
    \A j, k \in 1..MaxSlot : sends[j] > 0 /\ sends[k] > 0 => j = k

\* Once step 0 is claimed the safety text gets out, whatever single requests
\* fail, wherever the webhook or the ticker dies, and even if the landlord
\* acknowledges in the meantime.
SafetyTextDelivered ==
    (attempt > 0 /\ CanContact("tenant_safety_sms")) ~> Delivered

\* An unacknowledged chain never goes silent: step after step is claimed.
KeepsEscalating ==
    \A s \in Steps : (call = "pending" /\ attempt = s /\ NextOffset(s) <= MaxNow /\ s < MaxStep)
                         ~> (attempt > s \/ call = "acknowledged")
=============================================================================
