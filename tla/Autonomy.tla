------------------------------- MODULE Autonomy -------------------------------
(***************************************************************************)
(* When a reply may go out without the landlord: classification            *)
(* (nodes/classify_severity.py), drafting with its guards (nodes/          *)
(* draft_response.py), the routing after it (agent/graph.py), the          *)
(* auto-send node (nodes/auto_send.py), and the trust ladder that sends    *)
(* climb (agent/draft_sender.py) and a revocation ends (trust.py).         *)
(*                                                                         *)
(* The cases of a property share its trust row and nothing else: each has  *)
(* a lock of its own.  What degraded_mode and mark_awaiting_approval do is *)
(* modelled in Intake and DraftFlow; here a run that does not send by      *)
(* itself is over.                                                         *)
(***************************************************************************)
EXTENDS Naturals, Sequences, FiniteSets

CONSTANTS
    MaxRequest,  \* bound: messages of tenants
    CaseOf,      \* the case of each
    PropertyOf,  \* the property of each case
    Threshold,   \* settings.trust_graduation_threshold
    Cap          \* settings.auto_send_daily_case_cap

Requests == 1..MaxRequest
RatedCases == DOMAIN PropertyOf
RatedProperties == {PropertyOf[c] : c \in RatedCases}

ASSUME AutonomyAssumption ==
    /\ MaxRequest \in Nat \ {0}
    /\ CaseOf \in [Requests -> RatedCases]
    /\ Threshold \in Nat \ {0} /\ Cap \in Nat \ {0}

VARIABLES
    request,  \* per message: its run, the Tier 0 verdict, its severity
    reply,    \* per message: the draft its run wrote
    rated,    \* cases.severity
    trust,    \* per property: its trust_metrics row for 'routine'
    today,    \* messages with an auto_sent audit row of the last 24 hours
    ledger,   \* per property: routine sends since the last revocation
    alarmed,  \* cases with a message that was taken for an emergency
    classified \* per case: its newest 'classified' audit rows

trustVars == <<request, reply, rated, trust, today, ledger, alarmed, classified>>

Severities == {"routine", "urgent", "emergency"}
NoReply == [status |-> "none", text |-> "none", auto |-> FALSE, edited |-> FALSE,
            saw |-> "none"]
\* Of a draft that is stale, rejected, cancelled, sent or stuck at 'sending'
\* nothing is asked any more.
Gone == [NoReply EXCEPT !.status = "gone"]

\* Of the audit rows, what the queue may look at: the message of the newest one
\* with a severity, and whether the newest of all is an intent's.
NoRows == [severity |-> 0, newest |-> "none"]

\* A ladder somewhere below its top, or at it.
Climbed(k) == [unlocked |-> k = Threshold, revoked |-> FALSE, streak |-> k]

AutonomyInit ==
    /\ request \in [Requests -> [pc : {"new"}, hard : BOOLEAN, severity : {"none"}]]
    /\ reply = [m \in Requests |-> NoReply]
    /\ rated = [c \in RatedCases |-> "none"]
    /\ \E start \in [RatedProperties -> 0..Threshold] :
         /\ trust = [p \in RatedProperties |-> Climbed(start[p])]
         /\ ledger = [p \in RatedProperties |-> [i \in 1..start[p] |-> "clean"]]
    /\ today = {} /\ alarmed = {}
    /\ classified = [c \in RatedCases |-> NoRows]

Landlady(m) == PropertyOf[CaseOf[m]]
Siblings(m) == {d \in Requests : CaseOf[d] = CaseOf[m]}
\* The per-case advisory lock, which runs and decisions take.
CaseLockFree(m) == \A d \in Siblings(m) : request[d].pc \in {"new", "done"}
Waiting(m) == {d \in Siblings(m) : reply[d].status = "pending"}

-----------------------------------------------------------------------------
(* The run of a message.                                                   *)

\* Two attempts on one budget: the second follows a failure, if there is time.
Attempts(Good, Bad) ==
    {<<x>> : x \in Good \cup Bad} \cup {<<b, x>> : b \in Bad, x \in Good \cup Bad}
Outcome(tries) == tries[Len(tries)]

\* A HARD hit stays an emergency whatever the model says.
Clamp(hard, severity) == IF hard THEN "emergency" ELSE severity

\* Mutant: the latest classification is the case's.
RateLatest(before, severity) == severity
\* _UPDATE_CASE_SEVERITY_SQL: an emergency is not downgraded.
Rate(before, severity) == IF before = "emergency" THEN before ELSE severity

\* classify_intent blocks nothing.  An intent leaves an audit row, and so does a
\* failure that cost something.
ClassifyIntent(m) ==
    /\ request[m].pc = "new" /\ CaseLockFree(m)
    /\ \A earlier \in 1..(m - 1) : request[earlier].pc # "new"
    /\ request' = [request EXCEPT ![m].pc = "rate"]
    /\ \E answer \in {Outcome(tries) : tries \in Attempts({"intent"}, {"error", "billed"})} :
         classified' = IF answer = "error" THEN classified
                       ELSE [classified EXCEPT ![CaseOf[m]].newest = "intent"]
    /\ UNCHANGED <<reply, rated, trust, today, ledger, alarmed>>

\* _insert_classified_audit: the row and the case's severity in one transaction.
Recorded(m, severity) ==
    /\ classified' = [classified EXCEPT ![CaseOf[m]] = [severity |-> m, newest |-> "severity"]]
    /\ rated' = [rated EXCEPT ![CaseOf[m]] = Rate(@, severity)]

\* classify_severity.
Classify(m) ==
    /\ request[m].pc = "rate"
    /\ \E answer \in {Outcome(tries) : tries \in Attempts(Severities, {"error"})} :
         LET severity == Clamp(request[m].hard, answer) IN
         IF answer = "error"
         THEN /\ request' = [request EXCEPT ![m].pc = "done"]
              /\ UNCHANGED <<rated, alarmed, classified>>
         ELSE /\ request' = [request EXCEPT ![m].pc = "draft", ![m].severity = severity]
              /\ Recorded(m, severity)
              /\ alarmed' = IF severity = "emergency" \/ request[m].hard
                            THEN alarmed \cup {CaseOf[m]} ELSE alarmed
    /\ UNCHANGED <<reply, trust, today, ledger>>

\* Mutant: the last text goes out as it is.
AcknowledgmentLast(tries) ==
    LET texts == SelectSeq(tries, LAMBDA t : t # "error") IN
    IF texts = <<>> THEN "fallback" ELSE IF texts[Len(texts)] = "unsafe" THEN "unsafe" ELSE "own"
\* What the two attempts leave: a clean text, or the last text if all that is
\* wrong with it is its length, or else the standard reply.
Acknowledgment(tries) ==
    LET texts == SelectSeq(tries, LAMBDA t : t # "error") IN
    IF texts # <<>> /\ texts[Len(texts)] # "unsafe" THEN "own" ELSE "fallback"

\* What asks for a second attempt: no answer, one that is too long, and one with
\* words that a hard guard refuses: money, access codes, legal positions, unsafe heat.
Retried == {"error", "long", "unsafe"}

\* draft_response: earlier automatic approvals of the case are cancelled, its
\* pending draft goes stale.
DraftResponse(m) ==
    /\ request[m].pc = "draft"
    /\ \E words \in {Acknowledgment(tries) : tries \in Attempts({"clean"}, Retried)} :
         reply' = [d \in Requests |->
             CASE d = m -> [NoReply EXCEPT !.status = "pending", !.text = words]
               [] d \in Waiting(m) \ {m} -> Gone
               [] d \in Siblings(m) \ {m} /\ reply[d].status = "approved" /\ reply[d].auto -> Gone
               [] OTHER -> reply[d]]
    /\ request' = [request EXCEPT ![m].pc = "route"]
    /\ UNCHANGED <<rated, trust, today, ledger, alarmed, classified>>

\* Mutant: only what went out, or will, is counted.
CountedLive(c) == {m \in today : CaseOf[m] = c /\ reply[m] # Gone}
\* auto_sent_count_last_24h: audit rows, whatever became of the drafts.
Counted(c) == {m \in today : CaseOf[m] = c}

\* is_routine_autonomy_unlocked.
Unlocked(p) == trust[p].unlocked /\ ~trust[p].revoked

\* Only a routine message with a draft of the model's own is considered.
MayAutoSend(m) == reply[m].text = "own" /\ request[m].severity = "routine"

\* _route_after_draft_response; a read that fails counts against sending.
RouteAfterDraft(m) ==
    /\ request[m].pc = "route"
    /\ \/ /\ MayAutoSend(m)
          /\ Unlocked(Landlady(m)) /\ Cardinality(Counted(CaseOf[m])) < Cap
          /\ request' = [request EXCEPT ![m].pc = "auto"]
       \/ request' = [request EXCEPT ![m].pc = "done"]
    /\ UNCHANGED <<reply, rated, trust, today, ledger, alarmed, classified>>

\* _AUTO_SEND_DRAFT_SQL looks again.
StillEarned(m) == rated[CaseOf[m]] = "routine" /\ Unlocked(Landlady(m))

\* auto_send_draft approves the case's pending draft.
AutoSendDraft(m) ==
    /\ request[m].pc = "auto"
    /\ request' = [request EXCEPT ![m].pc = "done"]
    /\ IF Waiting(m) # {} /\ StillEarned(m)
       THEN \E d \in Waiting(m) :
              /\ reply' = [reply EXCEPT ![d].status = "approved", ![d].auto = TRUE,
                                        ![d].edited = FALSE]
              /\ today' = today \cup {d}
       ELSE UNCHANGED <<reply, today>>
    /\ UNCHANGED <<rated, trust, ledger, alarmed, classified>>

\* A raise, or the death of the process: the lock goes with the session.
RequestDies(m) ==
    /\ request[m].pc \in {"rate", "draft", "route", "auto"}
    /\ request' = [request EXCEPT ![m].pc = "done"]
    /\ UNCHANGED <<reply, rated, trust, today, ledger, alarmed, classified>>

-----------------------------------------------------------------------------
(* The landlord and the sender.                                            *)

ReplyOnly == UNCHANGED <<request, rated, trust, today, ledger, alarmed, classified>>

\* Approve, or edit and send.
ApproveReply(m) ==
    /\ reply[m].status = "pending" /\ CaseLockFree(m)
    /\ \E edited \in BOOLEAN :
         reply' = [reply EXCEPT ![m].status = "approved", ![m].edited = edited]
    /\ ReplyOnly

\* Reject; undo, which needs the case to have no pending draft; a cancellation.
WithdrawReply(m) ==
    /\ \/ /\ reply[m].status = "pending" /\ CaseLockFree(m)
          /\ reply' = [reply EXCEPT ![m] = Gone]
       \/ /\ reply[m].status = "approved" /\ Waiting(m) = {}
          /\ reply' = [reply EXCEPT ![m].status = "pending"]
       \/ /\ reply[m].status = "approved"
          /\ reply' = [reply EXCEPT ![m] = Gone]
    /\ ReplyOnly

\* The sender claims a due draft and then reads its case.
ClaimReply(m) ==
    /\ reply[m].status = "approved"
    /\ reply' = [reply EXCEPT ![m].status = "sending", ![m].saw = rated[CaseOf[m]]]
    /\ ReplyOnly

\* _UPSERT_TRUST_METRICS_SQL.
Credited(row, edited) == [row EXCEPT !.streak = IF edited THEN 0 ELSE @ + 1]

\* _GRADUATE_ROUTINE_TRUST_SQL, after a clean send.
Graduated(row, edited) ==
    IF ~edited /\ row.streak >= Threshold /\ ~row.unlocked
    THEN [row EXCEPT !.unlocked = TRUE, !.revoked = FALSE] ELSE row

\* The bookkeeping of a completed send, one transaction.
RecordReply(m) ==
    LET p == Landlady(m)
        edited == reply[m].edited IN
    /\ reply[m].status = "sending"
    /\ reply' = [reply EXCEPT ![m] = Gone]
    /\ IF reply[m].saw = "routine"
       THEN /\ trust' = [trust EXCEPT ![p] = Graduated(Credited(@, edited), edited)]
            /\ ledger' = [ledger EXCEPT ![p] = Append(@, IF edited THEN "edited" ELSE "clean")]
       ELSE UNCHANGED <<trust, ledger>>
    /\ UNCHANGED <<request, rated, today, alarmed, classified>>

\* A send or its bookkeeping fails: the draft stays 'sending'.
SendingFails(m) ==
    /\ reply[m].status = "sending"
    /\ reply' = [reply EXCEPT ![m] = Gone]
    /\ ReplyOnly

\* Mutant: the streak outlives the revocation.
RevokedRowStreak(row) == [row EXCEPT !.unlocked = FALSE, !.revoked = TRUE]
\* _REVOKE_PROPERTY_ROUTINE_SQL, _REVOKE_ALL_FOR_LANDLORD_SQL.
RevokedRow(row) == [row EXCEPT !.unlocked = FALSE, !.revoked = TRUE, !.streak = 0]

\* POST /v1/properties/{id}/trust/revoke, for one property or for all: rows
\* that are not unlocked are left alone.
Revoke(P) ==
    LET hit == {p \in P : trust[p].unlocked} IN
    /\ hit # {}
    /\ trust' = [p \in RatedProperties |-> IF p \in hit THEN RevokedRow(trust[p]) ELSE trust[p]]
    /\ ledger' = [p \in RatedProperties |-> IF p \in hit THEN <<>> ELSE ledger[p]]
    /\ UNCHANGED <<request, reply, rated, today, alarmed, classified>>

\* The oldest audit rows leave the window of 24 hours.
HoursPass ==
    /\ today # {}
    /\ \E cut \in today : today' = {m \in today : m > cut}
    /\ UNCHANGED <<request, reply, rated, trust, ledger, alarmed, classified>>

AutonomyNext ==
    \/ \E m \in Requests :
         \/ ClassifyIntent(m) \/ Classify(m) \/ DraftResponse(m) \/ RouteAfterDraft(m) \/ AutoSendDraft(m)
         \/ RequestDies(m)
         \/ ApproveReply(m) \/ WithdrawReply(m)
         \/ ClaimReply(m) \/ RecordReply(m) \/ SendingFails(m)
    \/ \E P \in {{p} : p \in RatedProperties} \cup {RatedProperties} : Revoke(P)
    \/ HoursPass

-----------------------------------------------------------------------------
(* GET /v1/queue: one card per case that waits for the landlord.  When the *)
(* status of the case says so is DraftFlow's subject.                      *)

Carded(m) == reply[m].status = "pending" /\ request[m].pc = "done"

\* Mutant: the newest 'classified' row, whatever it is about.
CardSourceNewest(c) == IF classified[c].newest = "severity" THEN classified[c].severity ELSE 0
\* The message whose severity the card shows: a ? 'severity', the newest first.
CardSource(c) == classified[c].severity

AutonomySpec == AutonomyInit /\ [][AutonomyNext]_trustVars

-----------------------------------------------------------------------------
(* Properties.                                                             *)

AutonomyTypeOK ==
    /\ request \in [Requests -> [pc : {"new", "rate", "draft", "route", "auto", "done"},
                                 hard : BOOLEAN, severity : Severities \cup {"none"}]]
    /\ reply \in [Requests ->
          [status : {"none", "pending", "approved", "sending", "gone"},
           text : {"none", "own", "fallback"}, auto : BOOLEAN, edited : BOOLEAN,
           saw : Severities \cup {"none"}]]
    /\ rated \in [RatedCases -> Severities \cup {"none"}]
    /\ trust \in [RatedProperties -> [unlocked : BOOLEAN, revoked : BOOLEAN, streak : Nat]]
    /\ today \subseteq Requests
    /\ ledger \in [RatedProperties -> Seq({"clean", "edited"})]
    /\ alarmed \subseteq RatedCases
    /\ classified \in [RatedCases -> [severity : 0..MaxRequest,
                                      newest : {"none", "intent", "severity"}]]

AutoApproved == today' \ today

\* A reply is approved without the landlord only after Threshold sends in a
\* row that the landlord left as they were, all since the last revocation that
\* took autonomy away; sends and revocations on other cases race the run.
AutoMeansEarned ==
    [][\A m \in AutoApproved :
          LET sends == ledger[Landlady(m)] IN
          \E first \in 1..Len(sends) :
             /\ first + Threshold - 1 <= Len(sends)
             /\ \A i \in first..(first + Threshold - 1) : sends[i] = "clean"]_trustVars

\* What is approved without the landlord answers a message classified routine,
\* in words that passed the guards, on a case that was never an emergency.
AutoMeansRoutine ==
    [][\A m \in AutoApproved :
          /\ request[m].severity = "routine"
          /\ reply[m].text = "own"
          /\ CaseOf[m] \notin alarmed]_trustVars

\* A card shows how the newest classified message of its case was rated, and
\* there is one: neither what was classified of it in between, nor a run that
\* failed or died, hides it.  A later routine message does lower the card.
CardShowsNewest ==
    \A m \in Requests : Carded(m) =>
        LET shown == CardSource(CaseOf[m]) IN
        /\ shown \in Siblings(m) /\ request[shown].severity # "none"
        /\ \A n \in Siblings(m) : request[n].severity # "none" => n <= shown

\* No case gets more than Cap unattended replies in 24 hours, those counted
\* that a newer message cancelled.
CapHeld == \A c \in RatedCases : Cardinality({m \in today : CaseOf[m] = c}) <= Cap
=============================================================================
