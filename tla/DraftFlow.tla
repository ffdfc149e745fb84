----------------------------- MODULE DraftFlow -----------------------------
(***************************************************************************)
(* The reply drafts of one case, from the tenant's message to the outbound *)
(* text: the per-message graph runs (agent/graph.py and its nodes), the    *)
(* landlord's approve, reject and undo from the dashboard (routers/        *)
(* drafts.py) and by SMS (agent/approve_by_sms.py), the case's resolution  *)
(* (routers/cases.py) and the draft sender (agent/draft_sender.py).        *)
(*                                                                         *)
(* Message m of the case is the m-th one persisted; its run inserts at     *)
(* most one draft, which is draft m.  A database transaction, an unlocked  *)
(* read and a Twilio request are one step each.  Editing a draft is an     *)
(* approval: the text itself is not modelled.                              *)
(***************************************************************************)
EXTENDS Naturals, Sequences

CONSTANTS
    MaxMessage,   \* bound: tenant messages on the case
    Requests,     \* the landlord's requests
    Senders,      \* the tickers that run the draft sender
    Free,         \* nobody holds the case lock
    MaxFault      \* bound: failures and crashes

Messages == 1..MaxMessage

ASSUME DraftAssumption ==
    /\ MaxMessage \in Nat \ {0}
    /\ MaxFault \in Nat
    /\ Free \notin Messages \cup Requests
    /\ Requests \cap Messages = {}

VARIABLES
    case,       \* cases.status
    persisted,  \* inbound tenant messages stored so far: the clock of the model
    linked,     \* the messages that identify_case has put on this case
    notices,    \* drafts of the draft-ready notices, in the order they were enqueued
    shown,      \* the newest of them that reached the landlord's phone, 0 if none
    draft,      \* the drafts rows
    lock,       \* who holds the per-case advisory lock
    paused,     \* the case's thread has a live interrupt
    run,        \* per message: where its graph run is
    req,        \* per request: control state, what it asks, what it was told
    sender,     \* per ticker: control state and the draft it works on
    sends,      \* per draft: texts Twilio accepted
    consent,    \* per draft: who stands behind sending it
    closed,     \* drafts that were outstanding when the case was resolved
    faults      \* failures that have happened

caseVars == <<case, linked, notices, shown>>
lockVars == <<lock, paused>>
ghostVars == <<consent, closed>>
vars == <<case, persisted, linked, notices, shown, draft, lock, paused, run, req, sender,
          sends, consent, closed, faults>>

NoDraft == [status |-> "none", auto |-> FALSE, via |-> "none", due |-> FALSE,
            born |-> 0, touched |-> 0, replied |-> FALSE]

Drafts(S) == {d \in Messages : draft[d].status \in S}
Pending == Drafts({"pending"})
ApprovedFamily == {"approved", "sending", "sent"}

Fault == faults < MaxFault /\ faults' = faults + 1

Init ==
    /\ case = "open" /\ persisted = 0 /\ linked = {} /\ notices = <<>> /\ shown = 0
    /\ draft = [d \in Messages |-> NoDraft]
    /\ lock = Free /\ paused = FALSE
    /\ run = [m \in Messages |-> "none"]
    /\ req = [r \in Requests |-> [pc |-> "idle", kind |-> "approve", chan |-> "dashboard",
                                  target |-> 1, answer |-> "none"]]
    /\ sender = [t \in Senders |-> [pc |-> "idle", draft |-> 1]]
    /\ sends = [d \in Messages |-> 0]
    /\ consent = [d \in Messages |-> "none"]
    /\ closed = {}
    /\ faults = 0

-----------------------------------------------------------------------------
(* A message's graph run.                                                  *)

RunTo(m, label) == run' = [run EXCEPT ![m] = label]
RunUnchanged == UNCHANGED <<persisted, req, sender, sends>>

\* The webhook stores the message and starts its run in the background.
Persist ==
    /\ persisted < MaxMessage
    /\ persisted' = persisted + 1
    /\ RunTo(persisted + 1, "load")
    /\ UNCHANGED <<caseVars, draft, lockVars, req, sender, sends, ghostVars, faults>>

\* load_context lists the tenant's open cases: a resolved case is not offered,
\* and the message goes to a case of its own.
LoadContext(m) ==
    /\ run[m] = "load"
    /\ RunTo(m, IF case = "resolved" THEN "done" ELSE "identify")
    /\ RunUnchanged
    /\ UNCHANGED <<caseVars, draft, lockVars, ghostVars, faults>>

\* identify_case attaches it; a case resolved since then is reopened.
IdentifyCase(m) ==
    /\ run[m] = "identify"
    /\ linked' = linked \cup {m}
    /\ case' = IF case = "resolved" THEN "reopened" ELSE case
    /\ RunTo(m, "wait")
    /\ RunUnchanged
    /\ UNCHANGED <<notices, shown, draft, lockVars, ghostVars, faults>>

\* Mutant: the advisory lock does not exclude anybody.
LockFreeAlways == TRUE
\* pg_try_advisory_xact_lock: whoever tries first gets it, in no fixed order.
LockFree == lock = Free

\* The run starts the case's thread over; an interrupt it held is gone.
TakeLock(m) ==
    /\ run[m] = "wait" /\ LockFree
    /\ lock' = m
    /\ paused' = FALSE
    /\ RunTo(m, "draft")
    /\ RunUnchanged
    /\ UNCHANGED <<caseVars, draft, ghostVars, faults>>

\* Half a minute of failed tries ends in the degraded path.
RunLockTimeout(m) ==
    /\ run[m] = "wait" /\ lock # Free
    /\ RunTo(m, "done")
    /\ RunUnchanged
    /\ UNCHANGED <<caseVars, draft, lockVars, ghostVars, faults>>

Unlock == lock' = Free

\* Mutant: every approved draft is superseded.
SupersededApprovalsAll == Drafts({"approved"})
\* The approved drafts that a newer message's draft replaces.
SupersededApprovals ==
    {d \in Drafts({"approved"}) : draft[d].auto \/ draft[d].via = "sms"}

\* draft_response, one transaction: cancel the superseded approvals, make the
\* pending draft stale, insert this message's draft.
InsertDraft(m) ==
    /\ run[m] = "draft"
    /\ draft' = [d \in Messages |->
                    CASE d = m -> [NoDraft EXCEPT !.status = "pending", !.born = persisted]
                      [] d # m /\ d \in SupersededApprovals -> [draft[d] EXCEPT !.status = "cancelled"]
                      [] d # m /\ d \in Pending -> [draft[d] EXCEPT !.status = "stale"]
                      [] OTHER -> draft[d]]
    /\ consent' = [d \in Messages |-> IF d \in SupersededApprovals THEN "none" ELSE consent[d]]
    /\ \E route \in {"auto", "mark", "degrade"} : RunTo(m, route)
    /\ RunUnchanged
    /\ UNCHANGED <<caseVars, lockVars, closed, faults>>

\* The run ends in degraded mode: without a draft when classification failed,
\* else with a pending one that is never paused on.
DegradedMode(m) ==
    /\ run[m] \in {"draft", "degrade"}
    /\ RunTo(m, "done")
    /\ Unlock
    /\ RunUnchanged
    /\ UNCHANGED <<caseVars, draft, paused, ghostVars, faults>>

\* auto_send_draft approves the pending draft while the property's autonomy is
\* still unlocked, and falls back to the landlord otherwise.
AutoSend(m) ==
    /\ run[m] = "auto"
    /\ \/ \E d \in Pending :
            /\ draft' = [draft EXCEPT ![d].status = "approved", ![d].auto = TRUE,
                                      ![d].due = FALSE, ![d].touched = persisted]
            /\ consent' = [consent EXCEPT ![d] = "agent"]
            /\ RunTo(m, "done")
            /\ Unlock
       \/ RunTo(m, "mark") /\ UNCHANGED <<draft, lock, consent>>
    /\ RunUnchanged
    /\ UNCHANGED <<caseVars, paused, closed, faults>>

\* mark_awaiting_approval looks for the pending draft ...
MarkSelect(m) ==
    /\ run[m] = "mark"
    /\ RunTo(m, IF Pending = {} THEN "pause" ELSE "flip")
    /\ RunUnchanged
    /\ UNCHANGED <<caseVars, draft, lockVars, ghostVars, faults>>

\* ... and then flips the case, by id alone, and enqueues the ready notice.
MarkFlip(m) ==
    /\ run[m] = "flip"
    /\ case' = "awaiting_approval"
    /\ notices' = IF Pending = {} THEN notices
                  ELSE Append(notices, CHOOSE d \in Pending : TRUE)
    /\ RunTo(m, "pause")
    /\ RunUnchanged
    /\ UNCHANGED <<linked, shown, draft, lockVars, ghostVars, faults>>

\* await_approval interrupts the thread if there is a draft to wait for.
AwaitApproval(m) ==
    /\ run[m] = "pause"
    /\ paused' = (Pending # {})
    /\ RunTo(m, "done")
    /\ Unlock
    /\ RunUnchanged
    /\ UNCHANGED <<caseVars, draft, ghostVars, faults>>

\* An exception or a crash ends the run; the lock goes with its transaction.
RunDies(m) ==
    /\ run[m] \notin {"none", "done"}
    /\ Fault
    /\ RunTo(m, "done")
    /\ lock' = IF lock = m THEN Free ELSE lock
    /\ RunUnchanged
    /\ UNCHANGED <<caseVars, draft, paused, ghostVars>>

Run(m) ==
    \/ LoadContext(m) \/ IdentifyCase(m) \/ TakeLock(m) \/ RunLockTimeout(m)
    \/ InsertDraft(m) \/ DegradedMode(m) \/ AutoSend(m)
    \/ MarkSelect(m) \/ MarkFlip(m) \/ AwaitApproval(m)

\* The outbox of texts to the landlord delivers a notice, in any order.
NoticeSent ==
    /\ \E i \in (shown + 1)..Len(notices) : shown' = i
    /\ RunUnchanged
    /\ UNCHANGED <<case, linked, notices, draft, lockVars, run, ghostVars, faults>>

-----------------------------------------------------------------------------
(* The landlord's requests.                                                *)

Answer(r, a) == req' = [req EXCEPT ![r].pc = "done", ![r].answer = a]
ReqTo(r, label) == req' = [req EXCEPT ![r].pc = label]
ReqUnchanged == UNCHANGED <<persisted, linked, notices, shown, run, sender, sends>>

\* A landlord's text is an inbound message of the case, newer than every draft
\* there is.
Heard(rows, chan) ==
    [d \in Messages |->
        IF chan = "sms" /\ rows[d].status # "none"
        THEN [rows[d] EXCEPT !.replied = TRUE] ELSE rows[d]]

\* The draft a request is about: the dashboard's cards carry its id, a text
\* means the draft of the newest notice that was delivered.
CanAskAbout(d, chan) ==
    /\ draft[d].status # "none"
    /\ chan = "sms" => shown > 0 /\ d = notices[shown]

\* Mutant: a rejection that comes too late is confirmed.
AnswerOnStatusTooEager(kind, chan, status) == IF kind = "approve" THEN "approved" ELSE "rejected"
\* What approve and reject answer when the draft is not pending.
AnswerOnStatus(kind, chan, status) ==
    CASE kind = "approve" /\ status \in ApprovedFamily -> "approved"
      [] kind = "reject" /\ status \in ApprovedFamily -> "toolate"
      [] kind = "reject" /\ status = "rejected" -> "rejected"
      [] kind = "approve" /\ status = "rejected" /\ chan = "sms" -> "handled"
      [] OTHER -> "stale"

\* Approve or reject: read the draft's status; only a pending one goes on.
Ask(r, d, kind, chan) ==
    LET status == draft[d].status IN
    /\ req[r].pc = "idle"
    /\ CanAskAbout(d, chan)
    /\ draft' = Heard(draft, chan)
    /\ req' = [req EXCEPT ![r] =
                  [pc |-> IF status = "pending" THEN "peek" ELSE "done",
                   kind |-> kind, chan |-> chan, target |-> d,
                   answer |-> IF status = "pending" THEN "none"
                              ELSE AnswerOnStatus(kind, chan, status)]]
    /\ ReqUnchanged
    /\ UNCHANGED <<case, lockVars, ghostVars, faults>>

\* resolve_draft_decision peeks at the case without the lock to choose a path.
PeekCase(r) ==
    /\ req[r].pc = "peek"
    /\ ReqTo(r, IF case = "awaiting_approval" THEN "resume" ELSE "finalize")
    /\ ReqUnchanged
    /\ UNCHANGED <<case, draft, lockVars, ghostVars, faults>>

IsPending(r) == req[r].target \in Pending

\* resume_case_thread: under the lock the draft must still be the pending one
\* and the thread must be paused; then the thread is resumed.
Resume(r) ==
    /\ req[r].pc = "resume" /\ LockFree
    /\ IF IsPending(r) /\ paused
       THEN lock' = r /\ paused' = FALSE /\ ReqTo(r, "decide")
       ELSE ReqTo(r, IF IsPending(r) THEN "repeek" ELSE "reconcile") /\ UNCHANGED lockVars
    /\ ReqUnchanged
    /\ UNCHANGED <<case, draft, ghostVars, faults>>

\* Not paused after all: try the other path unless the draft moved on.
PeekDraft(r) ==
    /\ req[r].pc = "repeek"
    /\ ReqTo(r, IF IsPending(r) THEN "finalize" ELSE "reconcile")
    /\ ReqUnchanged
    /\ UNCHANGED <<case, draft, lockVars, ghostVars, faults>>

\* apply_approve_or_edit or apply_rejection on the pending draft d, starting
\* from case status c.
Apply(r, d, c) ==
    IF req[r].kind = "approve"
    THEN /\ draft' = [draft EXCEPT ![d].status = "approved", ![d].via = req[r].chan,
                                   ![d].due = FALSE, ![d].touched = persisted]
         /\ consent' = [consent EXCEPT ![d] = "landlord"]
         /\ case' = c
    ELSE /\ draft' = [draft EXCEPT ![d].status = "rejected"]
         /\ consent' = [consent EXCEPT ![d] = "none"]
         /\ case' = "open"

Done(r) == Answer(r, IF req[r].kind = "approve" THEN "approved" ELSE "rejected")

\* finalize_approval or finalize_rejection, run by the resumed thread: it asks
\* the case for its pending draft again, and decides that one.
Decide(r) ==
    /\ req[r].pc = "decide"
    /\ \/ \E d \in Pending : Apply(r, d, case)
       \/ Pending = {} /\ UNCHANGED <<draft, consent, case>>
    /\ Unlock
    /\ Done(r)
    /\ ReqUnchanged
    /\ UNCHANGED <<paused, closed, faults>>

\* _finalize_never_paused_draft: the same decision in one transaction under the
\* lock; an approval moves the case to awaiting_approval first.
Finalize(r) ==
    /\ req[r].pc = "finalize" /\ LockFree
    /\ IF IsPending(r)
       THEN Apply(r, req[r].target, "awaiting_approval") /\ Done(r)
       ELSE ReqTo(r, "reconcile") /\ UNCHANGED <<draft, consent, case>>
    /\ ReqUnchanged
    /\ UNCHANGED <<lockVars, closed, faults>>

\* Somebody else acted on the draft: the answer is what its row says now.
Reconcile(r) ==
    /\ req[r].pc = "reconcile"
    /\ Answer(r, AnswerOnStatus(req[r].kind, "dashboard", draft[req[r].target].status))
    /\ ReqUnchanged
    /\ UNCHANGED <<case, draft, lockVars, ghostVars, faults>>

RequestLockTimeout(r) ==
    /\ req[r].pc \in {"resume", "finalize"} /\ lock # Free
    /\ Answer(r, "error")
    /\ ReqUnchanged
    /\ UNCHANGED <<case, draft, lockVars, ghostVars, faults>>

\* The request dies; while it resumes the thread the lock dies with it.
RequestDies(r) ==
    /\ req[r].pc \notin {"idle", "done"}
    /\ Fault
    /\ Answer(r, "error")
    /\ lock' = IF lock = r THEN Free ELSE lock
    /\ ReqUnchanged
    /\ UNCHANGED <<case, draft, paused, ghostVars>>

\* Mutant: undo also takes back a draft the sender has claimed.
UndoableUntilSent == {"approved", "sending"}
\* The statuses undo takes back.
Undoable == {"approved"}

\* Undo is one transaction without the lock.  A second pending draft violates
\* the case's unique index, and the request fails.
Undo(r, d, chan) ==
    LET status == draft[d].status
        undone == [draft EXCEPT ![d].status = "pending", ![d].due = FALSE, ![d].touched = persisted,
                                ![d].via = IF chan = "sms" THEN "none" ELSE draft[d].via]
        succeeds == status \in Undoable /\ Pending = {}
        answer == CASE succeeds -> "undone"
                    [] status \in Undoable /\ Pending # {} -> "error"
                    [] status = "pending" /\ chan = "dashboard" -> "undone"
                    [] status \in {"sending", "sent"} -> "toolate"
                    [] OTHER -> "nothing" IN
    /\ req[r].pc = "idle"
    /\ CanAskAbout(d, chan)
    /\ draft' = Heard(IF succeeds THEN undone ELSE draft, chan)
    /\ consent' = IF succeeds THEN [consent EXCEPT ![d] = "none"] ELSE consent
    /\ req' = [req EXCEPT ![r] = [pc |-> "done", kind |-> "undo", chan |-> chan,
                                  target |-> d, answer |-> answer]]
    /\ ReqUnchanged
    /\ UNCHANGED <<case, lockVars, closed, faults>>

\* Mutant: only the draft on the card is cancelled.
OutstandingPendingOnly == Pending
\* The drafts a resolution cancels: claimed ones are left to the sender.
Outstanding == Drafts({"pending", "approved"})

\* The landlord resolves the case; no lock is taken.
ResolveCase ==
    /\ case # "resolved"
    /\ case' = "resolved"
    /\ draft' = [d \in Messages |->
                    IF d \in Outstanding THEN [draft[d] EXCEPT !.status = "cancelled"] ELSE draft[d]]
    /\ consent' = [d \in Messages |-> IF d \in Outstanding THEN "none" ELSE consent[d]]
    /\ closed' = closed \cup Drafts({"pending", "approved"})
    /\ UNCHANGED <<persisted, linked, notices, shown, lockVars, run, req, sender, sends, faults>>

Request(r) ==
    \/ PeekCase(r) \/ Resume(r) \/ PeekDraft(r) \/ Decide(r) \/ Finalize(r)
    \/ Reconcile(r) \/ RequestLockTimeout(r)

NewRequest(r) ==
    \E d \in Messages, chan \in {"dashboard", "sms"} :
        Undo(r, d, chan) \/ \E kind \in {"approve", "reject"} : Ask(r, d, kind, chan)

-----------------------------------------------------------------------------
(* The draft sender.                                                       *)

SenderTo(t, label) == sender' = [sender EXCEPT ![t].pc = label]
SenderUnchanged == UNCHANGED <<persisted, linked, notices, shown, lockVars, run, req, closed>>

\* The undo window of an approved draft is over.
WindowCloses(d) ==
    /\ draft[d].status = "approved" /\ ~draft[d].due
    /\ draft' = [draft EXCEPT ![d].due = TRUE]
    /\ UNCHANGED <<caseVars, persisted, lockVars, run, req, sender, sends, ghostVars, faults>>

\* _SELECT_DUE_DRAFT_IDS_SQL.
Due == {d \in Drafts({"approved"}) : draft[d].due /\ case # "resolved"}

SelectDue(t) ==
    /\ sender[t].pc = "idle"
    /\ IF Due = {} THEN UNCHANGED sender
       ELSE \E d \in Due : sender' = [sender EXCEPT ![t] = [pc |-> "claim", draft |-> d]]
    /\ SenderUnchanged
    /\ UNCHANGED <<case, draft, sends, consent, faults>>

Newer(stamp) == \E m \in linked : m > stamp

\* A newer inbound message than an automatic draft, or a newer tenant message
\* than an approval by text.
Overtaken(d) ==
    \/ draft[d].auto /\ (Newer(draft[d].born) \/ draft[d].replied)
    \/ draft[d].via = "sms" /\ Newer(draft[d].touched)

\* Mutant: a draft that another ticker has claimed is claimed again.
ClaimableTwice(d) ==
    /\ draft[d].status \in {"approved", "sending"} /\ draft[d].due
    /\ case # "resolved" /\ ~Overtaken(d)
\* _CLAIM_DRAFT_SQL.
Claimable(d) ==
    /\ draft[d].status = "approved" /\ draft[d].due
    /\ case # "resolved" /\ ~Overtaken(d)

\* Mutant: an overtaken approval by text is left as it is.
CancellableAutoOnly(d) == draft[d].status = "approved" /\ draft[d].auto /\ Overtaken(d)
\* _CANCEL_SUPERSEDED_AUTO_SEND_DRAFT_SQL, _CANCEL_SUPERSEDED_SMS_APPROVED_DRAFT_SQL.
Cancellable(d) == draft[d].status = "approved" /\ Overtaken(d)

\* _claim_draft: claim it, or cancel it if it was overtaken.
ClaimDraft(t) ==
    LET d == sender[t].draft IN
    /\ sender[t].pc = "claim"
    /\ IF Claimable(d)
       THEN /\ draft' = [draft EXCEPT ![d].status = "sending", ![d].touched = persisted]
            /\ SenderTo(t, "send")
            /\ UNCHANGED consent
       ELSE /\ SenderTo(t, "idle")
            /\ IF Cancellable(d)
               THEN /\ draft' = [draft EXCEPT ![d].status = "cancelled"]
                    /\ consent' = [consent EXCEPT ![d] = "none"]
               ELSE UNCHANGED <<draft, consent>>
    /\ SenderUnchanged
    /\ UNCHANGED <<case, sends, faults>>

Accepted(t) == sends' = [sends EXCEPT ![sender[t].draft] = @ + 1]

SendDraft(t) ==
    /\ sender[t].pc = "send"
    /\ Accepted(t)
    /\ SenderTo(t, "record")
    /\ SenderUnchanged
    /\ UNCHANGED <<case, draft, consent, faults>>

\* One transaction: outbound message, draft sent, case waiting for the tenant.
RecordSent(t) ==
    /\ sender[t].pc = "record"
    /\ draft' = [draft EXCEPT ![sender[t].draft].status = "sent"]
    /\ case' = IF case = "resolved" THEN case ELSE "awaiting_tenant"
    /\ SenderTo(t, "idle")
    /\ SenderUnchanged
    /\ UNCHANGED <<sends, consent, faults>>

\* No number, an exception, a crash: a claimed draft stays 'sending' for good,
\* and the text may have gone out.
SenderFails(t) ==
    /\ sender[t].pc # "idle"
    /\ Fault
    /\ UNCHANGED sends \/ (sender[t].pc = "send" /\ Accepted(t))
    /\ SenderTo(t, "idle")
    /\ SenderUnchanged
    /\ UNCHANGED <<case, draft, consent>>

Tick(t) == SelectDue(t) \/ ClaimDraft(t) \/ SendDraft(t) \/ RecordSent(t)

-----------------------------------------------------------------------------
Next ==
    \/ Persist \/ NoticeSent \/ ResolveCase
    \/ \E m \in Messages : Run(m) \/ RunDies(m)
    \/ \E r \in Requests : NewRequest(r) \/ Request(r) \/ RequestDies(r)
    \/ \E d \in Messages : WindowCloses(d)
    \/ \E t \in Senders : Tick(t) \/ SenderFails(t)

Spec == Init /\ [][Next]_vars

\* The scheduler restarts its ticker whenever it dies, so ticks keep coming.
FairSpec == Spec /\ \A t \in Senders : WF_vars(Tick(t))

-----------------------------------------------------------------------------
(* Properties.                                                             *)

\* The rows and the control states have their types.
TypeOK ==
    /\ case \in {"open", "awaiting_approval", "awaiting_tenant", "resolved", "reopened"}
    /\ persisted \in 0..MaxMessage
    /\ linked \subseteq Messages
    /\ notices \in Seq(Messages)
    /\ shown \in 0..Len(notices)
    /\ draft \in [Messages ->
          [status : {"none", "pending", "stale", "approved", "sending", "sent", "rejected",
                     "cancelled"},
           auto : BOOLEAN, via : {"none", "dashboard", "sms"}, due : BOOLEAN,
           born : 0..MaxMessage, touched : 0..MaxMessage, replied : BOOLEAN]]
    /\ lock \in Messages \cup Requests \cup {Free}
    /\ paused \in BOOLEAN
    /\ run \in [Messages -> {"none", "load", "identify", "wait", "draft", "degrade", "auto",
                             "mark", "flip", "pause", "done"}]
    /\ req \in [Requests ->
          [pc : {"idle", "peek", "resume", "repeek", "decide", "finalize", "reconcile", "done"},
           kind : {"approve", "reject", "undo"}, chan : {"dashboard", "sms"}, target : Messages,
           answer : {"none", "approved", "rejected", "undone", "toolate", "stale", "handled",
                     "nothing", "error"}]]
    /\ sender \in [Senders -> [pc : {"idle", "claim", "send", "record"}, draft : Messages]]
    /\ sends \in [Messages -> Nat]
    /\ consent \in [Messages -> {"none", "agent", "landlord"}]
    /\ closed \subseteq Messages
    /\ faults \in 0..MaxFault

\* A draft is texted to the tenant at most once: overlapping tickers, failed
\* sends, crashes and undo never claim it a second time.
SentOnce == \A d \in Messages : sends[d] <= 1

\* Whenever the sender is about to text a draft, the approval it was claimed
\* under still stands: no undo, rejection, resolution or newer message has
\* withdrawn it, whoever got to the row first.
SentWithConsent ==
    \A t \in Senders : sender[t].pc = "send" => consent[sender[t].draft] # "none"

\* A landlord who was told 'rejected' never sees that reply go out.
RejectedNeverSent ==
    \A r \in Requests : req[r].answer = "rejected" => sends[req[r].target] = 0

\* A draft that was outstanding when its case was resolved is never claimed
\* again, not even after a late message reopened the case.
ClosedNeverClaimed ==
    \A t \in Senders : sender[t].pc \in {"send", "record"} => sender[t].draft \notin closed

\* A decision lands on the draft the landlord looked at, though the resumed
\* thread asks the case for whatever draft is pending by then.
DecisionHitsItsDraft ==
    [][\A r \in Requests, d \in Messages :
          (req[r].pc = "decide" /\ req'[r].pc = "done" /\ draft'[d].status # draft[d].status)
              => d = req[r].target]_vars

\* A dashboard approval of a draft the agent never sent on its own is not
\* reversed by the system: only resolving the case cancels it.
HumanApprovalStands ==
    [][\A d \in Messages :
          (/\ draft[d].status = "approved" /\ draft[d].via = "dashboard" /\ ~draft[d].auto
           /\ draft'[d].status = "cancelled") => case' = "resolved"]_vars

\* An approved draft whose undo window is over does not sit there: it is
\* claimed, cancelled or undone, unless the case is resolved meanwhile.
DueIsDrained ==
    \A d \in Messages :
        (draft[d].status = "approved" /\ draft[d].due)
            ~> (draft[d].status # "approved" \/ case = "resolved")

\* The case lifecycle of conversation-model.md: a resolved case leaves that
\* state only by being reopened.
ResolvedUntilReopened ==
    [][case = "resolved" => case' \in {"resolved", "reopened"}]_vars
=============================================================================
