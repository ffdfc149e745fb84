-------------------------------- MODULE Texts --------------------------------
(***************************************************************************)
(* The outbox of text messages: the notices and confirmations to the       *)
(* landlord (agent/landlord_sms.py) and the holding acknowledgments to the *)
(* tenant (the second pass of run_sms_drain_sweep, emergency_chain.py),    *)
(* with the landlord's reply that is matched to a notice                   *)
(* (agent/approve_by_sms.py).  What a decision then does to the draft is   *)
(* DraftFlow's subject.                                                    *)
(*                                                                         *)
(* Rows are numbered in the order of created_at.  Time is counted in       *)
(* ticks, and passes only while no tick is running: the passes are bounded *)
(* by deadlines.                                                           *)
(***************************************************************************)
EXTENDS Naturals, FiniteSets

CONSTANTS
    MaxLetter,    \* bound: rows of the outbox
    Mailers,      \* processes that run the drain sweeps
    Shapes,       \* what the rows may be: functions from Letters to LetterType
    Batch,        \* LIMIT of the selects
    MaxFailures,  \* _LANDLORD_SMS_MAX_ATTEMPTS
    BackoffCap,   \* backoff ceiling, in ticks
    Exponents,    \* powers of two a float holds: 2 ** Exponents overflows
    MaxTextFault  \* bound: refusals, lost responses, database errors, crashes

Kinds == {"unused", "ready", "confirmation", "ack"}
Lines == {"ok", "stopped", "none"}   \* answers; has opted out; no number stored
LetterType == [kind : Kinds, line : Lines, case : Nat]
Passes == {"ack", "landlord"}
Letters == 1..MaxLetter

ASSUME TextsAssumption ==
    /\ MaxLetter \in Nat
    /\ Shapes \subseteq [Letters -> LetterType]
    /\ Batch \in Nat \ {0} /\ MaxFailures \in Nat \ {0} /\ Exponents \in Nat
    /\ MaxTextFault \in Nat /\ BackoffCap \in 1..64

VARIABLES
    letter,    \* what each row is (never changes)
    text,      \* notifications rows
    mailer,    \* per process: where its tick is
    taken,     \* rows the carrier has accepted
    raised,    \* the computation of a backoff has raised
    reply,     \* one reply of the landlord: the webhook's state of it
    textFault

textVars == <<letter, text, mailer, taken, raised, reply, textFault>>

AtRest == [pc |-> "rest", pass |-> "ack", todo |-> {}, fresh |-> {}, begun |-> FALSE, cur |-> 0, seen |-> 0]
NoReply == [pc |-> "none", draft |-> 0, recovered |-> FALSE]

TextInit ==
    /\ letter \in Shapes
    /\ text = [r \in Letters |-> [status |-> "absent", count |-> 0, wait |-> 0]]
    /\ mailer = [k \in Mailers |-> AtRest]
    /\ taken = {} /\ raised = FALSE /\ reply = NoReply
    /\ textFault = MaxTextFault

-----------------------------------------------------------------------------
Unsettled == {"pending", "failed"}
Waiting(r) == text[r].status \in Unsettled
PassOf(r) == IF letter[r].kind = "ack" THEN "ack" ELSE "landlord"
Due(pass) == {r \in Letters : PassOf(r) = pass /\ Waiting(r) /\ text[r].wait = 0}
\* ORDER BY created_at LIMIT :limit
Window(pass) == {r \in Due(pass) : Cardinality({q \in Due(pass) : q < r}) < Batch}

Smaller(a, b) == IF a < b THEN a ELSE b
\* Mutant: the ceiling is forgotten.
BackoffUncapped(n) == IF n > 7 THEN 64 ELSE <<1, 2, 4, 8, 16, 32, 64>>[n]
\* base * 2 ** (n - 1), capped; the table reaches past every cap allowed.
Backoff(n) == IF n > 7 THEN BackoffCap ELSE Smaller(<<1, 2, 4, 8, 16, 32, 64>>[n], BackoffCap)
\* float(2 ** (n - 1)) does not fit.
Overflows(n) == n > Exponents

ReadyRows == {r \in Letters : letter[r].kind = "ready" /\ letter[r].line = "ok"}
Newest(S) == IF S = {} THEN 0 ELSE CHOOSE r \in S : \A q \in S : q <= r
\* Mutant: a notice that is still queued correlates as well.
CorrelatesQueued(r) == text[r].status # "absent"
\* most_recent_ready_draft: the newest notice row that was sent.
Correlates(r) == text[r].status = "sent"
Referenced == Newest({r \in ReadyRows : Correlates(r)})
\* ready_draft_for_case: the newest notice row of the case, sent or not.
ReadyForCase(c) == Newest({r \in ReadyRows : letter[r].case = c /\ text[r].status # "absent"})

MailUnchanged == UNCHANGED <<letter, text, taken, raised, reply, textFault>>

-----------------------------------------------------------------------------
(* One tick of a process.                                                  *)

\* enqueue_landlord_sms and the holding acknowledgment: once per (draft, kind).
EnqueueText(r) ==
    /\ letter[r].kind # "unused" /\ text[r].status = "absent"
    /\ \A q \in Letters : q < r => text[q].status # "absent"
    /\ text' = [text EXCEPT ![r].status = "pending"]
    /\ UNCHANGED <<letter, mailer, taken, raised, reply, textFault>>

\* The tickers that run now begin a tick: those of two machines on a deploy.
TextTick ==
    /\ \A k \in Mailers : mailer[k].pc = "rest"
    /\ \E r \in Letters : Waiting(r)
    /\ \E up \in SUBSET Mailers \ {{}} :
         mailer' = [k \in Mailers |-> IF k \in up THEN [AtRest EXCEPT !.pc = "select"] ELSE AtRest]
    /\ text' = [r \in Letters |-> [text[r] EXCEPT !.wait = IF @ = 0 THEN 0 ELSE @ - 1]]
    /\ UNCHANGED <<letter, taken, raised, reply, textFault>>

\* The candidates are read in one statement, with their counters.
SelectTexts(k) ==
    /\ mailer[k].pc = "select"
    /\ LET window == Window(mailer[k].pass) IN
       mailer' = [mailer EXCEPT ![k] = [@ EXCEPT
                     !.pc = "claim", !.begun = FALSE, !.fresh = window,
                     !.todo = {<<r, text[r].count>> : r \in window}]]
    /\ MailUnchanged

\* All candidates are done with, or the deadline has passed after one was.
EndPass(k) ==
    /\ mailer[k].pc = "claim" /\ (mailer[k].todo = {} \/ mailer[k].begun)
    /\ mailer' = [mailer EXCEPT ![k] = IF @.pass = "ack"
                    THEN [AtRest EXCEPT !.pc = "select", !.pass = "landlord"]
                    ELSE AtRest]
    /\ MailUnchanged

First(todo) == CHOOSE e \in todo : \A d \in todo : e[1] <= d[1]
\* Mutant: the claim compares the counter alone.
ClaimableByAttempt(k, r) == r \in mailer[k].fresh
\* UPDATE ... WHERE status IN ('pending', 'failed') AND attempt = :old_attempt
Claimable(k, r) == Waiting(r) /\ r \in mailer[k].fresh
\* attempt counts the claims of an acknowledgment; of a landlord text it is
\* only the guard, and send_failures is written with the outcome.
CountAtClaim(r, n) == IF letter[r].kind = "ack" THEN Smaller(n + 1, Exponents + 1) ELSE n

ClaimText(k) ==
    /\ mailer[k].pc = "claim" /\ mailer[k].todo # {}
    /\ LET e == First(mailer[k].todo)
           r == e[1]
           won == Claimable(k, r)
           at == IF ~won THEN "claim" ELSE IF letter[r].line = "none" THEN "giveup" ELSE "send"
       IN /\ mailer' = [j \in Mailers |->
                IF j = k THEN [mailer[k] EXCEPT !.pc = at, !.todo = @ \ {e}, !.begun = TRUE,
                                                !.cur = r, !.seen = e[2]]
                ELSE IF won THEN [mailer[j] EXCEPT !.fresh = @ \ {r}] ELSE mailer[j]]
          /\ text' = IF won THEN [text EXCEPT ![r].count = CountAtClaim(r, e[2])] ELSE text
    /\ UNCHANGED <<letter, taken, raised, reply, textFault>>

TextFault == textFault > 0 /\ textFault' = textFault - 1
Goes(k, label) == mailer' = [mailer EXCEPT ![k].pc = label]

SendText(k) ==
    /\ mailer[k].pc = "send"
    /\ LET r == mailer[k].cur IN
       \/ /\ letter[r].line = "ok" /\ taken' = taken \union {r}
          /\ \/ Goes(k, "sent") /\ UNCHANGED textFault
             \/ Goes(k, "failed") /\ TextFault                \* the response is lost
       \/ /\ letter[r].line = "stopped" /\ Goes(k, "failed")
          /\ UNCHANGED <<taken, textFault>>
       \/ /\ letter[r].line = "ok" /\ Goes(k, "failed") /\ TextFault
          /\ UNCHANGED taken
    /\ UNCHANGED <<letter, text, raised, reply>>

\* WHERE id = :id: the outcome is written whatever the row says by then.
Settle(k, row) ==
    /\ text' = [text EXCEPT ![mailer[k].cur] = row]
    /\ Goes(k, "claim")
    /\ UNCHANGED <<letter, taken, reply, textFault>>

MarkSent(k) ==
    /\ mailer[k].pc = "sent"
    /\ Settle(k, [text[mailer[k].cur] EXCEPT !.status = "sent"])
    /\ UNCHANGED raised

\* No phone number or no Twilio number.
MarkUnreachable(k) ==
    /\ mailer[k].pc = "giveup"
    /\ Settle(k, [text[mailer[k].cur] EXCEPT !.status = "exhausted"])
    /\ UNCHANGED raised

FailuresOf(r, seen) == IF letter[r].kind = "ack" THEN text[r].count ELSE seen + 1
LastAttempt(r, n) == letter[r].kind = "confirmation" /\ n >= MaxFailures
FailedRow(r, seen) ==
    LET n == FailuresOf(r, seen) IN
    [text[r] EXCEPT !.status = IF LastAttempt(r, n) THEN "exhausted" ELSE "failed",
                    !.count = n, !.wait = Backoff(n)]

\* The backoff is computed in the handler of the failure: when it raises, the
\* candidate is abandoned and nothing is written.
MarkFailed(k) ==
    /\ mailer[k].pc = "failed"
    /\ LET r == mailer[k].cur IN
       \/ /\ ~Overflows(FailuresOf(r, mailer[k].seen))
          /\ Settle(k, FailedRow(r, mailer[k].seen)) /\ UNCHANGED raised
       \/ /\ Overflows(FailuresOf(r, mailer[k].seen)) /\ raised' = TRUE
          /\ Settle(k, text[r])

\* A database error at the claim or at an outcome is logged, and the loop goes
\* on with the next candidate; a restart forgets the tick.
TextError(k) ==
    /\ TextFault
    /\ \/ /\ mailer[k].pc = "claim" /\ mailer[k].todo # {}
          /\ mailer' = [mailer EXCEPT ![k].todo = @ \ {First(@)}, ![k].begun = TRUE]
       \/ mailer[k].pc \in {"sent", "failed", "giveup"} /\ Goes(k, "claim")
       \/ mailer[k].pc # "rest" /\ mailer' = [mailer EXCEPT ![k] = AtRest]
    /\ UNCHANGED <<letter, text, taken, raised, reply>>

-----------------------------------------------------------------------------
(* The landlord answers the notice; the webhook stores the reply with the  *)
(* case it refers to, commits, and then acts on the draft.                 *)

ReplyArrives ==
    /\ reply.pc = "none" /\ Referenced # 0
    /\ reply' = [reply EXCEPT !.pc = "stored", !.draft = Referenced]
    /\ UNCHANGED <<letter, text, mailer, taken, raised, textFault>>

HandleReply ==
    /\ reply.pc = "stored"
    /\ reply' = [reply EXCEPT !.pc = "handled"]
    /\ UNCHANGED <<letter, text, mailer, taken, raised, textFault>>

\* The same MessageSid again, after a crash or a lost 200: the case is the
\* stored one, the draft is looked up again.
RedeliverReply ==
    /\ reply.pc \in {"stored", "handled"} /\ TextFault
    /\ reply' = [reply EXCEPT !.pc = "stored", !.recovered = TRUE,
                              !.draft = ReadyForCase(letter[reply.draft].case)]
    /\ UNCHANGED <<letter, text, mailer, taken, raised>>

-----------------------------------------------------------------------------
MailStep(k) ==
    SelectTexts(k) \/ EndPass(k) \/ ClaimText(k) \/ SendText(k)
        \/ MarkSent(k) \/ MarkUnreachable(k) \/ MarkFailed(k)
TextNext ==
    \/ \E r \in Letters : EnqueueText(r)
    \/ TextTick \/ ReplyArrives \/ HandleReply \/ RedeliverReply
    \/ \E k \in Mailers : MailStep(k) \/ TextError(k)

TextSpec == TextInit /\ [][TextNext]_textVars

\* The ticker comes around and finishes the tick it began.
TextFairness == WF_textVars(TextTick) /\ \A k \in Mailers : WF_textVars(MailStep(k))

-----------------------------------------------------------------------------
(* Properties.                                                             *)

TextsTypeOK ==
    /\ letter \in [Letters -> LetterType]
    /\ text \in [Letters -> [status : {"absent", "pending", "failed", "sent", "exhausted"},
                             count : Nat, wait : 0..BackoffCap]]
    /\ mailer \in [Mailers -> [pc : {"rest", "select", "claim", "send", "sent", "failed", "giveup"},
                               pass : Passes, todo : SUBSET (Letters \X Nat), begun : BOOLEAN,
                               fresh : SUBSET Letters, cur : Letters \union {0}, seen : Nat]]
    /\ taken \subseteq Letters
    /\ raised \in BOOLEAN
    /\ reply \in [pc : {"none", "stored", "handled"}, draft : Letters \union {0},
                  recovered : BOOLEAN]
    /\ textFault \in 0..MaxTextFault

\* The draft a reply acts on is one whose notice reached the landlord's phone,
\* unless the webhook had to recover the reply.
ReplyNamesDelivered == reply.draft # 0 /\ ~reply.recovered => reply.draft \in taken

\* Every text reaches its end, also one that a late outcome has put back: rows
\* being finitely many, time and again each is sent or given up.  One that Twilio
\* refuses for ever may stay, but it starves no other.  Once a backoff has raised,
\* the row keeps its place in the window and nothing is promised.
MustSettle(r) == letter[r].line # "stopped" \/ letter[r].kind = "confirmation"
NobodyStarves == []<>(raised \/ \A r \in Letters : MustSettle(r) => ~Waiting(r))

\* However many tickers drain at once: a text is claimed only while it waits,
\* only who has claimed it calls Twilio for it or writes what became of it, and
\* it is marked sent only after the carrier took it.
TextState(r) ==
    CASE Waiting(r) -> "open"
      [] text[r].status = "sent" -> "done"
      [] text[r].status = "exhausted" -> "dropped"
      [] OTHER -> "absent"
AtRow(k) == mailer[k].pc \in {"send", "sent", "failed", "giveup"}
TextOutbox == INSTANCE SharedOutbox WITH
    Row <- Letters, Drainer <- Mailers,
    state <- [r \in Letters |-> TextState(r)],
    took <- [r \in Letters |-> r \in taken],
    hands <- [r \in Letters |-> {k \in Mailers : AtRow(k) /\ mailer[k].cur = r}]
TextsKeepThePromise == TextOutbox!SharedOutboxSpec
=============================================================================
