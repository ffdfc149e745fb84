# A verification project for Stoop

Stoop answers tenants' text messages for a landlord. An inbound text is stored,
screened for emergencies by fixed rules, classified and answered by a language
model, and the reply goes out when the landlord has approved it or when routine
replies have earned autonomy. An emergency starts a chain of calls and texts
that stops only when somebody acknowledges it. Everything that must survive a
crash is a row in PostgreSQL; a ticker drains those rows every minute.

The modules here model the parts of `src/apps/api/app` where messages, requests,
background tasks and tickers meet on the same rows. TLC checks them on small
instances; TLAPS proves their safety for every instance, in eight proof modules. Paths
below are relative to `src/apps/api/app` unless they start with `docs`.

## 1. Inventory

| Component | State | Operations | Hard behaviours | What makes it correct | Modules |
|---|---|---|---|---|---|
| Whose text it is (`routers/webhooks/twilio.py`) | messages row; the account's phone, tenants, the property's number | look up property, account, collision, tenant; insert or recover; carry out, surface, escalate, queue | four unlocked reads while the landlord edits; redeliveries that read anew | one party per text for good; a tenant's text is a tenant's | `Routing`, `FrontProofs` |
| Inbound webhook (same file) | messages, dead letters, emergency rows | store, emergency artifacts, 200 or 5xx | redelivery, lost 200, failure between two commits | 200 only for what is durable | `Intake`, `IntakeProofs` |
| Tier 0 pre-filter (`agent/prefilter.py`) | none | triggers, guards, suppression | products of triggers, guards and vetoes | a hazard is heard whatever guarded phrase is beside it | `Prefilter`, `PrefilterProofs` |
| Background task (`agent/graph_entry.py`) | audit markers, checkpoint | completion gate, run, retry queue, last resort | two deliveries at once, death after the 200 | nobody's message disappears | `Intake`, `IntakeProofs` |
| Degraded mode and retry sweep (`agent/nodes/degraded_mode.py`, `agent/degraded_mode_sweep.py`) | `degraded_retry`, `needs_eyes`, `tenant_ack` rows | two degraded legs; select, guard, re-run, settle | two sweeps, a run of minutes between selection and settlement, exceptions | one verdict per row, the ladder ends, the landlord is told | `Intake`, `IntakeProofs` |
| Graph runs (`agent/graph.py`, `agent/nodes/*`) | case row, drafts, checkpointed thread, per-case advisory lock | load context, identify the case, draft, auto-send, await approval | runs of several messages on one case, reads made before the lock, a run that dies half way | one pending draft, the newest message decides | `DraftFlow`, `DraftFlowProofs` |
| Case lifecycle (`agent/case_lifecycle.py`, `agent/nodes/identify_case.py`) | case status, `pending_resolved_at` | route, reopen or new, propose, contradict, sweep | guarded updates against a message that arrives | a confirmed resolution is applied unless contradicted; stale means quiet | `CaseLifecycle`, `CaseLifecycleProofs` |
| Classification, drafting, autonomy (`agent/nodes/classify_severity.py`, `draft_response.py`, `auto_send.py`, `trust.py`) | severity, audit rows, trust_metrics | classify, two attempts at a draft, route, auto-send, credit, graduate, revoke | a revocation or another case's send between two reads | unattended replies are earned, routine, capped and clean | `Autonomy`, `ServicesProofs` |
| Approval queue (`routers/queue.py`) | none | card severity, order | audit rows of several kinds and messages | a card shows the newest rating | `Autonomy`, `ServicesProofs` |
| Landlord decisions (`routers/drafts.py`, `agent/approve_by_sms.py`, `agent/nodes/finalize_draft_decision.py`) | drafts, interrupt, draft-ready notices | approve, reject, edit, undo, by dashboard or SMS | a decision that resumes a thread which has moved on; the text `1` that names no draft | the decision hits the draft the landlord saw and is not reversed | `DraftFlow`, `DraftFlowProofs` |
| Case resolution (`routers/cases.py`) | case, drafts | resolve | races a run and the sender | nothing outstanding is sent afterwards | `DraftFlow`, `CaseLifecycle`, `Intake` |
| Draft sender (`agent/draft_sender.py`) | drafts `approved`/`sending`/`sent` | select due, claim or cancel, send, record | overlapping senders, a send that fails after the claim | sent at most once, only with an approval that stands | `DraftFlow`, `DraftFlowProofs` |
| Emergency chain (`agent/emergency_chain.py`) | `emergency_call` row: status, attempt, next_attempt_at; `emergency_sms` row: status, attempt | the webhook's T+0 attempt, sweep, drain of the safety text, acknowledgment by dashboard, key press or link | two writers per row, overlapping tickers, a crash between claim and request, a request that timed out but was accepted | each step once and on time, the chain never goes silent, an acknowledgment is final, the text's status is true | `EmergencyChain`, `EmergencyChainProofs` |
| Text outbox (`agent/landlord_sms.py`, second pass of `run_sms_drain_sweep`) | notification rows with attempt, failures, next_attempt_at | claim, send, mark, back off, exhaust, match a reply | claims that leave the row due, refusals, a raising backoff, two tickers | nobody starves; `sent` is true; a reply names a notice that arrived | `Texts`, `SharedOutbox`, `BackgroundProofs` |
| Push outbox (`push_outbox.py`, `routers/devices.py`) | push rows, devices | fan out, claim, send, revoke, orphan | a device that changes hands, two tickers | no push to a former owner; only who claimed a row writes its answer; every row settles | `Push`, `SharedOutbox`, `BackgroundProofs` |
| Number provisioning (`property_provisioning.py`, `routers/properties.py`) | Twilio numbers, properties, `number_release` rows | buy, configure, compensate, schedule release, sweep | a commit whose answer is lost, crash after purchase | no live number released, no orphan unreported | `Provisioning`, `Outbox`, `BackgroundProofs` |
| Unrouted maintenance (`unrouted_maintenance.py`) | dead letters, the digest's day | retention, digest | several machines, restarts | an unresolved letter is never deleted and comes up again | `Unrouted`, `BackgroundProofs` |
| Signing keys (`integrations/supabase_auth.py`) | one cache, one lock, three cooldowns | fast path, fetch, forced refetch | a bad key server, rotation, callers that go away | good keys are kept; a good token gets in again | `Keys`, `BackgroundProofs` |
| Paged lists (`pagination.py`, list endpoints) | cursor | page | rows that move between pages | what stays is shown once | `Listing`, `ServicesProofs` |
| Connection pools (`agent/case_lock_pool.py`, `db/session.py`) | checked-out connections | check out, poll the lock, time out | holding one connection while waiting for another | graph runs never wedge the process | `Pools`, `FrontProofs` |
| Scheduler (`scheduler.py`) | one asyncio task | ten sweeps a tick, each guarded | one sweep delays the next | ticks keep coming | each module's tickers, as fairness |
| Sessions, claims and row-level security; profiles and vendors; schema; reports; evaluations; clients | - | - | - | - | not modelled (section 6) |

How they interact. The webhook decides whose text it is, writes rows and queues a
background task; the task runs the graph; the graph writes drafts and pauses the
case's thread; the landlord's request resumes the thread or decides the draft
directly; the ticker's sweeps claim what is due. All of them meet only in the
database: in guarded `UPDATE`s (compare-and-swap on `attempt` or `status`), in
partial unique indexes, and in one advisory lock per case. Nothing else orders them.

## 2. Modules

Conventions. One action is one database transaction, one unlocked read, or one
request to an outside service. A transaction is atomic; where the code reads in one
transaction and writes in another, or reads and writes in one transaction at READ
COMMITTED without a lock, the model has two actions and the process remembers what
it read. A process that dies keeps no state but its rows. Bounds are constants named
`Max...`. `Mutant:` operators are plausible bugs that replace a definition to see
that a property notices; no behaviour uses them. Variables that only record what
a property needs (`consent`, `closed`, `covered`, `heard`, `ledger`, `strays`, ...)
are written with the step they record and read by no guard.

### EmergencyChain

One emergency: `call`, `attempt`, `next` are the `emergency_call` row, `sms`,
`slot` the `emergency_sms` row. `Inline` is the webhook's T+0 attempt; each member
of `Tickers` is a machine's ticker (two overlap during a deploy). Per process
`pc`, `old`, `pos`, `mine`, `out` hold the control point and what was read.
`placed`, `sends`, `audit`, `acks` count what the outside saw.

| Action | Code |
|---|---|
| `CreateEmergency` | insert by `_ensure_tenant_emergency_artifacts` |
| `SweepSelect`, `ClaimStep`, `LostRace` | `run_emergency_chain_sweep`, `_CLAIM_STEP_SQL` with the insert of the `emergency_sms` row |
| `PlaceContact`, `SafetySms`, `FinishStep`, `StepError` | `_execute_action`, `_process_due_row`, `_run_candidate_safely` |
| `SmsRead`, `SmsCas`, `SmsSendOk`, `SmsFails` | `_claim_emergency_sms_for_send` and the send under it |
| `DrainSelect`, `DrainClaim`, `DrainSendOk`, `DrainSendFails`, `DrainMark`, `DrainError` | `_drain_emergency_sms_pass`, `_process_sms_drain_candidate` |
| `AckOnDashboard`, `PressKey`, `OpenLink` | the three surfaces of an acknowledgment: from creation on, in a call that was placed, behind a link that was texted |
| `Crash`, `Minute` | a dying machine, the clock |

`reach` says which of landlord, backup and tenant has a number; it is fixed for a
behaviour. The page behind a link has no side effect of its own, and a request the
rate limit refuses leaves the chain alone.

### DraftFlow

One case: message `m` is the `m`-th text, its run makes at most draft `m`. `run`
follows each message through the graph, `lock` is the advisory lock, `paused` the
thread's interrupt, `req` the landlord's requests with what they target and were
told, `notices` and `shown` the draft-ready texts that an SMS answer refers to,
`sender` the draft senders. `consent` records who stands behind a draft, `closed`
what was outstanding at resolution.

### Intake

One tenant's messages on one case. `proc` follows each delivery by Twilio through
the webhook into its background task, and each ticker through the retry sweep and
the graph run it starts. `stored`, `letters`, `calls`, `eyes`, `acks`, `retry`,
`audited`, `drafted`, `linked` are rows; `thread` is the checkpoint that all
messages of the case share. The landlord's decision together with the sending of
the reply is one step (`Decide`): what lies in between is DraftFlow. A run may be
lost to a database error (`RunRaises`, `SettleError`, `WebhookError`, the second
branch of a write), to the lock's timeout (`LockTimeout`) and to a crash. `Classify`
may go either way: an answer of the model is an input.

### Routing

One property's number and one sender. `number`, `owner`, `tenancy` are the registers
the webhook reads: is the number the property's, is the sender's number the
landlord's own, is there an active tenant with it. Each may be edited while a
delivery is under way (`EditAccount`, `CreateTenant`, `DeleteTenant`, `EditTenant`,
`EditNumber`). `request` follows a delivery through `FindProperty`, `ReadOwner`,
`ReadCollision`, `ResolveReply` or `ReadTenant`, `Insert`, `RecoverRow` and what is
done then: `CarryOut`, `Surface`, `Escalates`, `Enqueue`; `Abort` is an exception or
the end of the process anywhere. `effects` collects, per text, what was done about
it. Texts share nothing here but the registers, so one of them delivered twice
shows what there is to see. `UNIQUE (property_id, phone)` includes deactivated
tenants, so `CreateTenant` needs that there is no row at all.

### Prefilter

A text is a sequence of words, one word for all the spellings a pattern takes
alike, and windows count words. A trigger is simple (a phrase), gapped (two phrases
in order) or a proximity (an anchor, and another phrase near it); a guard has a core
phrase, a battery where the code asks for one, and what it refuses. `Fired` is
`check`: the categories of the slots that no activated guard overlaps. The tenant
writes one word after another, so every text over the vocabulary is a state, and
`EveryTextScreened` states three things of each: an anchor outside every guarded
phrase fires (the invariant in the module's documentation), an alarm that does not
stop fires whatever the guards say, and a text of nothing but drills, tests,
fixtures and batteries does not fire.

What it shows of the rules: "smoke" anywhere takes the fire-escape guard away, so
"smoke alarm chirps by the fire escape" fires (the code's bias, on purpose), and a
gapped pattern, which the code scans greedily, touches the same phrases as the
model's set of all spans. `_normalize` and the exact spellings are left to the tests.

### CaseLifecycle

The cases of one tenant. `case` holds the rows, `msg` each message's run with what
`load_context` and the SELECT of `identify_case` saw, `sweep` the snapshot of
`sweep_cases`. Ages count up to the window that asks for them and then stand.
`LoadContext`, `IdentifyRead`, `IdentifyWrite` are the two nodes at READ COMMITTED;
`InsertDraft`, `MarkSelect`, `MarkFlip`, `Approve`, `Send` keep of DraftFlow what a
case's life depends on; `ResolveCase` is the endpoint; `SweepSelect` and `SweepApply`
are the sweep with its two guarded updates. The signal seam (`_extract_signals`)
returns nothing today and nothing schedules the sweep; both are modelled as written,
the signals as inputs. A day does not pass between two statements of a transaction.

### Autonomy

The runs, replies and trust row of one property's cases. `Classify` has two attempts
and clamps a HARD hit to emergency; `DraftResponse` has two attempts on one budget
and falls back to the standard reply; `RouteAfterDraft` reads severity, trust and the
day's count, each read able to fail; `AutoSendDraft` looks again, under the lock but
in another session. `ClaimReply` and `RecordReply` credit the severity the case has
at the claim; `Revoke` ends autonomy. `classified` keeps of the audit rows what the
queue's card may look at. `ledger` is the history of sends since the last revocation
that took autonomy away, and `AutoMeansEarned` compares the unlocked row with it.

### Texts, Push, Provisioning and the two outboxes

Two abstract specifications say what a drain promises. `Outbox`, of a row with one
owner at a time: it is worked on while it is open, reported done only after the
other side took it, and its outcome is final. `SharedOutbox`, of a row whose outcome
is written by its id alone while several processes drain: who works on it took it in
hand while it was open, nobody else calls the other side or writes what became of
it, and it is reported done only after the other side took it. Three modules
implement one of them by a refinement mapping stated at their end:
`ReleasesKeepThePromise` is `Outbox`, `TextsKeepThePromise` and `PushKeepsThePromise`
are `SharedOutbox`.

* `Texts`: the drains of the notices and confirmations to the landlord and of the
  holding acknowledgments to the tenant, each with its own claim, backoff and way to
  end, and the reply that is matched to a notice (`Referenced`) or, on a redelivery,
  looked up by case (`RedeliverReply`). `Mailers` are the tickers; a claim leaves the
  row `pending` or `failed`, so another ticker may claim it again before the first
  one's outcome, and the later outcome is the one that stands. `fresh` is, per ticker,
  the rows nobody has claimed since it read them: the compare-and-swap on `attempt`.
* `Push`: devices that are registered, transferred and removed, the fan-out of a
  notice, and the sweep that spends an attempt before each call. `Pushers` are the
  tickers; `MarkOrphans` of one may fail the row another is sending.
* `Provisioning`: `Precheck`, `Purchase`, `Configure`, `InsertProperty`,
  `CommitProperty` with `GuardCompensation` and `Compensate` where one of them fails,
  `DeleteProperty`, and the release sweep, of which two overlap. The claim moves the
  row's wait as well, so here a row has one owner.

### Unrouted, Keys, Listing, Pools

`Unrouted` is what becomes of dead letters: retention in batches, and the digest,
which each machine remembers in memory only. `Keys` is the JWKS cache with the lock
and the three cooldowns of `verify_jwt`, against rotations, empty and failed
fetches. `Listing` is keyset paging over rows that appear, move and leave. `Pools`
counts connections: `kind` says what a job is, `pc` where it is and `outer` which jobs
still hold the connection their request began with; `Holds`, `PoolOf` and `Wants`
say which pool each of its connections comes from.

### How the modules share the system

The modules are views of the same tables, each with the writers that matter to it.
Where two overlap, the narrower one takes the other's protocol as a single step:
Intake's `Decide` for DraftFlow, DraftFlow's degraded end of a run for Intake,
Intake's `calls` for EmergencyChain's `CreateEmergency`, Routing's `queued` and
`escalated` for Intake, its `commanded` for DraftFlow and Texts, CaseLifecycle's
`Send` and Autonomy's `ApproveReply` for DraftFlow.

Three MC modules run several components side by side: `MCServices` (`work` says
whether it is cases, replies, lists or texts), `MCBackground` (texts, push, numbers,
strays or keys) and `MCFront` (redeliveries, sweeps, routing or pools). Their components share no
row, so in a behaviour only one of them has work; the product of their states would
show nothing more. TLC counts their steps as one action of the composed module; its
coverage shows every action of every component taken. `MCIntakeLive` gives Intake two
messages while the database works, or one while it fails (`failing`): the liveness
properties then say what one message is owed after the last fault, and what two do to
each other without one.

## 3. What TLC checks

| Run | Instance | Shows |
|---|---|---|
| `chain_safety` | webhook + 2 tickers, with and without a number of the tenant, 2 steps, 3 claims, 2 minutes, 1 fault | `EachStepOnce`, `OnSchedule`, `OneTextPerClaim`, `SentMeansDelivered`, `AckFinal` |
| `chain_live` | webhook + 1 ticker, 4 steps, 3 claims, 10 minutes, 1 fault | `SafetyTextDelivered`, `KeepsEscalating` |
| `draft_safety` | 2 messages, 2 requests, 1 sender | `SentWithConsent`, `RejectedNeverSent`, `ClosedNeverClaimed`, `DecisionHitsItsDraft`, `HumanApprovalStands` |
| `draft_senders` | 2 messages, 1 request, 2 senders, 1 fault | `SentOnce`, `DueIsDrained` |
| `intake_live` | 2 messages without faults, or 1 with 3 faults; 1 ticker | `ResolvedMeansDrafted`, `RetryLadderEnds`, `LandlordFindsOut`, `NobodyLeftInTheDark` |
| `front` | 1 message of any kind with 2 deliveries, 1 ticker, 1 fault, 1 crash; or 1 message with 2 tickers and 1 fault; or a text with 2 deliveries and 3 edits; or 3 jobs on 2 cases with pools of 2, 1 and 1 | `AcceptedMeansRecorded`, `OutcomeIsFinal`, `EachTextItsDue`, `WedgedByKeepersOnly` |
| `services` | a tenant's 2 messages on up to 3 cases; or 3 messages on 2 cases of a property; or 4 rows in pages of 2; or texts of up to 5 words | `ServicesTypeOK`, `CapHeld`, `QuietRowsOnce`, `CardShowsNewest`, `StaleMeansQuiet`, `ConfirmedMeansUncontradicted`, `ClosedDraftsStay`, `AutoMeansEarned`, `AutoMeansRoutine`, `EveryTextScreened` |
| `background` | 3 letters in windows of 2 with 1 ticker, or 2 with 2 tickers; or 2 devices with 1 ticker, or 1 with 2, and 2 landlords; or 2 creates of one address and 2 releasers; or 2 stray texts; or 2 logins; 1 fault each | `BackgroundTypeOK`, `ReplyNamesDelivered`, `NoStrayPush`, `LiveNumberKept`, `NumbersAccounted`, `KeysGuarded`, `OutboxesKeepThePromise`, `EverythingDrains` |

Why these bounds. Every race in the code is between two writers of one row, with
at most one bystander that changes it in between; two messages, two deliveries, two
tickers and two requests give all pairs. A fault or a crash may fall on any step,
and one is enough to leave each half-done state; three database errors reach the
exception counter's limit. Two steps of the chain include the only one that makes
the second row; ten minutes reach the fourth step of its table, and the theorem about
the schedule covers all of them. `MaxSlot` is one more than the number of writers
that can hold a claim. Three edits let a tenant's row be created, deactivated and
replaced between the reads of one delivery. Three cases are what two messages can open
beside the standing one; of the two messages the first may be small talk or open a
case, the second may raise two issues. Of the three requests of the `services` run the
one on the second case is routine, and a HARD hit falls where autonomy is earned: the
other mixtures show nothing else and cost minutes. Windows of time are one or two units: their order
and their ends decide, not their lengths. Five words hold a guarded phrase, a gap and a hazard
beside it; three letters are one more than a window; pools of two and one are the
smallest in which a job can keep a connection while another waits. Where these sizes
could matter, section 4 removes them.

In `background` overlapping tickers get two letters that are retried, given up and drained in
both passes, or one device: two tickers on more rows show the same two writers and
cost many times the states. The `chain_safety` run ends at the second step of the
chain's table; that due times go on strictly increasing where the table gives way to
the formula is what `ScheduleGaps` and `StepsOnSchedule` prove, and no run reaches it.

Deadlock checking is off in the runs of Intake, `front`, `services`, `background` and
`push_overlapping`, where bounded messages, requests and rows come to rest.

### Where the code and its documents disagree

A run whose result is a counterexample states what a comment or document promises.

| Run | Promise | What happens |
|---|---|---|
| `chain_twice` | one safety text per emergency | a claim leaves the row `pending`; a drain that reads it next claims it again |
| `draft_resolved` | a resolved case stays resolved until reopened | a run about to mark the case takes it back to `awaiting_approval` |
| `push_overlapping` | marking orphaned pushes races a claim, "never a double-write" | the claimant's `sent` is written by id over the `failed` that another machine's tick wrote |
| `intake_superseded` | a failed classification is retried until the landlord is told | any change of the case's status gives the retry up |

The same models show the following, which no run states as a property.

Emergencies and drafts:

* `handle_emergency_trigger` promises the safety text even if T+0 never runs.
  An acknowledgment before step 0 is claimed ends the chain without it.
* Undo: `api-contracts.md` promises it until the draft is claimed. With a newer
  pending draft the request fails on the unique index, and the text goes out.
* `conversation-model.md` says a dashboard approval is never reversed. It is, when
  the agent had approved the draft first and the landlord undid that: `auto_send`
  stays set. `HumanApprovalStands` is the part that holds.
* An automatic reply gives way to a newer message, except to one that lands while
  the reply is being written: it is older than the draft's row.
* The case lock has no order, so the draft of an older message may replace a newer
  message's and be recorded as `superseded_by_newer_message`.
* A cancelled automatic reply is replaced, except when what cancelled it was the
  landlord's own text, for which nothing is drafted.
* Recording a completed send moves a case with a fresh pending draft to
  `awaiting_tenant`, and the draft's card leaves the queue.

Messages and cases:

* `graph_entry.py` says a redelivery heals a crash in the graph. The task runs after
  the 200, so Twilio sends no redelivery, and nothing looks for stored messages
  without a run.
* Two overlapping deliveries may both pass the completion gate; the second drafts
  again after the first reply went out.
* The gate reads the thread of the case. When a dead run left it half way and
  another message's degraded run ends it, the first message counts as complete.
* Two messages of a tenant without an open case both open one (`load_context` takes
  no lock), and a message may be put on a case that was resolved since it was read
  and stays resolved; `conversation-model.md` says one case and reopened.
* Nothing schedules `sweep_cases`, so no proposed resolution is applied in time.
* The landlord's reply and the notice to him both fail open. If both fail, the text
  was answered 200 and is only stored.
* The collision check and the tenant lookup are two statements. A tenant who is
  deactivated between them has his text stored as an unknown sender's.

Autonomy and the queue:

* A routine draft that flags a refusal is sent without the landlord, while its text
  tells the tenant that the landlord was told.
* An urgent message's draft goes stale when a later routine message of the case is
  drafted, and that draft may go out unattended.
* A HARD hit whose classification fails leaves the severity unset, so a later
  routine message may be answered unattended while the chain is running.
* The sender credits a send to the severity the case has at the claim. A revocation
  leaves the streak of a row that has not unlocked; an edit after unlocking resets the
  streak and leaves autonomy on.
* A card shows the newest classification of its case, so a routine message lowers the
  card of an emergency that nobody has dealt with and it sinks in the queue;
  `conversation-model.md` and `classify_severity.py` say an emergency is never
  downgraded, which holds of `cases.severity` only. `CardShowsNewest` says what the
  card does show.

Outboxes and the rest:

* A redelivered reply finds its draft by case, newest notice first, sent or not, and
  so may decide another draft than the first delivery would have.
  `ReplyNamesDelivered` exempts it.
* From the 1025th failure on the backoff of a notice raises in the handler, nothing is
  written and the row keeps its place at the head of the window. `EverythingDrains`
  promises nothing after that.
* With two tickers a text that is `sent` may become `failed`, and be sent again: each
  claims the row in turn and writes its outcome by id (`landlord_sms.py`'s claim
  promises that two ticks never both win a row; it keeps that for one value of
  `attempt` only). `EverythingDrains` says that the row ends nevertheless.
* A late `DeviceNotRegistered` revokes a token that has been registered again.
* A number is orphaned in silence when the purchase's answer is lost or the request
  dies before it compensates (`silent`).
* `pagination.py` says keyset paging cannot skip. A case that moves up between two
  pages jumps ahead of the cursor.
* `case_lock_pool.py` says ten graph runs cannot exhaust the admin pool. So it is; but
  ten texts to unknown numbers or redelivered replies each keep one admin connection
  while they wait for another, and all of them wait for the checkout timeout.

### Fairness

* Tickers: weak fairness of a ticker's own steps. `scheduler.py` restarts the task
  when it dies and guards each sweep, so a machine that runs keeps ticking. A crash
  sends a ticker back to its start, and crashes are bounded.
* Webhook and background task: weak fairness of a request that has begun. It is
  never required that Twilio delivers again, that the landlord acts, that a fault
  happens, or that the case lock is granted to a particular waiter. A creation of a
  property runs to its end unless it dies.
* Signing keys: strong fairness of a request, because `asyncio.Lock` serves its
  waiters in turn; the visitor comes again, and seconds pass.
* Clock and checkpoints: `Minute` in the chain, `RetryDue` in Intake and the day of
  the unrouted upkeep come.

Faults have no fairness and are bounded, so the liveness properties say: after the
last fault, things go on by themselves. `CaseLifecycle`, `Autonomy`, `Listing`,
`Routing` and `Pools` state safety only and need none.

## 4. What is proved

Each proof module extends its models, and its theorems hold for every value of the
constants that each model's one assumption allows: any number of processes,
messages and deliveries, and any bounds. An instance TLC checks is one of them. Every
safety property of a passing run is stated by a theorem. Few of the invariants are
inductive alone; the strengthenings are stated with their parts in the proof modules
and argued below. The type invariants are theorems too; `ServicesTypeOK` and
`BackgroundTypeOK`, where several modules meet, are also checked by the runs.

The assumptions say that bounds are numbers in a range and that sets are finite where
the code counts. One is worth naming: `KeysAssumption` has `Free \notin Logins`, for
a lock that is free is held by nobody.

**`EmergencyChainProofs`** (any tickers, contact configurations and bounds):

| Theorem | Statement |
|---|---|
| `ScheduleGaps` | due times strictly increase and are at most 15 minutes apart, table and formula alike |
| `TypeCorrect` | `Spec => []TypeOK` |
| `TextOnce` | `Spec => []OneTextPerClaim` |
| `StepsOnce` | `Spec => []EachStepOnce` |
| `StepsOnSchedule` | `Spec => []OnSchedule` |
| `SentIsTrue` | `Spec => []SentMeansDelivered` |
| `ExhaustedIsTrue` | `Spec => []ExhaustedMeansUnreachable` |
| `AckIsFinal` | `Spec => AckFinal` |

* `TypeInv` adds `TextPosition` to `TypeOK`: a process that is sending the safety
  text stands at that action of its step, so its position can move on.
* `TextInv` adds `SlotOwnership`: a claim number a process holds is not above the
  counter, no two senders hold the same one, and nothing has been sent under a
  number whose owner has yet to send. A compare-and-swap hands out the next
  number, which nobody has.
* `StepInv` adds `StepOwnership`: a process that executes a step claimed it, no two
  execute the same one, and what they have still to do has not been done. It is
  the same argument over `attempt`.
* `ScheduleInv` adds `ClaimsAreDue`: a process that holds the value of `attempt`
  found it due, and time does not go back.
* The truth of `sent` and `exhausted` rests on `TextInv` with `OutcomesAreTrue`:
  a process about to write an outcome has it.

**`DraftFlowProofs`** (any messages, requests and senders):

| Theorem | Statement |
|---|---|
| `TypeCorrect` | `Spec => []TypeOK` |
| `AtMostOneText` | `Spec => []SentOnce` |
| `TextsHaveConsent` | `Spec => []SentWithConsent` |
| `RejectedStays` | `Spec => []RejectedNeverSent` |
| `ClosedStays` | `Spec => []ClosedNeverClaimed` |
| `DecisionIsTargeted` | `Spec => DecisionHitsItsDraft` |
| `HumanApprovalIsFinal` | `Spec => HumanApprovalStands` |

`DraftInv` holds them all together, because each part leans on the others:

* `Unborn`: a run before `draft_response` has no draft, so inserting one never
  brings a sent draft back.
* `SendInv`: texts were sent only for drafts in `sending` or `sent`; a sender
  about to text or to record works on a draft in `sending`, and no two on the same.
* `LockInv`, `OnePending`, `DecideInv`: whoever is between two steps under the case
  lock holds it, at most one draft is pending, and a request that is deciding has
  the pending draft as its target. Two writers take no lock. Resolving the case
  cancels the target, and then nothing is left that could become pending before
  the decision; an undo fails while any draft is pending. That is why the thread,
  which asks for whatever is pending, finds the landlord's draft or none.
* `RejectInv`, `ClosedInv`: `rejected` and `cancelled` are final.

**`IntakeProofs`** (any messages, deliveries and tickers):

| Theorem | Statement |
|---|---|
| `TypeCorrect` | `Spec => []TypeOK` |
| `AcceptedIsRecorded` | `Spec => []AcceptedMeansRecorded` |
| `VerdictIsFinal` | `Spec => OutcomeIsFinal` |
| `ResolvedIsDrafted` | `Spec => []ResolvedMeansDrafted` |

* `TypeInv` adds `WorkIsStored` (whoever works on a message finds it stored),
  `ReadyToAnswer` (a request about to answer 200 has everything recorded) and
  `RetryHasNext` (a retry that is not settled has a checkpoint left).
* `VerdictIsFinal` needs only `TypeInv`: each of the sweep's writes is guarded by
  `StillHeld`, which no settled row satisfies.
* `CoverInv` adds `RunsCovered`: a run that has loaded its context has read its own
  message, so the draft it writes covers it, and a sweep that is about to close
  its retry as resolved has such a draft or sent the message to another case.

**`CaseLifecycleProofs`** (any cases, messages, sweepers and windows):

| Theorem | Statement |
|---|---|
| `TypeCorrect` | `Spec => []TypeOK` |
| `StaleIsQuiet` | `Spec => StaleMeansQuiet` |
| `ConfirmedIsUncontradicted` | `Spec => ConfirmedMeansUncontradicted` |
| `ClosedStays` | `Spec => ClosedDraftsStay` |

`CaseInv` adds four parts to `TypeOK`. `IdleIsUnheard`: a case is never more idle than
it is unheard, since whatever puts a message on it also bumps it; the sweep looks at
the first, the promise is about the second. `StandingUnopposed`: a standing proposal
has no objections, since a message that saw one takes it back in the statement that
puts it on the case. `DraftsAreLate`: a run drafts once, so no insert revives a
draft. `ClosedAreCancelled`: what a resolution found outstanding is cancelled, and
neither approval nor sender takes that back.

**`PrefilterProofs`** (any vocabulary, any windows, texts of any length):

| Theorem | Statement |
|---|---|
| `PrefilterTypes` | `PrefilterSpec => []PrefilterTypeOK` |
| `TextsScreened` | `PrefilterSpec => EveryTextScreened` |

No invariant is needed beyond the type: the three statements hold of every text.
`AnchorsHeard` follows because `Cores` are spans of core phrases and nothing else;
`AlarmsHeard` because the triggers of a continuous alarm are unsuppressible and cover
both orders; `RoutineStaysQuiet` by going through the triggers: a routine text has
words for the fire and the carbon monoxide triggers only, and each of those spans
overlaps the core of an activated guard.

**`FrontProofs`** (`Pools`: any jobs, cases and pool sizes, with or without a request
engine; `Routing`: any texts, deliveries and edits):

| Theorem | Statement |
|---|---|
| `PoolsTypeCorrect` | `PoolsSpec => []PoolsTypeOK` |
| `NobodyWedged` | `PoolsSpec => []WedgedByKeepersOnly` |
| `RoutingTypeCorrect` | `RoutingSpec => []RoutingTypeOK` |
| `EachTextGetsItsDue` | `RoutingSpec => []EachTextItsDue` |

* The pools are taken in one order: request, lock, admin. When every job is stuck,
  nobody holds a connection of the moment; whoever holds the lock waits for the admin
  pool; and if nobody holds the lock, its pool is idle and no key is taken. In each
  case somebody waits for the admin pool, and all that can be held of it are the
  connections requests keep. `OuterInv` says who those are.
* `RequestsOK` says where a delivery is and what it holds there. A delivery past the
  insert speaks of the stored row, because it stored it or has recovered it; a stored
  row never changes; and a delivery whose sender has been an active tenant since it
  came in cannot turn to the landlord's reply, because the tenants are read after the
  account.

**`ServicesProofs`** (`Autonomy`: any messages, cases and properties; `Listing`: any
rows, moves and pages):

| Theorem | Statement |
|---|---|
| `AutonomyTypesKept` | `AutonomySpec => []AutonomyTypeOK` |
| `CapIsHeld` | `AutonomySpec => []CapHeld` |
| `AutoIsRoutine` | `AutonomySpec => AutoMeansRoutine` |
| `AutoIsEarned` | `AutonomySpec => AutoMeansEarned` |
| `CardsShowNewest` | `AutonomySpec => []CardShowsNewest` |
| `ListTypesKept` | `ListSpec => []ListTypeOK` |
| `QuietRowsShownOnce` | `ListSpec => []QuietRowsOnce` |
| `ServicesTypes` | `ServicesSpec => []ServicesTypeOK` |

* `RunInv`. Runs of a case begin in order and the case's lock admits one
  (`RunsInOrder`, `OneRunPerCase`), so between drafting and sending a run finds its own
  draft pending and no other (`OnePending`): nobody else's automatic reply for the case
  can appear between the count a run makes and its send (`SetOut`), and the cap
  holds although counting and sending are in two sessions. `RatedRuns`,
  `RatedSources` and `AlarmsStand` keep what was classified: a case that was ever
  alarmed stays rated an emergency, which the send reads again, and the source of its
  card is its newest rated message (`CardsShowNewest`).
* `LadderInv`. The streak of a trust row is no longer than the run of untouched sends
  at the end of the ledger, and an unlocked row has a long enough run somewhere in it;
  sends only append (`EarnedStays`), and a revocation that takes autonomy away begins
  a new ledger.
* `ListInv`. The rows that stay where they are are split by the cursor into shown and
  still to read, and were shown in order. That a page and the cursor after it split
  the rest the same way needs of `Newest` that it is upward closed, is
  everything or at least n rows, and is never more than n (`NewestIsUpward`,
  `NewestAreAllOrEnough`, `NewestAreFew`): these rest on the well-foundedness of the
  natural numbers and on cardinalities.

TLC checked the three invariants on the `services` instance before they were proved.

**`BackgroundProofs`** (any rows, devices, landlords, requests, processes and faults):

| Theorem | Statement |
|---|---|
| `ProvisioningTypes`, `TextTypesKept`, `PushTypesKept`, `KeyTypesKept` | the types of the four specifications |
| `LiveNumbersAreKept` | `ProvisioningSpec => []LiveNumberKept` |
| `NumbersAreAccounted` | `ProvisioningSpec => []NumbersAccounted` |
| `ReleasesImplementOutbox` | `ProvisioningSpec => ReleasesKeepThePromise` |
| `RepliesNameDelivered` | `TextSpec => []ReplyNamesDelivered` |
| `SentTextsWereTaken` | `TextSpec => []` (a text marked sent was taken by the carrier) |
| `TextsShareTheirOutbox` | `TextSpec => TextsKeepThePromise` |
| `PushesStayHome` | `PushSpec => []NoStrayPush` |
| `PushesShareTheirOutbox` | `PushSpec => PushKeepsThePromise` |
| `KeysAreGuarded` | `KeysSpec => KeysGuarded` |
| `BackgroundTypes` | `Spec => []BackgroundTypeOK` |
| `BackgroundOutboxes` | `Spec => OutboxesKeepThePromise` |
| `BackgroundKeys` | `Spec => KeysGuarded` |

* Releases: `NumberInv`. A request's stage says what it has bought and inserted; a
  release row is of a deleted property, and no sweep has it before the request that
  wrote it has ended (`ReleasesSound`, `SweepsKnown`). The claim counts the attempt up
  under `WHERE attempt = :read` and sets a wait, so a claimed row has one owner,
  whom neither a stale selection nor a new one can rival (`ReleasesOwned`). The
  refinement therefore holds for any number of sweeps.
* Texts: `TextInv`. What is marked sent, or about to be, was taken (`SentTaken`), for
  any number of mailers; a reply takes its draft from a row marked sent. An
  acknowledgment is counted before it is sent (`CountsStart`), so its backoff never
  asks the table for an entry it does not have.
* Pushes: `PushInv`. A sweep selects rows of devices that are still their landlord's,
  and each device that moves afterwards is noted (`MovesKnown`).
* Keys: `KeyInv`. Who fetches holds the lock; the cache holds a published set; the
  cooldown and the time since the last forced refresh add up to the window.
* `TextsShareTheirOutbox` and `PushesShareTheirOutbox` need no more than `TextInv`, and
  of pushes that what is marked sent was called for and that a cascaded row's device is
  deleted (`PromiseInv`). Each step of a ticker is one of three moves on one row: take it in hand
  while it is open, call the other side with it in hand, or write and let go. No
  number of tickers is assumed. They cannot promise that an outcome is final, which
  the run `push_overlapping` refutes.

A behaviour of the composed specification is one of each component's
(`ServicesParts`, `BackgroundParts`), so what is proved of the parts is proved of what
the two runs check.

Only model-checked: all liveness (`SafetyTextDelivered`, `KeepsEscalating`,
`DueIsDrained`, `RetryLadderEnds`, `LandlordFindsOut`, `NobodyLeftInTheDark`,
`EverythingDrains`), which is beyond the installed provers; and of `Outbox`, that the
rows drain at all. `Unrouted` promises nothing but liveness beside its types.

## 5. Plan

The modules planned at the start are written and their safety is proved. What would
add most next, in this order:

1. The emergency chain with contacts that change while it runs.
2. Abstract specifications of the emergency chain and of a draft's life, which their
   modules would be proved to implement as the drains implement theirs.
3. A queue whose cards keep the rating of the draft that waits, to see which ordering
   of the cards could be promised.

## 6. Not modelled, and why

* The texts themselves, regular expressions and prompts are data. So are number
  formats: whose number it is, is one comparison of normal forms.
* The push and release sweeps take 50 rows a tick, which is not modelled: a row that waits
  behind fifty others waits for a later tick, and their claims or outcomes take those
  out of the window.
* Row locks inside a transaction are not modelled, so neither are database deadlocks.
* Row-level security, claims of a token, sessions and webhook signatures are properties
  of SQL privileges and of libraries.
* Time within a tick is not modelled: the chain's properties hold for ticks of any
  length, but how late a long tick makes a step is not bounded. The ten sweeps of a
  tick run one after the other; each module has the ticker to itself.
* The landlord may edit the emergency contacts while a chain runs; `reach` stays as it
  was. Twilio's status callbacks and the wording of calls are left out.
* The checkpointer is a library; its pool of five connections is used for a moment at
  a time and never held while something else is awaited.
* The per-message thread of an unknown sender, the loop that exhausts
  `_stale_then_insert_draft` (the case lock excludes it) and what an edit changes in a
  draft are left out.
* Profiles, vendors, migrations, cost reports, offline evaluations and the clients keep
  no protocol with the rest, or are outside the API.
