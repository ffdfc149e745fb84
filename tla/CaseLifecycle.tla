---------------------------- MODULE CaseLifecycle ----------------------------
(***************************************************************************)
(* The cases of one tenant: how a message finds its case (nodes/           *)
(* load_context.py, nodes/identify_case.py with the rules of               *)
(* case_lifecycle.py), how a case is closed by the landlord                *)
(* (routers/cases.py) or by time (sweep_cases), and when it reopens.       *)
(*                                                                         *)
(* identify_case reads the case and then writes it in one transaction at   *)
(* READ COMMITTED: its writes start from whatever others have committed    *)
(* since.  So do the updates of the sweep, whose WHERE clauses look again. *)
(* Clocks are ages in units of the windows' common divisor, counted up to  *)
(* the window that asks for them.  How a draft is decided and sent is      *)
(* DraftFlow's subject; here each is one step.                             *)
(***************************************************************************)
EXTENDS Naturals, FiniteSets

CONSTANTS
    MaxCase,     \* bound: cases
    MaxMessage,  \* bound: messages of the tenant
    Standing,    \* cases that are open at the start
    Sweepers,    \* processes that run sweep_cases
    Proposal,    \* RESOLUTION_PROPOSAL_WINDOW
    Stale,       \* AUTO_STALE_INACTIVITY
    Reopen,      \* REOPEN_WINDOW
    Signals      \* what the routing seam may say of a message

Cases == 1..MaxCase
Messages == 1..MaxMessage

ASSUME LifecycleAssumption ==
    /\ MaxCase \in Nat \ {0} /\ MaxMessage \in Nat \ {0} /\ Standing \in 0..MaxCase
    /\ Proposal \in Nat \ {0} /\ Stale \in Nat \ {0} /\ Reopen \in Nat \ {0}
    /\ Signals \subseteq {"none", "chitchat", "new", "match", "confirm", "split"}

VARIABLES
    case,       \* cases rows
    msg,        \* per message: its run, what the run has read
    draft,      \* per message: the draft its run wrote
    sweep,      \* per sweeper: control state and the actions it has decided on
    heard,      \* per case: age of the newest message put on it
    objections, \* per case: messages that answered the proposal now standing
    closed      \* drafts outstanding at a resolution of their case

vars == <<case, msg, draft, sweep, heard, objections, closed>>

OpenStatuses == {"open", "awaiting_approval", "awaiting_tenant", "reopened"}
AutoStaleEligible == OpenStatuses \ {"awaiting_approval"}

\* pending counts down to the moment a proposed resolution applies.
NoProposal == Proposal + 1
NoCase == [status |-> "none", reason |-> "none", resolved |-> 0, idle |-> 0,
           pending |-> NoProposal, related |-> 0]
NewCase(from) == [NoCase EXCEPT !.status = "open", !.related = from]
NoSnapshot == [status |-> "none", resolved |-> 0, pending |-> NoProposal]

Exists(c) == case[c].status # "none"
Opened(c) == case[c].status \in OpenStatuses

Init ==
    /\ case = [c \in Cases |-> IF c <= Standing THEN NewCase(0) ELSE NoCase]
    /\ msg = [m \in Messages |-> [pc |-> "new", opens |-> {}, signal |-> "none",
                                  target |-> 0, saw |-> NoSnapshot, case |-> 0]]
    /\ draft = [m \in Messages |-> "none"]
    /\ sweep = [s \in Sweepers |-> [pc |-> "idle", stale |-> {}, confirmed |-> {}]]
    /\ heard = [c \in Cases |-> 0]
    /\ objections = [c \in Cases |-> {}]
    /\ closed = {}

-----------------------------------------------------------------------------
(* Routing a message.                                                      *)

At(m, label) == msg[m].pc = label
MessageUnchanged == UNCHANGED <<draft, sweep, closed>>

\* load_context lists the tenant's open cases with their last activity.
\* Messages are numbered in the order in which their runs get here.
LoadContext(m) ==
    /\ At(m, "new") /\ (m > 1 => ~At(m - 1, "new"))
    /\ msg' = [msg EXCEPT ![m].pc = "route",
                          ![m].opens = {<<c, case[c].idle>> : c \in {c \in Cases : Opened(c)}}]
    /\ MessageUnchanged
    /\ UNCHANGED <<case, heard, objections>>

\* The most recently active of the listed cases.
MostRecent(opens) == {o[1] : o \in {o \in opens : \A other \in opens : o[2] <= other[2]}}

\* route_inbound_message: the case c the message goes to, 0 for a new one.
\* Without a signal it is the most recently active open case; a signal may
\* name any case, open or resolved.
Route(m, s, c) ==
    CASE s = "none" -> IF msg[m].opens = {} THEN c = 0 ELSE c \in MostRecent(msg[m].opens)
      [] s = "new" -> c = 0
      [] s \in {"match", "confirm", "split"} -> c \in Cases /\ Exists(c)
      [] OTHER -> FALSE

\* identify_case up to its SELECT of the case it was routed to.
IdentifyRead(m) ==
    /\ At(m, "route")
    /\ \E s \in Signals :
         \/ /\ s = "chitchat"
            /\ msg' = [msg EXCEPT ![m].pc = "done", ![m].signal = s, ![m].opens = {}]
         \/ \E c \in Cases \cup {0} :
              /\ Route(m, s, c)
              /\ msg' = [msg EXCEPT ![m].pc = "write", ![m].signal = s, ![m].target = c,
                                    ![m].opens = {},
                                    ![m].saw = IF c = 0 THEN NoSnapshot ELSE
                                        [status |-> case[c].status, resolved |-> case[c].resolved,
                                         pending |-> case[c].pending]]
    /\ MessageUnchanged
    /\ UNCHANGED <<case, heard, objections>>

\* decide_reopen_or_new, both ends of the window included.
ReopensIt(saw) == saw.resolved <= Reopen

\* The lowest id that is not in use: INSERT INTO cases.
Fresh(rows) == {c \in Cases : /\ rows[c].status = "none"
                              /\ \A lower \in 1..(c - 1) : rows[lower].status # "none"}

\* Mutant: the proposal survives a message.
ContradictNever(row, saw) == row
\* contradict_resolution, on what the SELECT saw.
Contradict(row, saw) ==
    IF saw.pending # NoProposal THEN [row EXCEPT !.pending = NoProposal] ELSE row

\* propose_resolution, on the case the message ended up on.
Propose(row, signal) == IF signal = "confirm" THEN [row EXCEPT !.pending = Proposal] ELSE row

\* The row of an attached case: bumped if the SELECT saw it open, reopened
\* by id alone if it saw it resolved.
Attached(row, saw) ==
    IF saw.status = "resolved"
    THEN [row EXCEPT !.status = "reopened", !.reason = "none", !.resolved = 0,
                     !.idle = 0, !.pending = NoProposal]
    ELSE Contradict([row EXCEPT !.idle = 0], saw)

Reopens(m) == msg[m].target # 0 /\ msg[m].saw.status = "resolved" /\ ReopensIt(msg[m].saw)
Attaches(m) == msg[m].target # 0 /\ (msg[m].saw.status # "resolved" \/ Reopens(m))

\* Where the message ends up: on the case it names, on a new one, or, when it
\* raises two issues, on both.
Primary(m, c) == IF Attaches(m) THEN c = msg[m].target ELSE c \in Fresh(case)

\* identify_case from its first write to its commit.
IdentifyWrite(m) ==
    LET signal == msg[m].signal
        link == IF Attaches(m) THEN 0 ELSE msg[m].target IN
    /\ At(m, "write")
    /\ \E c \in Cases :
         /\ Primary(m, c)
         /\ LET row == IF Attaches(m) THEN Attached(case[c], msg[m].saw) ELSE NewCase(link)
                first == [case EXCEPT ![c] = Propose(row, signal)]
                second == IF signal = "split" THEN Fresh(first) ELSE {} IN
            /\ signal = "split" => second # {}
            /\ case' = [d \in Cases |-> IF d \in second THEN NewCase(0) ELSE first[d]]
            /\ heard' = [d \in Cases |-> IF d \in second \cup {c} THEN 0 ELSE heard[d]]
         /\ objections' = [objections EXCEPT ![c] =
                IF signal = "confirm" THEN {}
                ELSE IF msg[m].saw.pending # NoProposal THEN objections[c] \cup {m}
                ELSE objections[c]]
         /\ msg' = [msg EXCEPT ![m].pc = "draft", ![m].case = c]
    /\ MessageUnchanged

\* The run drafts under the case lock; it does not look at the case's status.
DraftsOn(c, S) == {m \in Messages : msg[m].case = c /\ draft[m] \in S}
LockFree(c) == \A m \in Messages : msg[m].case = c => ~(At(m, "mark") \/ At(m, "flip"))
DraftUnchanged == UNCHANGED <<sweep, heard, objections, closed>>

InsertDraft(m) ==
    /\ At(m, "draft") /\ LockFree(msg[m].case)
    /\ draft' = [d \in Messages |->
                    CASE d = m -> "pending"
                      [] d # m /\ d \in DraftsOn(msg[m].case, {"pending"}) -> "stale"
                      [] OTHER -> draft[d]]
    /\ msg' = [msg EXCEPT ![m].pc = "mark"]
    /\ DraftUnchanged
    /\ UNCHANGED case

\* mark_awaiting_approval finds the pending draft, and then flips the case.
MarkSelect(m) ==
    /\ At(m, "mark")
    /\ msg' = [msg EXCEPT ![m].pc =
                  IF DraftsOn(msg[m].case, {"pending"}) = {} THEN "done" ELSE "flip"]
    /\ DraftUnchanged
    /\ UNCHANGED <<case, draft>>

MarkFlip(m) ==
    /\ At(m, "flip")
    /\ case' = [case EXCEPT ![msg[m].case].status = "awaiting_approval"]
    /\ msg' = [msg EXCEPT ![m].pc = "done"]
    /\ DraftUnchanged
    /\ UNCHANGED draft

\* A run that dies after its draft leaves the case as it is.
RunDies(m) ==
    /\ msg[m].pc \in {"draft", "mark", "flip"}
    /\ msg' = [msg EXCEPT ![m].pc = "done"]
    /\ DraftUnchanged
    /\ UNCHANGED <<case, draft>>

Message(m) ==
    \/ LoadContext(m) \/ IdentifyRead(m) \/ IdentifyWrite(m)
    \/ InsertDraft(m) \/ MarkSelect(m) \/ MarkFlip(m)

-----------------------------------------------------------------------------
(* The landlord and the draft sender.                                      *)

\* An approval takes the case to awaiting_approval if it is not there.
Approve(m) ==
    /\ draft[m] = "pending" /\ LockFree(msg[m].case)
    /\ draft' = [draft EXCEPT ![m] = "approved"]
    /\ case' = [case EXCEPT ![msg[m].case].status = "awaiting_approval"]
    /\ UNCHANGED <<msg, sweep, heard, objections, closed>>

\* The sender passes over a case that is resolved.
Send(m) ==
    /\ draft[m] = "approved"
    /\ case[msg[m].case].status # "resolved"
    /\ draft' = [draft EXCEPT ![m] = "sent"]
    /\ case' = [case EXCEPT ![msg[m].case].status = "awaiting_tenant"]
    /\ UNCHANGED <<msg, sweep, heard, objections, closed>>

\* Mutant: only the landlord's own resolution cancels what is outstanding.
CancelledByEndpointOnly(S, by) == IF by = "landlord" THEN S ELSE {}
\* _CANCEL_OPEN_DRAFTS_SQL, of the endpoint and of the sweep.
Cancelled(S, by) == S

Outstanding(C) == UNION {DraftsOn(c, {"pending", "approved"}) : c \in C}
CancelDrafts(C, by) ==
    LET gone == Cancelled(Outstanding(C), by) IN
    /\ draft' = [m \in Messages |-> IF m \in gone THEN "cancelled" ELSE draft[m]]
    /\ closed' = closed \cup Outstanding(C)

Resolved(row, reason) ==
    [row EXCEPT !.status = "resolved", !.reason = reason, !.resolved = 0, !.idle = 0,
                !.pending = NoProposal]

\* POST /v1/cases/{id}/resolve; a repeat changes nothing.
ResolveCase(c) ==
    /\ Opened(c)
    /\ case' = [case EXCEPT ![c] = Resolved(@, "landlord")]
    /\ CancelDrafts({c}, "landlord")
    /\ UNCHANGED <<msg, sweep, heard, objections>>

-----------------------------------------------------------------------------
(* sweep_cases.                                                            *)

\* apply_time_transitions: the legs exclude each other, and a standing
\* proposal is never overtaken by the other leg.
DueConfirmed == {c \in Cases : Opened(c) /\ case[c].pending = 0}
DueStale == {c \in Cases : /\ case[c].status \in AutoStaleEligible
                           /\ case[c].pending = NoProposal
                           /\ case[c].idle = Stale}

SweepSelect(s) ==
    /\ sweep[s].pc = "idle"
    /\ sweep' = [sweep EXCEPT ![s] = [pc |-> "apply", stale |-> DueStale,
                                      confirmed |-> DueConfirmed]]
    /\ UNCHANGED <<case, msg, draft, heard, objections, closed>>

\* Mutant: the update is guarded by the id alone.
StillStaleById(c) == TRUE
\* _UPDATE_TENANT_CONFIRMED_SQL and _UPDATE_AUTO_STALE_SQL look again.
StillConfirmed(c) == case[c].pending = 0
StillStale(c) == /\ case[c].pending = NoProposal
                 /\ case[c].status \in AutoStaleEligible
                 /\ case[c].idle = Stale

SweepApply(s) ==
    LET confirmed == {c \in sweep[s].confirmed : StillConfirmed(c)}
        stale == {c \in sweep[s].stale : StillStale(c)} IN
    /\ sweep[s].pc = "apply"
    /\ case' = [c \in Cases |->
                   IF c \in confirmed THEN Resolved(case[c], "tenant_confirmed")
                   ELSE IF c \in stale THEN Resolved(case[c], "auto_stale")
                   ELSE case[c]]
    /\ CancelDrafts(confirmed \cup stale, "sweep")
    /\ sweep' = [sweep EXCEPT ![s] = [pc |-> "swept", stale |-> {}, confirmed |-> {}]]
    /\ UNCHANGED <<msg, heard, objections>>

\* Time passes: it does not while a transaction is between two statements.
UpTo(limit, age) == IF age < limit THEN age + 1 ELSE limit
Older(row) ==
    [row EXCEPT !.idle = UpTo(Stale, row.idle),
                !.resolved = IF row.status = "resolved" THEN UpTo(Reopen + 1, row.resolved)
                             ELSE row.resolved,
                !.pending = IF row.pending \in 1..Proposal THEN row.pending - 1
                            ELSE row.pending]
Day ==
    /\ \A m \in Messages : msg[m].pc \in {"new", "done"}
    /\ \A s \in Sweepers : sweep[s].pc # "apply"
    /\ case' = [c \in Cases |-> IF Exists(c) THEN Older(case[c]) ELSE case[c]]
    /\ heard' = [c \in Cases |-> IF Exists(c) THEN UpTo(Stale, heard[c]) ELSE heard[c]]
    /\ sweep' = [s \in Sweepers |-> [sweep[s] EXCEPT !.pc = "idle"]]
    /\ UNCHANGED <<msg, draft, objections, closed>>

Sweep(s) == SweepSelect(s) \/ SweepApply(s)

Next ==
    \/ \E m \in Messages : Message(m) \/ RunDies(m) \/ Approve(m) \/ Send(m)
    \/ \E c \in Cases : ResolveCase(c)
    \/ \E s \in Sweepers : Sweep(s)
    \/ Day

\* Nothing schedules sweep_cases: no fairness for a sweep.
Spec == Init /\ [][Next]_vars

-----------------------------------------------------------------------------
(* Properties.                                                             *)

TypeOK ==
    /\ case \in [Cases -> [status : OpenStatuses \cup {"none", "resolved"},
                           reason : {"none", "landlord", "tenant_confirmed", "auto_stale"},
                           resolved : 0..(Reopen + 1), idle : 0..Stale,
                           pending : 0..NoProposal, related : 0..MaxCase]]
    /\ msg \in [Messages -> [pc : {"new", "route", "write", "draft", "mark", "flip", "done"},
                             opens : SUBSET (Cases \X (0..Stale)),
                             signal : Signals \cup {"none"}, target : 0..MaxCase,
                             saw : [status : OpenStatuses \cup {"none", "resolved"},
                                    resolved : 0..(Reopen + 1), pending : 0..NoProposal],
                             case : 0..MaxCase]]
    /\ draft \in [Messages -> {"none", "pending", "stale", "approved", "cancelled", "sent"}]
    /\ sweep \in [Sweepers -> [pc : {"idle", "apply", "swept"}, stale : SUBSET Cases,
                               confirmed : SUBSET Cases]]
    /\ heard \in [Cases -> 0..Stale]
    /\ objections \in [Cases -> SUBSET Messages]
    /\ closed \subseteq Messages

BecomesClosed(c, reason) ==
    case[c].status # "resolved" /\ case'[c].status = "resolved" /\ case'[c].reason = reason

\* A case goes stale only when nothing was put on it for the whole window,
\* and never from under the landlord's card or a standing proposal, however
\* old the sweep's snapshot is.
StaleMeansQuiet ==
    [][\A c \in Cases : BecomesClosed(c, "auto_stale") =>
          heard[c] = Stale /\ case[c].status # "awaiting_approval"
                          /\ case[c].pending = NoProposal]_vars

\* A proposed resolution is applied only if no message that found the proposal
\* standing was put on the case.
ConfirmedMeansUncontradicted ==
    [][\A c \in Cases : BecomesClosed(c, "tenant_confirmed") => objections[c] = {}]_vars

\* A draft that was outstanding when its case was closed, by the landlord or by
\* time, is not sent, not even after the case reopened.
ClosedDraftsStay ==
    [][\A m \in closed : draft'[m] = "sent" => draft[m] = "sent"]_vars

=============================================================================
