---------------------------- MODULE IntakeProofs ----------------------------
(***************************************************************************)
(* Safety of the intake for any number of messages, deliveries, tickers,   *)
(* faults and crashes.                                                     *)
(***************************************************************************)
EXTENDS Intake, TLAPS

Labels == {"unsent", "store", "artifacts", "respond", "failed", "gate", "load", "identify",
           "wait", "queue", "classify", "draft", "mark", "pause", "generic", "degrade",
           "lastresort", "skipped", "done", "idle", "check", "resolve", "reschedule", "record"}

\* Where a process works on a message that must be in the messages table.
AtWork == {"artifacts", "gate", "load", "identify", "wait", "queue", "classify", "draft", "mark",
           "pause", "generic", "degrade", "lastresort", "check", "resolve", "reschedule",
           "record"}

ProcRecord == [pc : Labels, msg : Messages, saw : SUBSET Messages,
               attempt : 0..Len(RetrySchedule)]
ProcType == [Procs -> ProcRecord]

CaseStatus == {"open", "awaiting_approval", "awaiting_tenant", "resolved", "reopened"}
RetryRecord == [status : {"none", "pending", "exhausted"},
                outcome : {"none", "superseded", "resolved", "escalated"},
                attempt : 0..Len(RetrySchedule), due : BOOLEAN, exceptions : Nat,
                snapshot : {"none"} \cup CaseStatus]
RetryType == [Messages -> RetryRecord]

\* The types of everything but processes, retry rows and the fault counter.
RowsTyped ==
    /\ tier0 \in [Messages -> Tier0]
    /\ stored \subseteq Messages /\ letters \subseteq Messages /\ answered \subseteq Messages
    /\ calls \subseteq stored /\ eyes \subseteq stored /\ acks \subseteq stored
    /\ audited \subseteq stored /\ drafted \subseteq stored /\ linked \subseteq stored
    /\ case \in CaseStatus
    /\ pending \in 0..MaxMessage
    /\ thread \in {"new", "running", "paused", "ended"}
    /\ lock \in Procs \cup {Free}
    /\ covered \subseteq stored /\ moved \subseteq stored /\ paged \subseteq Messages
    /\ crashes \in 0..MaxCrash

\* Whoever works on a message, and whatever a run has read, is in the table;
\* only a message of a known property gets there.
WorkIsStored ==
    /\ \A m \in stored : tier0[m] # "unrouted"
    /\ \A p \in Procs : proc[p].saw \subseteq stored
    /\ \A p \in Procs : proc[p].pc \in AtWork => proc[p].msg \in stored

\* A request that is about to answer 200 has everything recorded.
ReadyToAnswer ==
    \A p \in Procs : proc[p].pc = "respond" =>
        IF tier0[proc[p].msg] = "unrouted" THEN proc[p].msg \in letters
        ELSE /\ proc[p].msg \in stored
             /\ tier0[proc[p].msg] = "hard" => proc[p].msg \in calls

\* A retry row belongs to a stored message and, while it is not settled, has a
\* checkpoint left.
RetryHasNext ==
    \A m \in Messages :
        /\ retry[m].status # "none" => m \in stored
        /\ retry[m].status # "exhausted" => retry[m].attempt < Len(RetrySchedule)

TypeInv == TypeOK /\ WorkIsStored /\ ReadyToAnswer /\ RetryHasNext

-----------------------------------------------------------------------------
(* What the operators do.                                                  *)

LEMMA ScheduleLength == Len(RetrySchedule) = 3
BY DEF RetrySchedule

\* Moving a process on changes nothing else of it, and nothing of the others.
LEMMA GotoFacts ==
    ASSUME proc \in ProcType, NEW p \in Procs, NEW label \in Labels, Goto(p, label)
    PROVE  /\ proc' \in ProcType
           /\ \A q \in Procs : /\ proc'[q].pc = IF q = p THEN label ELSE proc[q].pc
                               /\ proc'[q].msg = proc[q].msg
                               /\ proc'[q].saw = proc[q].saw
                               /\ proc'[q].attempt = proc[q].attempt
<1>1. proc[p] \in ProcRecord
  BY DEF ProcType
<1>2. DEFINE r == [proc[p] EXCEPT !.pc = label]
<1>3. /\ r \in ProcRecord
      /\ r.pc = label /\ r.msg = proc[p].msg /\ r.saw = proc[p].saw /\ r.attempt = proc[p].attempt
  BY <1>1 DEF ProcRecord
<1>4. proc' = [proc EXCEPT ![p] = r]
  BY DEF Goto
<1>. HIDE DEF r
<1>. QED
  BY <1>3, <1>4 DEF ProcType

LEMMA TypeParts ==
    TypeOK <=> /\ RowsTyped /\ proc \in ProcType /\ retry \in RetryType
               /\ faults \in 0..MaxFault
BY DEF TypeOK, RowsTyped, CaseStatus, ProcType, ProcRecord, Labels, RetryType, RetryRecord

LEMMA TypePartsNext ==
    /\ RowsTyped' /\ proc' \in ProcType /\ retry' \in RetryType /\ faults' \in 0..MaxFault
        => TypeOK'
BY DEF TypeOK, RowsTyped, CaseStatus, ProcType, ProcRecord, Labels, RetryType, RetryRecord

LEMMA FaultTyped == ASSUME TypeOK, Fault \/ UNCHANGED faults PROVE faults' \in 0..MaxFault
BY IntakeAssumption DEF TypeOK, Fault

LEMMA ProcTyped == TypeOK => proc \in ProcType
BY DEF TypeOK, ProcType, ProcRecord, Labels

\* Releasing the lock leaves it free or with another process.
LEMMA UnlockFacts ==
    ASSUME TypeOK, NEW p \in Procs, Unlock(p)
    PROVE  lock' \in Procs \cup {Free}
BY DEF TypeOK, Unlock

LEMMA ProcKinds == Deliveries \subseteq Procs /\ Tickers \subseteq Procs
BY DEF Procs

-----------------------------------------------------------------------------
(* Types.                                                                  *)

LEMMA TypeInit == Init => TypeInv
<1> SUFFICES ASSUME Init PROVE TypeInv
  OBVIOUS
<1>1. proc \in ProcType /\ \A p \in Procs : proc[p].saw = {} /\ proc[p].pc \in {"idle", "unsent"}
  <2>1. \A p \in Procs : p \notin Tickers => p[1] \in Messages
    BY DEF Procs, Deliveries
  <2>2. 1 \in Messages /\ 0 \in 0..Len(RetrySchedule)
    BY IntakeAssumption, ScheduleLength DEF Messages
  <2>. QED
    BY <2>1, <2>2 DEF Init, ProcType, ProcRecord, Labels
<1>2. TypeOK
  BY <1>1, ScheduleLength, IntakeAssumption DEF Init, TypeOK, ProcType, ProcRecord, Labels, NoRetry
<1>3. WorkIsStored /\ ReadyToAnswer
  BY <1>1 DEF Init, WorkIsStored, ReadyToAnswer, AtWork
<1>4. RetryHasNext
  BY ScheduleLength DEF Init, RetryHasNext, NoRetry
<1>. QED
  BY <1>2, <1>3, <1>4 DEF TypeInv

LEMMA TypeDeliver == ASSUME TypeInv, NEW p \in Deliveries, Deliver(p) PROVE TypeInv'
<1>1. p \in Procs /\ "store" \in Labels
  BY ProcKinds DEF Labels
<1>2. proc' \in ProcType /\ \A q \in Procs :
        /\ proc'[q].pc = IF q = p THEN "store" ELSE proc[q].pc
        /\ proc'[q].msg = proc[q].msg /\ proc'[q].saw = proc[q].saw
  BY <1>1, GotoFacts, ProcTyped DEF Deliver, TypeInv
<1>3. TypeOK'
  BY <1>2 DEF Deliver, WebhookUnchanged, caseVars, TypeInv, TypeOK, ProcType, ProcRecord, Labels
<1>4. (WorkIsStored /\ ReadyToAnswer /\ RetryHasNext)'
  BY <1>2 DEF Deliver, WebhookUnchanged, caseVars, TypeInv, WorkIsStored, ReadyToAnswer,
              RetryHasNext, AtWork
<1>. QED
  BY <1>3, <1>4 DEF TypeInv

LEMMA TypeStore == ASSUME TypeInv, NEW p \in Procs, Store(p) PROVE TypeInv'
<1>1. PICK label \in {"respond", "artifacts"} :
         /\ Goto(p, label)
         /\ label = "artifacts" => tier0[Msg(p)] = "hard"
         /\ tier0[Msg(p)] = "hard" => label = "artifacts"
  BY DEF Store
<1>2. proc' \in ProcType /\ \A q \in Procs :
        /\ proc'[q].pc = IF q = p THEN label ELSE proc[q].pc
        /\ proc'[q].msg = proc[q].msg /\ proc'[q].saw = proc[q].saw
  BY <1>1, GotoFacts, ProcTyped DEF TypeInv, Labels
<1>3. Msg(p) \in Messages
  BY ProcTyped DEF TypeInv, Msg, ProcType, ProcRecord
<1>4. TypeOK'
  BY <1>2, <1>3 DEF Store, WebhookUnchanged, caseVars, TypeInv, TypeOK, ProcType, ProcRecord, Labels
<1>5. WorkIsStored'
  BY <1>1, <1>2, <1>3 DEF Store, WebhookUnchanged, TypeInv, WorkIsStored, AtWork, Msg
<1>6. ReadyToAnswer'
  BY <1>1, <1>2, <1>3 DEF Store, WebhookUnchanged, TypeInv, ReadyToAnswer, Msg
<1>7. RetryHasNext'
  BY DEF Store, WebhookUnchanged, TypeInv, RetryHasNext
<1>. QED
  BY <1>4, <1>5, <1>6, <1>7 DEF TypeInv

\* What a webhook step does besides its own rows is to move its process on.
LEMMA TypeArtifacts == ASSUME TypeInv, NEW p \in Procs, Artifacts(p) PROVE TypeInv'
<1>1. proc' \in ProcType /\ \A q \in Procs :
        /\ proc'[q].pc = IF q = p THEN "respond" ELSE proc[q].pc
        /\ proc'[q].msg = proc[q].msg /\ proc'[q].saw = proc[q].saw
  BY GotoFacts, ProcTyped DEF Artifacts, TypeInv, Labels
<1>2. Msg(p) \in stored
  BY DEF Artifacts, TypeInv, WorkIsStored, AtWork, At, Msg
<1>3. TypeOK'
  BY <1>1, <1>2 DEF Artifacts, WebhookUnchanged, caseVars, TypeInv, TypeOK, ProcType, ProcRecord,
                    Labels
<1>4. (WorkIsStored /\ ReadyToAnswer /\ RetryHasNext)'
  BY <1>1, <1>2 DEF Artifacts, WebhookUnchanged, TypeInv, WorkIsStored, ReadyToAnswer,
                    RetryHasNext, AtWork, Msg
<1>. QED
  BY <1>3, <1>4 DEF TypeInv

\* A process that moves to a place it may be at, and touches no row of the
\* webhook, keeps the invariants about processes.
LEMMA MoveOn ==
    ASSUME TypeInv, NEW p \in Procs, NEW label \in Labels, Goto(p, label),
           label # "respond", label \in AtWork => proc[p].pc \in AtWork \/ Msg(p) \in stored,
           UNCHANGED <<tier0, stored, letters, calls>>
    PROVE  proc' \in ProcType /\ WorkIsStored' /\ ReadyToAnswer'
<1>1. proc' \in ProcType /\ \A q \in Procs :
        /\ proc'[q].pc = IF q = p THEN label ELSE proc[q].pc
        /\ proc'[q].msg = proc[q].msg /\ proc'[q].saw = proc[q].saw
  BY GotoFacts, ProcTyped DEF TypeInv
<1>2. WorkIsStored'
  BY <1>1 DEF TypeInv, WorkIsStored, Msg
<1>3. ReadyToAnswer'
  BY <1>1 DEF TypeInv, ReadyToAnswer
<1>. QED
  BY <1>1, <1>2, <1>3

LEMMA MsgTyped == ASSUME TypeOK, NEW p \in Procs PROVE Msg(p) \in Messages
BY ProcTyped DEF Msg, ProcType, ProcRecord

LEMMA AtWorkStored ==
    ASSUME TypeInv, NEW p \in Procs, proc[p].pc \in AtWork PROVE Msg(p) \in stored
BY DEF TypeInv, WorkIsStored, Msg

LEMMA TypeWebhookError == ASSUME TypeInv, NEW p \in Procs, WebhookError(p) PROVE TypeInv'
<1>1. proc' \in ProcType /\ WorkIsStored' /\ ReadyToAnswer'
  BY MoveOn DEF WebhookError, WebhookUnchanged, AfterError, Labels, AtWork
<1>m. Msg(p) \in Messages
  BY MsgTyped DEF TypeInv
<1>a. faults' \in 0..MaxFault /\ UNCHANGED retry
  BY FaultTyped DEF WebhookError, WebhookUnchanged, TypeInv
<1>b. RowsTyped'
  BY <1>m, TypeParts DEF WebhookError, WebhookUnchanged, caseVars, Page, TypeInv, RowsTyped
<1>2. TypeOK'
  BY <1>1, <1>a, <1>b, TypeParts, TypePartsNext DEF TypeInv
<1>3. RetryHasNext'
  BY DEF WebhookError, WebhookUnchanged, TypeInv, RetryHasNext
<1>. QED
  BY <1>1, <1>2, <1>3 DEF TypeInv

LEMMA TypeRespond == ASSUME TypeInv, NEW p \in Procs, Respond(p) PROVE TypeInv'
<1>1. PICK label \in {"done", "gate"} :
         Goto(p, label) /\ (label = "gate" => tier0[Msg(p)] # "unrouted")
  BY DEF Respond
<1>2. label = "gate" => Msg(p) \in stored
  BY <1>1 DEF Respond, TypeInv, ReadyToAnswer, At, Msg
<1>3. proc' \in ProcType /\ WorkIsStored' /\ ReadyToAnswer'
  BY <1>1, <1>2, MoveOn DEF Respond, WebhookUnchanged, Labels, AtWork
<1>m. Msg(p) \in Messages
  BY MsgTyped DEF TypeInv
<1>a. faults' \in 0..MaxFault /\ UNCHANGED retry
  BY FaultTyped DEF Respond, WebhookUnchanged, TypeInv
<1>b. RowsTyped'
  BY <1>m, TypeParts DEF Respond, WebhookUnchanged, caseVars, TypeInv, RowsTyped
<1>4. TypeOK'
  BY <1>3, <1>a, <1>b, TypeParts, TypePartsNext DEF TypeInv
<1>5. RetryHasNext'
  BY DEF Respond, WebhookUnchanged, TypeInv, RetryHasNext
<1>. QED
  BY <1>3, <1>4, <1>5 DEF TypeInv

\* Queueing a retry makes a typed row with its first checkpoint ahead.
LEMMA QueueFacts ==
    ASSUME TypeInv, NEW m \in stored, QueueRetry(m)
    PROVE  /\ retry' \in RetryType
           /\ \A n \in Messages :
                 /\ retry'[n].status # "none" => n \in stored
                 /\ retry'[n].status # "exhausted" => retry'[n].attempt < Len(RetrySchedule)
<1>1. retry \in RetryType /\ m \in Messages /\ case \in CaseStatus
  BY DEF TypeInv, TypeOK, RetryType, RetryRecord, CaseStatus
<1>2. CASE retry[m].status # "none"
  BY <1>1, <1>2 DEF QueueRetry, TypeInv, RetryHasNext
<1>3. CASE retry[m].status = "none"
  <2> DEFINE row == [retry[m] EXCEPT !.status = "pending", !.snapshot = case]
  <2>1. retry[m] \in RetryRecord
    BY <1>1 DEF RetryType
  <2>2. row \in RetryRecord /\ row.status = "pending" /\ row.attempt = retry[m].attempt
    BY <1>1, <2>1 DEF RetryRecord, CaseStatus
  <2>3. retry' = [retry EXCEPT ![m] = row]
    BY <1>3 DEF QueueRetry
  <2>. HIDE DEF row
  <2>4. \A n \in Messages : retry'[n] = IF n = m THEN row ELSE retry[n]
    BY <1>1, <2>3 DEF RetryType
  <2>. QED
    BY <1>1, <1>3, <2>2, <2>3, <2>4 DEF RetryType, TypeInv, RetryHasNext
<1>. QED
  BY <1>2, <1>3

LEMMA TypeFrom ==
    ASSUME RowsTyped', proc' \in ProcType, retry' \in RetryType, faults' \in 0..MaxFault,
           WorkIsStored', ReadyToAnswer', RetryHasNext'
    PROVE  TypeInv'
BY TypePartsNext DEF TypeInv

\* A step that moves one process on and leaves the retry rows alone.
LEMMA PlainStep ==
    ASSUME TypeInv, RowsTyped', NEW p \in Procs, NEW label \in Labels, Goto(p, label),
           label # "respond", label \in AtWork => proc[p].pc \in AtWork \/ Msg(p) \in stored,
           UNCHANGED <<tier0, stored, letters, calls, retry>>, Fault \/ UNCHANGED faults
    PROVE  TypeInv'
<1>1. proc' \in ProcType /\ WorkIsStored' /\ ReadyToAnswer'
  BY MoveOn
<1>2. retry' \in RetryType /\ faults' \in 0..MaxFault
  BY TypeParts, FaultTyped DEF TypeInv
<1>3. RetryHasNext'
  BY DEF TypeInv, RetryHasNext
<1>. QED
  BY <1>1, <1>2, <1>3, TypeFrom

\* A step that moves one process on and changes its message's retry row.
LEMMA RetryStep ==
    ASSUME TypeInv, RowsTyped', NEW p \in Procs, NEW label \in Labels, Goto(p, label),
           label # "respond", label \in AtWork => proc[p].pc \in AtWork \/ Msg(p) \in stored,
           UNCHANGED <<tier0, stored, letters, calls>>, Fault \/ UNCHANGED faults,
           retry' \in RetryType, RetryHasNext'
    PROVE  TypeInv'
<1>1. proc' \in ProcType /\ WorkIsStored' /\ ReadyToAnswer'
  BY MoveOn
<1>2. faults' \in 0..MaxFault
  BY FaultTyped DEF TypeInv
<1>. QED
  BY <1>1, <1>2, TypeFrom

LEMMA RowsNow == TypeInv => RowsTyped
BY TypeParts DEF TypeInv

LEMMA TypeGate == ASSUME TypeInv, NEW p \in Procs, Gate(p) PROVE TypeInv'
<1>1. PICK label \in {"skipped", "load"} : Goto(p, label)
  BY DEF Gate
<1>2. RowsTyped'
  BY RowsNow DEF Gate, RunUnchanged, caseVars, RowsTyped
<1>. QED
  BY <1>1, <1>2, PlainStep DEF Gate, At, RunUnchanged, Labels, AtWork

LEMMA TypeLoadContext == ASSUME TypeInv, NEW p \in Procs, LoadContext(p) PROVE TypeInv'
<1>1. Msg(p) \in stored
  BY AtWorkStored DEF LoadContext, At, AtWork
<1>2. RowsTyped'
  BY <1>1, RowsNow DEF LoadContext, RunUnchanged, caseVars, RowsTyped
<1>3. CASE case = "resolved"
  <2>1. PICK label \in {"resolve", "reschedule", "done"} : Goto(p, label)
    BY <1>3 DEF LoadContext
  <2>. QED
    BY <1>1, <1>2, <2>1, PlainStep DEF LoadContext, RunUnchanged, Labels, AtWork
<1>4. CASE case # "resolved"
  <2> DEFINE r == [proc[p] EXCEPT !.pc = "identify", !.saw = stored]
  <2>1. proc[p] \in ProcRecord /\ stored \subseteq Messages
    BY TypeParts DEF TypeInv, ProcType, RowsTyped
  <2>2. r \in ProcRecord /\ r.pc = "identify" /\ r.msg = Msg(p) /\ r.saw = stored
    BY <2>1 DEF ProcRecord, Labels, Msg
  <2>3. proc' = [proc EXCEPT ![p] = r]
    BY <1>4 DEF LoadContext
  <2>. HIDE DEF r
  <2>4. proc' \in ProcType /\ \A q \in Procs : proc'[q] = IF q = p THEN r ELSE proc[q]
    BY <2>2, <2>3, TypeParts DEF TypeInv, ProcType
  <2>5. WorkIsStored' /\ ReadyToAnswer' /\ RetryHasNext'
    BY <1>1, <2>2, <2>4 DEF LoadContext, RunUnchanged, TypeInv, WorkIsStored, ReadyToAnswer,
                            RetryHasNext
  <2>6. retry' \in RetryType /\ faults' \in 0..MaxFault
    BY TypeParts DEF LoadContext, TypeInv
  <2>. QED
    BY <1>2, <2>4, <2>5, <2>6, TypeFrom
<1>. QED
  BY <1>3, <1>4

LEMMA TypeIdentifyCase == ASSUME TypeInv, NEW p \in Procs, IdentifyCase(p) PROVE TypeInv'
<1>1. Msg(p) \in stored
  BY AtWorkStored DEF IdentifyCase, At, AtWork
<1>2. RowsTyped'
  BY <1>1, RowsNow DEF IdentifyCase, RunUnchanged, RowsTyped, CaseStatus
<1>. QED
  BY <1>1, <1>2, PlainStep DEF IdentifyCase, RunUnchanged, Labels

LEMMA TypeTakeLock == ASSUME TypeInv, NEW p \in Procs, TakeLock(p) PROVE TypeInv'
<1>1. RowsTyped'
  BY RowsNow DEF TakeLock, RunUnchanged, RowsTyped
<1>. QED
  BY <1>1, PlainStep DEF TakeLock, RunUnchanged, Labels, At, AtWork

LEMMA TypeLockTimeout == ASSUME TypeInv, NEW p \in Procs, LockTimeout(p) PROVE TypeInv'
<1>1. Msg(p) \in Messages
  BY MsgTyped DEF TypeInv
<1>2. RowsTyped'
  BY <1>1, RowsNow DEF LockTimeout, RunUnchanged, caseVars, Page, RowsTyped
<1>. QED
  BY <1>2, PlainStep DEF LockTimeout, AfterTimeout, RunUnchanged, Labels, At, AtWork

LEMMA TypeQueueAfterTimeout ==
    ASSUME TypeInv, NEW p \in Procs, QueueAfterTimeout(p) PROVE TypeInv'
<1>1. RowsTyped'
  BY RowsNow DEF QueueAfterTimeout, RunUnchanged, caseVars, RowsTyped
<1>2. CASE UNCHANGED retry
  BY <1>1, <1>2, PlainStep DEF QueueAfterTimeout, RunUnchanged, Labels, AtWork
<1>3. CASE QueueRetry(Msg(p)) /\ UNCHANGED faults
  <2>1. Msg(p) \in stored
    BY AtWorkStored DEF QueueAfterTimeout, At, AtWork
  <2>2. retry' \in RetryType /\ RetryHasNext'
    BY <1>3, <2>1, QueueFacts DEF QueueAfterTimeout, RunUnchanged, RetryHasNext
  <2>. QED
    BY <1>1, <1>3, <2>2, RetryStep DEF QueueAfterTimeout, RunUnchanged, Labels, AtWork
<1>. QED
  BY <1>2, <1>3 DEF QueueAfterTimeout

LEMMA TypeClassify == ASSUME TypeInv, NEW p \in Procs, Classify(p) PROVE TypeInv'
<1>1. PICK label \in {"draft", "degrade"} : Goto(p, label)
  BY DEF Classify
<1>2. RowsTyped'
  BY RowsNow DEF Classify, RunUnchanged, caseVars, RowsTyped
<1>. QED
  BY <1>1, <1>2, PlainStep DEF Classify, At, RunUnchanged, Labels, AtWork

LEMMA TypeDraftResponse == ASSUME TypeInv, NEW p \in Procs, DraftResponse(p) PROVE TypeInv'
<1>1. PICK label \in {"mark", "generic"} : Goto(p, label)
  BY DEF DraftResponse
<1>2. Msg(p) \in stored /\ proc[p].saw \subseteq stored /\ Msg(p) \in 1..MaxMessage
  BY AtWorkStored, MsgTyped DEF DraftResponse, At, AtWork, TypeInv, WorkIsStored, Messages
<1>3. Msg(p) \in 0..MaxMessage
  BY <1>2
<1>4. RowsTyped'
  BY <1>2, <1>3, RowsNow DEF DraftResponse, RunUnchanged, RowsTyped
<1>. QED
  BY <1>1, <1>2, <1>4, PlainStep DEF DraftResponse, RunUnchanged, Labels

LEMMA TypeMarkAwaitingApproval ==
    ASSUME TypeInv, NEW p \in Procs, MarkAwaitingApproval(p) PROVE TypeInv'
<1>1. RowsTyped'
  BY RowsNow DEF MarkAwaitingApproval, RunUnchanged, RowsTyped, CaseStatus
<1>. QED
  BY <1>1, PlainStep DEF MarkAwaitingApproval, RunUnchanged, Labels, At, AtWork

\* Where a run may end.
LEMMA AfterRunFacts ==
    ASSUME NEW p, NEW b \in BOOLEAN PROVE AfterRun(p, b) \in {"done", "resolve", "reschedule"}
BY DEF AfterRun

LEMMA TypeAwaitApproval == ASSUME TypeInv, NEW p \in Procs, AwaitApproval(p) PROVE TypeInv'
<1>1. AfterRun(p, TRUE) \in Labels \ {"respond"}
  BY AfterRunFacts DEF Labels
<1>2. lock' \in Procs \cup {Free}
  BY UnlockFacts DEF AwaitApproval, TypeInv
<1>3. RowsTyped'
  BY <1>2, RowsNow DEF AwaitApproval, RunUnchanged, RowsTyped
<1>. QED
  BY <1>1, <1>3, PlainStep DEF AwaitApproval, RunUnchanged, At, AtWork

LEMMA TypeHandleGenericDegraded ==
    ASSUME TypeInv, NEW p \in Procs, HandleGenericDegraded(p) PROVE TypeInv'
<1>1. AfterRun(p, TRUE) \in Labels \ {"respond"}
  BY AfterRunFacts DEF Labels
<1>2. Msg(p) \in stored /\ Msg(p) \in Messages /\ lock' \in Procs \cup {Free}
  BY AtWorkStored, MsgTyped, UnlockFacts
     DEF HandleGenericDegraded, DegradedWrite, At, AtWork, TypeInv
<1>3. UNCHANGED <<tier0, stored, letters, calls, retry>> /\ (Fault \/ UNCHANGED faults)
  BY DEF HandleGenericDegraded, DegradedWrite, RunUnchanged
<1>4. RowsTyped'
  BY <1>2, RowsNow DEF HandleGenericDegraded, DegradedWrite, RunUnchanged, RowsTyped, NeedsEyes,
                       Page
<1>5. Goto(p, AfterRun(p, TRUE))
  BY DEF HandleGenericDegraded
<1>. QED
  BY <1>1, <1>2, <1>3, <1>4, <1>5, PlainStep

LEMMA TypeHandleClassificationFailed ==
    ASSUME TypeInv, NEW p \in Procs, HandleClassificationFailed(p) PROVE TypeInv'
<1>1. AfterRun(p, FALSE) \in Labels \ {"respond"}
  BY AfterRunFacts DEF Labels
<1>2. Msg(p) \in stored /\ Msg(p) \in Messages /\ lock' \in Procs \cup {Free}
  BY AtWorkStored, MsgTyped, UnlockFacts
     DEF HandleClassificationFailed, DegradedWrite, At, AtWork, TypeInv
<1>3. tier0[Msg(p)] \in {"hard", "soft", "plain"}
  BY <1>2, RowsNow, IntakeAssumption DEF TypeInv, WorkIsStored, RowsTyped
<1>4. UNCHANGED <<tier0, stored, letters, calls>> /\ (Fault \/ UNCHANGED faults)
  BY DEF HandleClassificationFailed, DegradedWrite, RunUnchanged
<1>5. RowsTyped'
  <2>1. UNCHANGED <<tier0, stored, letters, answered, calls, crashes, drafted, linked, case,
                    pending, covered, moved>> /\ thread' = "ended"
    BY DEF HandleClassificationFailed, DegradedWrite, RunUnchanged
  <2>2. eyes' \subseteq stored /\ acks' \subseteq stored /\ audited' \subseteq stored
    BY <1>2, <1>3, RowsNow DEF HandleClassificationFailed, DegradedWrite, RowsTyped, NeedsEyes
  <2>3. paged' \subseteq Messages
    BY <1>2, RowsNow DEF HandleClassificationFailed, DegradedWrite, RowsTyped, Page
  <2>. QED
    BY <1>2, <2>1, <2>2, <2>3, RowsNow DEF RowsTyped
<1>6. QueueRetry(Msg(p)) \/ UNCHANGED retry
  BY <1>3 DEF HandleClassificationFailed, DegradedWrite
<1>7. retry' \in RetryType /\ RetryHasNext'
  <2>1. CASE QueueRetry(Msg(p))
    BY <1>2, <1>4, <2>1, QueueFacts DEF RetryHasNext
  <2>2. CASE UNCHANGED retry
    BY <1>4, <2>2, TypeParts DEF TypeInv, RetryHasNext
  <2>. QED
    BY <1>6, <2>1, <2>2
<1>8. Goto(p, AfterRun(p, FALSE))
  BY DEF HandleClassificationFailed
<1>. QED
  BY <1>1, <1>2, <1>4, <1>5, <1>7, <1>8, RetryStep

LEMMA TypeRunRaises == ASSUME TypeInv, NEW p \in Procs, RunRaises(p) PROVE TypeInv'
<1>1. PICK label \in {"record", "lastresort"} : Goto(p, label)
  BY DEF RunRaises
<1>2. Msg(p) \in stored /\ Msg(p) \in Messages /\ lock' \in Procs \cup {Free}
  BY AtWorkStored, MsgTyped, UnlockFacts DEF RunRaises, AtWork, TypeInv
<1>3. RowsTyped'
  BY <1>2, RowsNow DEF RunRaises, RunUnchanged, RowsTyped, Page
<1>. QED
  BY <1>1, <1>2, <1>3, PlainStep DEF RunRaises, RunUnchanged, Labels

LEMMA TypeLastResort == ASSUME TypeInv, NEW p \in Procs, LastResort(p) PROVE TypeInv'
<1>1. Msg(p) \in stored
  BY AtWorkStored DEF LastResort, At, AtWork
<1>2. RowsTyped'
  BY <1>1, RowsNow DEF LastResort, RunUnchanged, caseVars, RowsTyped, NeedsEyes
<1>. QED
  BY <1>2, PlainStep DEF LastResort, RunUnchanged, Labels, AtWork

-----------------------------------------------------------------------------
(* The sweep.                                                              *)

\* Writing one retry row.
LEMMA RowFacts ==
    ASSUME retry \in RetryType, NEW m \in Messages, NEW row \in RetryRecord,
           retry' = [retry EXCEPT ![m] = row]
    PROVE  retry' \in RetryType /\ \A n \in Messages : retry'[n] = IF n = m THEN row ELSE retry[n]
BY DEF RetryType

\* A row that is still held can be tried once more.
LEMMA HeldFacts ==
    ASSUME TypeInv, NEW t \in Procs, StillHeld(t)
    PROVE  /\ Msg(t) \in Messages /\ Msg(t) \in stored
           /\ retry[Msg(t)].status = "pending"
           /\ proc[t].attempt = retry[Msg(t)].attempt
           /\ proc[t].attempt \in 0..2
<1>1. Msg(t) \in Messages
  BY MsgTyped DEF TypeInv
<1>2. retry[Msg(t)] \in RetryRecord
  BY <1>1, TypeParts DEF TypeInv, RetryType
<1>3. retry[Msg(t)].attempt \in 0..3 /\ retry[Msg(t)].attempt < 3
  BY <1>1, <1>2, ScheduleLength DEF RetryRecord, StillHeld, TypeInv, RetryHasNext
<1>. QED
  BY <1>1, <1>3 DEF StillHeld, TypeInv, RetryHasNext

\* Closing a row gives it its word and keeps the others.
LEMMA CloseFacts ==
    ASSUME TypeInv, NEW t \in Procs, Msg(t) \in stored, UNCHANGED stored,
           NEW word \in {"superseded", "resolved", "escalated"}, NEW a \in 0..Len(RetrySchedule),
           Close(t, word, a)
    PROVE  /\ retry' \in RetryType /\ RetryHasNext'
           /\ \A n \in Messages : n # Msg(t) => retry'[n] = retry[n]
           /\ retry'[Msg(t)].status = "exhausted" /\ retry'[Msg(t)].outcome = word
<1> DEFINE row == [retry[Msg(t)] EXCEPT !.status = "exhausted", !.outcome = word,
                                        !.attempt = a, !.due = FALSE]
<1>1. Msg(t) \in Messages
  BY MsgTyped DEF TypeInv
<1>2. retry \in RetryType /\ retry[Msg(t)] \in RetryRecord
  BY <1>1, TypeParts DEF TypeInv, RetryType
<1>3. row \in RetryRecord /\ row.status = "exhausted" /\ row.outcome = word
  BY <1>2 DEF RetryRecord
<1>4. retry' = [retry EXCEPT ![Msg(t)] = row]
  BY DEF Close
<1>. HIDE DEF row
<1>5. retry' \in RetryType /\ \A n \in Messages : retry'[n] = IF n = Msg(t) THEN row ELSE retry[n]
  BY <1>1, <1>2, <1>3, <1>4, RowFacts
<1>. QED
  BY <1>1, <1>3, <1>5 DEF TypeInv, RetryHasNext

LEMMA TypeRetryDue == ASSUME TypeInv, NEW m \in Messages, RetryDue(m) PROVE TypeInv'
<1> DEFINE row == [retry[m] EXCEPT !.due = TRUE]
<1>1. retry \in RetryType /\ retry[m] \in RetryRecord
  BY TypeParts DEF TypeInv, RetryType
<1>2. row \in RetryRecord /\ row.status = retry[m].status /\ row.attempt = retry[m].attempt
  BY <1>1 DEF RetryRecord
<1>3. retry' = [retry EXCEPT ![m] = row]
  BY DEF RetryDue
<1>. HIDE DEF row
<1>4. retry' \in RetryType /\ \A n \in Messages : retry'[n] = IF n = m THEN row ELSE retry[n]
  BY <1>1, <1>2, <1>3, RowFacts
<1>5. RetryHasNext'
  BY <1>2, <1>4 DEF RetryDue, SweepUnchanged, TypeInv, RetryHasNext
<1>6. RowsTyped'
  BY RowsNow DEF RetryDue, SweepUnchanged, caseVars, RowsTyped
<1>7. WorkIsStored' /\ ReadyToAnswer'
  BY DEF RetryDue, SweepUnchanged, TypeInv, WorkIsStored, ReadyToAnswer
<1>8. proc' \in ProcType /\ faults' \in 0..MaxFault
  BY TypeParts DEF RetryDue, TypeInv
<1>. QED
  BY <1>4, <1>5, <1>6, <1>7, <1>8, TypeFrom

LEMMA TypeSweepSelect ==
    ASSUME TypeInv, NEW t \in Procs, NEW m \in Messages, SweepSelect(t, m) PROVE TypeInv'
<1> DEFINE r == [pc |-> "check", msg |-> m, saw |-> {}, attempt |-> retry[m].attempt]
<1>1. retry[m] \in RetryRecord /\ m \in stored
  BY TypeParts DEF TypeInv, RetryType, SweepSelect, RetryHasNext
<1>2. r \in ProcRecord /\ r.pc = "check" /\ r.msg = m /\ r.saw = {}
  BY <1>1 DEF ProcRecord, RetryRecord, Labels
<1>3. proc' = [proc EXCEPT ![t] = r]
  BY DEF SweepSelect
<1>. HIDE DEF r
<1>4. proc' \in ProcType /\ \A q \in Procs : proc'[q] = IF q = t THEN r ELSE proc[q]
  BY <1>2, <1>3, TypeParts DEF TypeInv, ProcType
<1>5. RowsTyped'
  BY RowsNow DEF SweepSelect, SweepUnchanged, caseVars, RowsTyped
<1>6. WorkIsStored' /\ ReadyToAnswer' /\ RetryHasNext'
  BY <1>1, <1>2, <1>4 DEF SweepSelect, SweepUnchanged, TypeInv, WorkIsStored, ReadyToAnswer,
                          RetryHasNext
<1>7. retry' \in RetryType /\ faults' \in 0..MaxFault
  BY TypeParts DEF SweepSelect, TypeInv
<1>. QED
  BY <1>4, <1>5, <1>6, <1>7, TypeFrom

LEMMA TypeCheck == ASSUME TypeInv, NEW t \in Procs, Check(t) PROVE TypeInv'
<1>1. PICK label \in {"load", "idle"} : Goto(t, label)
  BY DEF Check
<1>2. Msg(t) \in stored
  BY AtWorkStored DEF Check, At, AtWork
<1>3. RowsTyped'
  BY <1>2, RowsNow DEF Check, SweepUnchanged, caseVars, Audit, RowsTyped
<1>4. CASE UNCHANGED retry
  BY <1>1, <1>2, <1>3, <1>4, PlainStep DEF Check, SweepUnchanged, Labels
<1>5. CASE StillHeld(t) /\ Close(t, "superseded", retry[Msg(t)].attempt)
  <2>1. retry[Msg(t)].attempt \in 0..Len(RetrySchedule)
    BY <1>5, HeldFacts, ScheduleLength
  <2>2. retry' \in RetryType /\ RetryHasNext'
    BY <1>2, <1>5, <2>1, CloseFacts DEF Check, SweepUnchanged
  <2>. QED
    BY <1>1, <1>2, <1>3, <2>2, RetryStep DEF Check, SweepUnchanged, Labels
<1>. QED
  BY <1>4, <1>5 DEF Check

LEMMA TypeResolve == ASSUME TypeInv, NEW t \in Procs, Resolve(t) PROVE TypeInv'
<1>1. Msg(t) \in stored
  BY AtWorkStored DEF Resolve, At, AtWork
<1>2. RowsTyped'
  BY <1>1, RowsNow DEF Resolve, SweepUnchanged, caseVars, Audit, RowsTyped
<1>3. CASE UNCHANGED retry
  BY <1>2, <1>3, PlainStep DEF Resolve, SweepUnchanged, Labels, AtWork
<1>4. CASE StillHeld(t) /\ Close(t, "resolved", retry[Msg(t)].attempt)
  <2>1. retry[Msg(t)].attempt \in 0..Len(RetrySchedule)
    BY <1>4, HeldFacts, ScheduleLength
  <2>2. retry' \in RetryType /\ RetryHasNext'
    BY <1>1, <1>4, <2>1, CloseFacts DEF Resolve, SweepUnchanged
  <2>. QED
    BY <1>2, <2>2, RetryStep DEF Resolve, SweepUnchanged, Labels, AtWork
<1>. QED
  BY <1>3, <1>4 DEF Resolve

LEMMA TypeReschedule == ASSUME TypeInv, NEW t \in Procs, Reschedule(t) PROVE TypeInv'
<1> DEFINE a == proc[t].attempt + 1
<1>1. Msg(t) \in stored
  BY AtWorkStored DEF Reschedule, At, AtWork
<1>2. RowsTyped'
  BY <1>1, RowsNow DEF Reschedule, Escalate, SweepUnchanged, caseVars, Audit, NeedsEyes, RowsTyped
<1>3. CASE UNCHANGED retry
  BY <1>2, <1>3, PlainStep DEF Reschedule, SweepUnchanged, Labels, AtWork
<1>4. CASE StillHeld(t) /\ a < Len(RetrySchedule)
           /\ retry' = [retry EXCEPT ![Msg(t)].attempt = a, ![Msg(t)].due = FALSE]
  <2> DEFINE row == [retry[Msg(t)] EXCEPT !.attempt = a, !.due = FALSE]
  <2>1. retry \in RetryType /\ Msg(t) \in Messages /\ retry[Msg(t)] \in RetryRecord
    BY <1>4, HeldFacts, TypeParts DEF TypeInv, RetryType
  <2>2. a \in 0..Len(RetrySchedule)
    BY <1>4, HeldFacts, ScheduleLength
  <2>3. row \in RetryRecord /\ row.status = retry[Msg(t)].status /\ row.attempt = a
    BY <2>1, <2>2 DEF RetryRecord
  <2>4. retry' = [retry EXCEPT ![Msg(t)] = row]
    BY <1>4
  <2>. HIDE DEF row
  <2>5. retry' \in RetryType /\ \A n \in Messages :
           retry'[n] = IF n = Msg(t) THEN row ELSE retry[n]
    BY <2>1, <2>3, <2>4, RowFacts
  <2>6. RetryHasNext'
    BY <1>1, <1>4, <2>1, <2>3, <2>5
       DEF Reschedule, SweepUnchanged, TypeInv, RetryHasNext
  <2>. QED
    BY <1>2, <2>5, <2>6, RetryStep DEF Reschedule, SweepUnchanged, Labels, AtWork
<1>5. CASE StillHeld(t) /\ Close(t, "escalated", a)
  <2>1. a \in 0..Len(RetrySchedule)
    BY <1>5, HeldFacts, ScheduleLength
  <2>2. retry' \in RetryType /\ RetryHasNext'
    BY <1>1, <1>5, <2>1, CloseFacts DEF Reschedule, SweepUnchanged
  <2>. QED
    BY <1>2, <2>2, RetryStep DEF Reschedule, SweepUnchanged, Labels, AtWork
<1>. QED
  BY <1>3, <1>4, <1>5 DEF Reschedule, Escalate, NextAttempt

LEMMA TypeSettleError == ASSUME TypeInv, NEW t \in Procs, SettleError(t) PROVE TypeInv'
<1>1. Msg(t) \in Messages
  BY MsgTyped DEF TypeInv
<1>2. RowsTyped'
  BY <1>1, RowsNow DEF SettleError, SweepUnchanged, caseVars, Page, RowsTyped
<1>. QED
  BY <1>2, PlainStep DEF SettleError, SweepUnchanged, Labels, AtWork

\* Counting an exception touches only a pending row, and escalates it or
\* leaves it pending.
LEMMA RecordFacts ==
    ASSUME TypeInv, NEW t \in Procs, RecordException(t), retry' # retry
    PROVE  /\ retry' \in RetryType /\ RetryHasNext'
           /\ retry[Msg(t)].status = "pending"
           /\ retry'[Msg(t)].outcome \in {retry[Msg(t)].outcome, "escalated"}
           /\ \A n \in Messages : n # Msg(t) => retry'[n] = retry[n]
<1> DEFINE m == Msg(t)
           count == retry[m].exceptions + 1
<1>1. m \in Messages /\ m \in stored
  BY MsgTyped, AtWorkStored DEF RecordException, At, AtWork, TypeInv
<1>2. retry \in RetryType /\ retry[m] \in RetryRecord
  BY <1>1, TypeParts DEF TypeInv, RetryType
<1>3. count \in Nat
  BY <1>2 DEF RetryRecord
<1>4. retry[m].status = "pending"
  BY DEF RecordException
<1>5. CASE StillHeld(t) /\ retry' = [retry EXCEPT ![m].status = "exhausted",
                                                  ![m].outcome = "escalated",
                                                  ![m].attempt = proc[t].attempt + 1,
                                                  ![m].due = FALSE, ![m].exceptions = count]
  <2> DEFINE a == proc[t].attempt + 1
             row == [retry[m] EXCEPT !.status = "exhausted", !.outcome = "escalated",
                                     !.attempt = a, !.due = FALSE, !.exceptions = count]
  <2>1. a \in 0..Len(RetrySchedule)
    BY <1>5, HeldFacts, ScheduleLength
  <2>. HIDE DEF a, count
  <2>2. row \in RetryRecord /\ row.status = "exhausted" /\ row.outcome = "escalated"
    BY <1>2, <1>3, <2>1 DEF RetryRecord
  <2>3. retry' = [retry EXCEPT ![m] = row]
    BY <1>5 DEF a
  <2>. HIDE DEF row
  <2>4. retry' \in RetryType /\ \A n \in Messages : retry'[n] = IF n = m THEN row ELSE retry[n]
    BY <1>1, <1>2, <2>2, <2>3, RowFacts
  <2>5. RetryHasNext'
    BY <1>1, <2>2, <2>4 DEF RecordException, SweepUnchanged, TypeInv, RetryHasNext
  <2>. QED
    BY <1>1, <1>4, <2>2, <2>4, <2>5
<1>6. CASE retry' = [retry EXCEPT ![m].exceptions = count]
  <2> DEFINE row == [retry[m] EXCEPT !.exceptions = count]
  <2>. HIDE DEF count
  <2>1. /\ row \in RetryRecord /\ row.status = retry[m].status
        /\ row.outcome = retry[m].outcome /\ row.attempt = retry[m].attempt
    BY <1>2, <1>3 DEF RetryRecord
  <2>2. retry' = [retry EXCEPT ![m] = row]
    BY <1>6
  <2>. HIDE DEF row
  <2>3. retry' \in RetryType /\ \A n \in Messages : retry'[n] = IF n = m THEN row ELSE retry[n]
    BY <1>1, <1>2, <2>1, <2>2, RowFacts
  <2>4. RetryHasNext'
    BY <1>1, <2>1, <2>3 DEF RecordException, SweepUnchanged, TypeInv, RetryHasNext
  <2>. QED
    BY <1>1, <1>4, <2>1, <2>3, <2>4
<1>. QED
  BY <1>5, <1>6 DEF RecordException

LEMMA TypeRecordException ==
    ASSUME TypeInv, NEW t \in Procs, RecordException(t) PROVE TypeInv'
<1>1. Msg(t) \in stored
  BY AtWorkStored DEF RecordException, At, AtWork
<1>2. RowsTyped'
  BY <1>1, RowsNow DEF RecordException, SweepUnchanged, caseVars, Audit, NeedsEyes, RowsTyped
<1>3. CASE retry' = retry
  BY <1>2, <1>3, PlainStep DEF RecordException, SweepUnchanged, Labels, AtWork
<1>4. CASE retry' # retry
  BY <1>2, <1>4, RecordFacts, RetryStep DEF RecordException, SweepUnchanged, Labels, AtWork
<1>. QED
  BY <1>3, <1>4

LEMMA TypeLandlord == ASSUME TypeInv, Decide \/ ResolveCase PROVE TypeInv'
<1>1. UNCHANGED <<tier0, stored, letters, answered, calls, eyes, acks, retry, audited, drafted,
                  linked, lock, proc, covered, moved, paged, faults, crashes>>
  BY DEF Decide, ResolveCase, LandlordUnchanged, rows
<1>2. RowsTyped'
  BY <1>1, RowsNow, IntakeAssumption DEF Decide, ResolveCase, RowsTyped, CaseStatus
<1>3. WorkIsStored' /\ ReadyToAnswer' /\ RetryHasNext'
  BY <1>1 DEF TypeInv, WorkIsStored, ReadyToAnswer, RetryHasNext
<1>4. proc' \in ProcType /\ retry' \in RetryType /\ faults' \in 0..MaxFault
  BY <1>1, TypeParts DEF TypeInv
<1>. QED
  BY <1>2, <1>3, <1>4, TypeFrom

LEMMA TypeCrash == ASSUME TypeInv, NEW p \in Procs, Crash(p) PROVE TypeInv'
<1>1. PICK label \in {"idle", "failed"} : Goto(p, label)
  BY DEF Crash
<1>2. lock' \in Procs \cup {Free}
  BY UnlockFacts DEF Crash, TypeInv
<1>3. crashes' \in 0..MaxCrash
  BY RowsNow, IntakeAssumption DEF Crash, RowsTyped
<1>4. RowsTyped'
  BY <1>2, <1>3, RowsNow DEF Crash, rows, seenVars, RowsTyped
<1>. QED
  BY <1>1, <1>4, PlainStep DEF Crash, rows, Labels, AtWork

LEMMA TypeStutter == ASSUME TypeInv, UNCHANGED vars PROVE TypeInv'
<1>1. RowsTyped' /\ WorkIsStored' /\ ReadyToAnswer' /\ RetryHasNext'
  BY RowsNow DEF vars, TypeInv, RowsTyped, WorkIsStored, ReadyToAnswer, RetryHasNext
<1>2. proc' \in ProcType /\ retry' \in RetryType /\ faults' \in 0..MaxFault
  BY TypeParts DEF vars, TypeInv
<1>. QED
  BY <1>1, <1>2, TypeFrom

LEMMA TypeRun == ASSUME TypeInv, NEW p \in Procs, Run(p) PROVE TypeInv'
BY TypeGate, TypeLoadContext, TypeIdentifyCase, TypeTakeLock, TypeLockTimeout,
   TypeQueueAfterTimeout, TypeClassify, TypeDraftResponse, TypeMarkAwaitingApproval,
   TypeAwaitApproval, TypeHandleGenericDegraded, TypeHandleClassificationFailed, TypeLastResort
   DEF Run

LEMMA TypeSweep == ASSUME TypeInv, NEW t \in Procs, Sweep(t) PROVE TypeInv'
BY TypeSweepSelect, TypeCheck, TypeResolve, TypeReschedule, TypeRecordException DEF Sweep

LEMMA TypeStep == TypeInv /\ [Next]_vars => TypeInv'
<1> SUFFICES ASSUME TypeInv, [Next]_vars PROVE TypeInv'
  OBVIOUS
<1>1. CASE \E p \in Deliveries : Deliver(p) \/ Webhook(p) \/ WebhookError(p)
  BY <1>1, ProcKinds, TypeDeliver, TypeStore, TypeArtifacts, TypeRespond, TypeWebhookError
     DEF Webhook
<1>2. CASE \E p \in Procs : Run(p) \/ RunRaises(p) \/ Crash(p)
  BY <1>2, TypeRun, TypeRunRaises, TypeCrash
<1>3. CASE \E m \in Messages : RetryDue(m)
  BY <1>3, TypeRetryDue
<1>4. CASE \E t \in Tickers : Sweep(t) \/ SettleError(t)
  BY <1>4, ProcKinds, TypeSweep, TypeSettleError
<1>5. CASE Decide \/ ResolveCase
  BY <1>5, TypeLandlord
<1>6. CASE UNCHANGED vars
  BY <1>6, TypeStutter
<1>. QED
  BY <1>1, <1>2, <1>3, <1>4, <1>5, <1>6 DEF Next

LEMMA TypeAlways == Spec => []TypeInv
BY TypeInit, TypeStep, PTL DEF Spec

\* Every reachable state of the intake is well typed: whoever works on a
\* message finds it stored, and a retry never runs past its schedule.
THEOREM TypeCorrect == Spec => []TypeOK
BY TypeAlways, PTL DEF TypeInv

-----------------------------------------------------------------------------
(* 200 means recorded.                                                     *)

LEMMA RecordedStep == TypeInv /\ AcceptedMeansRecorded /\ [Next]_vars => AcceptedMeansRecorded'
<1> SUFFICES ASSUME TypeInv, AcceptedMeansRecorded, [Next]_vars PROVE AcceptedMeansRecorded'
  OBVIOUS
<1>1. /\ tier0' = tier0 /\ stored \subseteq stored' /\ letters \subseteq letters'
      /\ calls \subseteq calls'
      /\ (answered' = answered \/ \E p \in Deliveries : Respond(p))
  <2>1. CASE \E p \in Deliveries : Deliver(p) \/ Webhook(p) \/ WebhookError(p)
    BY <2>1 DEF Deliver, Webhook, Store, Artifacts, Respond, WebhookError, WebhookUnchanged
  <2>2. CASE \E p \in Procs : Run(p)
    BY <2>2 DEF Run, Gate, LoadContext, IdentifyCase, TakeLock, LockTimeout, QueueAfterTimeout,
                Classify, DraftResponse, MarkAwaitingApproval, AwaitApproval,
                HandleGenericDegraded, HandleClassificationFailed, DegradedWrite, LastResort,
                RunUnchanged
  <2>3. CASE \E p \in Procs : RunRaises(p) \/ Crash(p)
    BY <2>3 DEF RunRaises, RunUnchanged, Crash, rows
  <2>4. CASE \/ \E m \in Messages : RetryDue(m)
             \/ \E t \in Tickers : Sweep(t) \/ SettleError(t)
    BY <2>4 DEF RetryDue, Sweep, SweepSelect, Check, Resolve, Reschedule, RecordException,
                SettleError, SweepUnchanged
  <2>5. CASE Decide \/ ResolveCase \/ UNCHANGED vars
    BY <2>5 DEF Decide, ResolveCase, LandlordUnchanged, rows, vars
  <2>. QED
    BY <2>1, <2>2, <2>3, <2>4, <2>5 DEF Next
<1>2. CASE \E p \in Deliveries : Respond(p)
  BY <1>1, <1>2, ProcKinds DEF Respond, At, Msg, TypeInv, ReadyToAnswer, AcceptedMeansRecorded
<1>3. CASE answered' = answered
  BY <1>1, <1>3 DEF AcceptedMeansRecorded
<1>. QED
  BY <1>1, <1>2, <1>3

\* However often a message is delivered, at once or in turn, and wherever the
\* webhook fails or dies: Twilio is told 200 only for what is durable, the
\* emergency of a HARD hit included.
THEOREM AcceptedIsRecorded == Spec => []AcceptedMeansRecorded
<1>1. Init => AcceptedMeansRecorded
  BY DEF Init, AcceptedMeansRecorded
<1>. QED
  BY <1>1, TypeAlways, RecordedStep, PTL DEF Spec

-----------------------------------------------------------------------------
(* The verdict on a retry.                                                 *)

\* No step changes a row that has its verdict, and a row becomes 'resolved'
\* only by Resolve.
VerdictsKept ==
    \A m \in Messages : retry[m].status = "exhausted" =>
        retry'[m].status = "exhausted" /\ retry'[m].outcome = retry[m].outcome

NewlyResolved(m) == retry[m].outcome # "resolved" /\ retry'[m].outcome = "resolved"

\* Queueing never reuses a row.
LEMMA QueueKeeps ==
    ASSUME TypeInv, NEW m \in Messages, QueueRetry(m)
    PROVE  VerdictsKept /\ \A n \in Messages : ~NewlyResolved(n)
<1>1. retry \in RetryType
  BY TypeParts DEF TypeInv
<1>2. CASE retry[m].status # "none"
  BY <1>2 DEF QueueRetry, VerdictsKept, NewlyResolved
<1>3. CASE retry[m].status = "none"
  <2> DEFINE row == [retry[m] EXCEPT !.status = "pending", !.snapshot = case]
  <2>1. retry[m] \in RetryRecord
    BY <1>1 DEF RetryType
  <2>2. row.outcome = retry[m].outcome
    BY <2>1 DEF RetryRecord
  <2>3. retry' = [retry EXCEPT ![m] = row]
    BY <1>3 DEF QueueRetry
  <2>. HIDE DEF row
  <2>4. \A n \in Messages : retry'[n] = IF n = m THEN row ELSE retry[n]
    BY <1>1, <2>3 DEF RetryType
  <2>. QED
    BY <1>3, <2>2, <2>4 DEF VerdictsKept, NewlyResolved
<1>. QED
  BY <1>2, <1>3

\* Closing a held row does not touch a verdict, and resolves only with the
\* word 'resolved'.
LEMMA CloseKeeps ==
    ASSUME TypeInv, NEW t \in Procs, StillHeld(t), UNCHANGED stored,
           NEW word \in {"superseded", "resolved", "escalated"}, NEW a \in 0..Len(RetrySchedule),
           Close(t, word, a)
    PROVE  /\ VerdictsKept
           /\ \A n \in Messages : NewlyResolved(n) => n = Msg(t) /\ word = "resolved"
<1>1. /\ retry[Msg(t)].status = "pending" /\ retry'[Msg(t)].outcome = word
      /\ \A n \in Messages : n # Msg(t) => retry'[n] = retry[n]
  BY HeldFacts, CloseFacts
<1>. QED
  BY <1>1 DEF VerdictsKept, NewlyResolved

LEMMA SweepKeeps ==
    ASSUME TypeInv, NEW t \in Procs, Sweep(t)
    PROVE  /\ VerdictsKept
           /\ \A n \in Messages : NewlyResolved(n) => n = Msg(t) /\ Resolve(t)
<1>1. CASE UNCHANGED retry
  BY <1>1 DEF VerdictsKept, NewlyResolved
<1>2. ASSUME Check(t), ~UNCHANGED retry PROVE VerdictsKept /\ \A n \in Messages : ~NewlyResolved(n)
  <2>1. StillHeld(t) /\ Close(t, "superseded", retry[Msg(t)].attempt) /\ UNCHANGED stored
    BY <1>2 DEF Check, SweepUnchanged
  <2>2. retry[Msg(t)].attempt \in 0..Len(RetrySchedule)
    BY <2>1, HeldFacts, ScheduleLength
  <2>. QED
    BY <2>1, <2>2, CloseKeeps
<1>3. ASSUME Resolve(t), ~UNCHANGED retry
      PROVE  VerdictsKept /\ \A n \in Messages : NewlyResolved(n) => n = Msg(t)
  <2>1. StillHeld(t) /\ Close(t, "resolved", retry[Msg(t)].attempt) /\ UNCHANGED stored
    BY <1>3 DEF Resolve, SweepUnchanged
  <2>2. retry[Msg(t)].attempt \in 0..Len(RetrySchedule)
    BY <2>1, HeldFacts, ScheduleLength
  <2>. QED
    BY <2>1, <2>2, CloseKeeps
<1>4. ASSUME Reschedule(t), ~UNCHANGED retry
      PROVE  VerdictsKept /\ \A n \in Messages : ~NewlyResolved(n)
  <2> DEFINE a == proc[t].attempt + 1
  <2>1. StillHeld(t) /\ UNCHANGED stored
    BY <1>4 DEF Reschedule, SweepUnchanged
  <2>2. a \in 0..Len(RetrySchedule) /\ retry \in RetryType /\ Msg(t) \in Messages
    BY <2>1, HeldFacts, ScheduleLength, TypeParts DEF TypeInv
  <2>3. CASE Close(t, "escalated", a)
    BY <2>1, <2>2, <2>3, CloseKeeps
  <2>4. CASE retry' = [retry EXCEPT ![Msg(t)].attempt = a, ![Msg(t)].due = FALSE]
    <3> DEFINE row == [retry[Msg(t)] EXCEPT !.attempt = a, !.due = FALSE]
    <3>1. retry[Msg(t)] \in RetryRecord
      BY <2>2 DEF RetryType
    <3>2. row.status = retry[Msg(t)].status /\ row.outcome = retry[Msg(t)].outcome
      BY <3>1 DEF RetryRecord
    <3>3. retry' = [retry EXCEPT ![Msg(t)] = row]
      BY <2>4
    <3>. HIDE DEF row
    <3>4. \A n \in Messages : retry'[n] = IF n = Msg(t) THEN row ELSE retry[n]
      BY <2>2, <3>3 DEF RetryType
    <3>. QED
      BY <3>2, <3>4 DEF VerdictsKept, NewlyResolved
  <2>. QED
    BY <1>4, <2>3, <2>4 DEF Reschedule, Escalate, NextAttempt
<1>5. ASSUME RecordException(t), ~UNCHANGED retry
      PROVE  VerdictsKept /\ \A n \in Messages : ~NewlyResolved(n)
  BY <1>5, RecordFacts DEF VerdictsKept, NewlyResolved
<1>6. CASE \E m \in Messages : SweepSelect(t, m)
  BY <1>1, <1>6 DEF SweepSelect
<1>. QED
  BY <1>1, <1>2, <1>3, <1>4, <1>5, <1>6 DEF Sweep, VerdictsKept

LEMMA DueKeeps ==
    ASSUME TypeInv, NEW m \in Messages, RetryDue(m)
    PROVE  VerdictsKept /\ \A n \in Messages : ~NewlyResolved(n)
<1> DEFINE row == [retry[m] EXCEPT !.due = TRUE]
<1>1. retry \in RetryType /\ retry[m] \in RetryRecord
  BY TypeParts DEF TypeInv, RetryType
<1>2. row.status = retry[m].status /\ row.outcome = retry[m].outcome
  BY <1>1 DEF RetryRecord
<1>3. retry' = [retry EXCEPT ![m] = row]
  BY DEF RetryDue
<1>. HIDE DEF row
<1>4. \A n \in Messages : retry'[n] = IF n = m THEN row ELSE retry[n]
  BY <1>1, <1>3 DEF RetryType
<1>. QED
  BY <1>2, <1>4 DEF VerdictsKept, NewlyResolved

LEMMA RunKeeps ==
    ASSUME TypeInv, NEW p \in Procs, Run(p)
    PROVE  VerdictsKept /\ \A n \in Messages : ~NewlyResolved(n)
<1>1. CASE UNCHANGED retry
  BY <1>1 DEF VerdictsKept, NewlyResolved
<1>2. CASE QueueRetry(Msg(p))
  BY <1>2, QueueKeeps, MsgTyped DEF TypeInv
<1>3. CASE QueueAfterTimeout(p)
  BY <1>1, <1>2, <1>3 DEF QueueAfterTimeout
<1>4. CASE HandleClassificationFailed(p)
  <2>1. Msg(p) \in stored
    BY <1>4, AtWorkStored DEF HandleClassificationFailed, At, AtWork
  <2>2. tier0[Msg(p)] \in {"hard", "soft", "plain"}
    BY <2>1, MsgTyped, RowsNow, IntakeAssumption DEF TypeInv, WorkIsStored, RowsTyped
  <2>. QED
    BY <1>1, <1>2, <1>4, <2>2 DEF HandleClassificationFailed, DegradedWrite
<1>. QED
  BY <1>1, <1>3, <1>4 DEF Run, Gate, LoadContext, IdentifyCase, TakeLock, LockTimeout, Classify,
     DraftResponse, MarkAwaitingApproval, AwaitApproval, HandleGenericDegraded, DegradedWrite,
     LastResort

LEMMA StepKeeps ==
    ASSUME TypeInv, [Next]_vars
    PROVE  /\ VerdictsKept
           /\ \A n \in Messages : NewlyResolved(n) => \E t \in Tickers : n = Msg(t) /\ Resolve(t)
<1>1. CASE UNCHANGED retry
  BY <1>1 DEF VerdictsKept, NewlyResolved
<1>2. CASE \E p \in Deliveries : Deliver(p) \/ Webhook(p) \/ WebhookError(p)
  BY <1>1, <1>2 DEF Deliver, Webhook, Store, Artifacts, Respond, WebhookError, WebhookUnchanged
<1>3. CASE \E p \in Procs : Run(p)
  BY <1>3, RunKeeps
<1>4. CASE \E p \in Procs : RunRaises(p) \/ Crash(p)
  BY <1>1, <1>4 DEF RunRaises, Crash, rows
<1>5. CASE \E m \in Messages : RetryDue(m)
  BY <1>5, DueKeeps
<1>6. CASE \E t \in Tickers : Sweep(t)
  BY <1>6, ProcKinds, SweepKeeps
<1>7. CASE \E t \in Tickers : SettleError(t)
  BY <1>1, <1>7 DEF SettleError
<1>8. CASE Decide \/ ResolveCase \/ UNCHANGED vars
  BY <1>1, <1>8 DEF Decide, ResolveCase, LandlordUnchanged, rows, vars
<1>. QED
  BY <1>2, <1>3, <1>4, <1>5, <1>6, <1>7, <1>8 DEF Next

\* Any number of tickers may sweep the same row, each as slow as it likes: the
\* first verdict on a retry is the last.
THEOREM VerdictIsFinal == Spec => OutcomeIsFinal
<1>1. TypeInv /\ [Next]_vars =>
        [\A m \in Messages : retry[m].status = "exhausted" =>
            retry'[m].status = "exhausted" /\ retry'[m].outcome = retry[m].outcome]_vars
  BY StepKeeps DEF VerdictsKept
<1>. QED
  BY <1>1, TypeAlways, PTL DEF Spec, OutcomeIsFinal

-----------------------------------------------------------------------------
(* Resolved means drafted.                                                 *)

Reading == {"identify", "wait", "classify", "draft"}
Written == {"mark", "pause", "generic"}

\* A run that has loaded its context has read its own message, a run past the
\* draft has it covered, and whoever goes to resolve a retry comes from there
\* or from a case of the message's own.
RunsCovered ==
    \A p \in Procs :
        /\ proc[p].pc \in Reading => proc[p].msg \in proc[p].saw
        /\ proc[p].pc \in Written => proc[p].msg \in covered
        /\ proc[p].pc = "resolve" => proc[p].msg \in covered \cup moved

CoverInv == TypeInv /\ RunsCovered /\ ResolvedMeansDrafted

\* A process that moves to a place it has a right to be at.
LEMMA CoverMove ==
    ASSUME TypeInv, RunsCovered, NEW p \in Procs, NEW label \in Labels, Goto(p, label),
           covered \subseteq covered', moved \subseteq moved',
           label \in Reading => Msg(p) \in proc[p].saw,
           label \in Written => Msg(p) \in covered',
           label = "resolve" => Msg(p) \in covered' \cup moved'
    PROVE  RunsCovered'
<1>1. \A q \in Procs : /\ proc'[q].pc = IF q = p THEN label ELSE proc[q].pc
                       /\ proc'[q].msg = proc[q].msg /\ proc'[q].saw = proc[q].saw
  BY GotoFacts, ProcTyped DEF TypeInv
<1>. QED
  BY <1>1 DEF RunsCovered, Msg

LEMMA CoverWebhook ==
    ASSUME CoverInv, NEW p \in Procs, Deliver(p) \/ Webhook(p) \/ WebhookError(p)
    PROVE  RunsCovered'
<1>1. PICK label \in {"store", "artifacts", "respond", "failed", "done", "gate"} : Goto(p, label)
  BY DEF Deliver, Webhook, Store, Artifacts, Respond, WebhookError, AfterError
<1>2. UNCHANGED <<covered, moved>>
  BY DEF Deliver, Webhook, Store, Artifacts, Respond, WebhookError, WebhookUnchanged
<1>. QED
  BY <1>1, <1>2, CoverMove DEF CoverInv, Labels, Reading, Written

LEMMA CoverRun == ASSUME CoverInv, NEW p \in Procs, Run(p) PROVE RunsCovered'
<1>1. CASE Gate(p) \/ QueueAfterTimeout(p) \/ LockTimeout(p) \/ LastResort(p)
  <2>1. PICK label \in {"skipped", "load", "done", "record", "queue"} : Goto(p, label)
    BY <1>1 DEF Gate, QueueAfterTimeout, LockTimeout, AfterTimeout, LastResort
  <2>2. UNCHANGED <<covered, moved>>
    BY <1>1 DEF Gate, QueueAfterTimeout, LockTimeout, LastResort
  <2>. QED
    BY <2>1, <2>2, CoverMove DEF CoverInv, Labels, Reading, Written
<1>2. CASE LoadContext(p) /\ case = "resolved"
  <2>1. PICK label \in {"resolve", "reschedule", "done"} : Goto(p, label)
    BY <1>2 DEF LoadContext
  <2>2. covered' = covered /\ moved' = moved \cup {Msg(p)}
    BY <1>2 DEF LoadContext
  <2>. QED
    BY <2>1, <2>2, CoverMove DEF CoverInv, Labels, Reading, Written
<1>3. CASE LoadContext(p) /\ case # "resolved"
  <2> DEFINE r == [proc[p] EXCEPT !.pc = "identify", !.saw = stored]
  <2>1. Msg(p) \in stored
    BY <1>3, AtWorkStored DEF CoverInv, LoadContext, At, AtWork
  <2>2. proc \in ProcType /\ proc[p] \in ProcRecord
    BY TypeParts DEF CoverInv, TypeInv, ProcType
  <2>3. r.pc = "identify" /\ r.msg = Msg(p) /\ r.saw = stored
    BY <2>2 DEF ProcRecord, Msg
  <2>4. proc' = [proc EXCEPT ![p] = r] /\ UNCHANGED <<covered, moved>>
    BY <1>3 DEF LoadContext
  <2>. HIDE DEF r
  <2>5. \A q \in Procs : proc'[q] = IF q = p THEN r ELSE proc[q]
    BY <2>2, <2>4 DEF ProcType
  <2>. QED
    BY <2>1, <2>3, <2>4, <2>5 DEF CoverInv, RunsCovered, Reading, Written
<1>4. CASE IdentifyCase(p) \/ TakeLock(p) \/ Classify(p)
  <2>1. PICK label \in {"wait", "classify", "draft", "degrade"} : Goto(p, label)
    BY <1>4 DEF IdentifyCase, TakeLock, Classify
  <2>2. UNCHANGED <<covered, moved>> /\ Msg(p) \in proc[p].saw
    BY <1>4 DEF IdentifyCase, TakeLock, Classify, At, Msg, CoverInv, RunsCovered, Reading
  <2>. QED
    BY <2>1, <2>2, CoverMove DEF CoverInv, Labels, Reading, Written
<1>5. CASE DraftResponse(p)
  <2>1. PICK label \in {"mark", "generic"} : Goto(p, label)
    BY <1>5 DEF DraftResponse
  <2>2. covered' = covered \cup proc[p].saw /\ moved' = moved /\ Msg(p) \in proc[p].saw
    BY <1>5 DEF DraftResponse, At, Msg, CoverInv, RunsCovered, Reading
  <2>. QED
    BY <2>1, <2>2, CoverMove DEF CoverInv, Labels, Reading, Written
<1>6. CASE MarkAwaitingApproval(p) \/ AwaitApproval(p) \/ HandleGenericDegraded(p)
  <2>1. PICK label \in {"pause", "done", "resolve", "reschedule"} : Goto(p, label)
    BY <1>6, AfterRunFacts DEF MarkAwaitingApproval, AwaitApproval, HandleGenericDegraded
  <2>2. UNCHANGED <<covered, moved>> /\ Msg(p) \in covered
    BY <1>6 DEF MarkAwaitingApproval, AwaitApproval, HandleGenericDegraded, DegradedWrite, At,
                Msg, CoverInv, RunsCovered, Written
  <2>. QED
    BY <2>1, <2>2, CoverMove DEF CoverInv, Labels, Reading, Written
<1>7. CASE HandleClassificationFailed(p)
  <2>1. PICK label \in {"done", "reschedule"} : Goto(p, label)
    BY <1>7 DEF HandleClassificationFailed, AfterRun
  <2>2. UNCHANGED <<covered, moved>>
    BY <1>7 DEF HandleClassificationFailed, DegradedWrite
  <2>. QED
    BY <2>1, <2>2, CoverMove DEF CoverInv, Labels, Reading, Written
<1>. QED
  BY <1>1, <1>2, <1>3, <1>4, <1>5, <1>6, <1>7 DEF Run

LEMMA CoverSweep == ASSUME CoverInv, NEW t \in Procs, Sweep(t) PROVE RunsCovered'
<1>1. CASE Check(t) \/ Resolve(t) \/ Reschedule(t) \/ RecordException(t)
  <2>1. PICK label \in {"load", "idle"} : Goto(t, label)
    BY <1>1 DEF Check, Resolve, Reschedule, RecordException
  <2>2. UNCHANGED <<covered, moved>>
    BY <1>1 DEF Check, Resolve, Reschedule, RecordException, SweepUnchanged
  <2>. QED
    BY <2>1, <2>2, CoverMove DEF CoverInv, Labels, Reading, Written
<1>2. ASSUME NEW m \in Messages, SweepSelect(t, m) PROVE RunsCovered'
  <2>1. \A q \in Procs : IF q = t THEN proc'[q].pc = "check" ELSE proc'[q] = proc[q]
    BY <1>2, TypeParts DEF SweepSelect, CoverInv, TypeInv, ProcType
  <2>2. UNCHANGED <<covered, moved>>
    BY <1>2 DEF SweepSelect, SweepUnchanged
  <2>. QED
    BY <2>1, <2>2 DEF CoverInv, RunsCovered, Reading, Written
<1>. QED
  BY <1>1, <1>2 DEF Sweep

LEMMA CoverStep == CoverInv /\ [Next]_vars => RunsCovered'
<1> SUFFICES ASSUME CoverInv, [Next]_vars PROVE RunsCovered'
  OBVIOUS
<1>1. ASSUME NEW p \in Procs, RunRaises(p) \/ Crash(p) \/ SettleError(p) PROVE RunsCovered'
  <2>1. PICK label \in {"record", "lastresort", "idle", "failed"} : Goto(p, label)
    BY <1>1 DEF RunRaises, Crash, SettleError
  <2>2. UNCHANGED <<covered, moved>>
    BY <1>1 DEF RunRaises, Crash, SettleError, SweepUnchanged, seenVars
  <2>. QED
    BY <2>1, <2>2, CoverMove DEF CoverInv, Labels, Reading, Written
<1>2. CASE (\E m \in Messages : RetryDue(m)) \/ Decide \/ ResolveCase \/ UNCHANGED vars
  <2>1. UNCHANGED <<proc, covered, moved>>
    BY <1>2 DEF RetryDue, SweepUnchanged, Decide, ResolveCase, LandlordUnchanged, vars
  <2>. QED
    BY <2>1 DEF CoverInv, RunsCovered
<1>. QED
  BY <1>1, <1>2, ProcKinds, CoverWebhook, CoverRun, CoverSweep DEF Next

LEMMA CoveredGrows ==
    ASSUME CoverInv, [Next]_vars PROVE covered \cup moved \subseteq covered' \cup moved'
<1>1. CASE \E p \in Procs : Run(p)
  BY <1>1 DEF Run, Gate, LoadContext, IdentifyCase, TakeLock, LockTimeout, QueueAfterTimeout,
              Classify, DraftResponse, MarkAwaitingApproval, AwaitApproval,
              HandleGenericDegraded, HandleClassificationFailed, DegradedWrite, LastResort
<1>2. CASE \E p \in Deliveries : Deliver(p) \/ Webhook(p) \/ WebhookError(p)
  BY <1>2 DEF Deliver, Webhook, Store, Artifacts, Respond, WebhookError, WebhookUnchanged
<1>3. CASE \E p \in Procs : RunRaises(p) \/ Crash(p)
  BY <1>3 DEF RunRaises, Crash, seenVars
<1>4. CASE \/ \E m \in Messages : RetryDue(m)
           \/ \E t \in Tickers : Sweep(t) \/ SettleError(t)
  BY <1>4 DEF RetryDue, Sweep, SweepSelect, Check, Resolve, Reschedule, RecordException,
              SettleError, SweepUnchanged
<1>5. CASE Decide \/ ResolveCase \/ UNCHANGED vars
  BY <1>5 DEF Decide, ResolveCase, LandlordUnchanged, vars
<1>. QED
  BY <1>1, <1>2, <1>3, <1>4, <1>5 DEF Next

LEMMA ResolvedStep == CoverInv /\ [Next]_vars => ResolvedMeansDrafted'
<1> SUFFICES ASSUME CoverInv, [Next]_vars,
                    NEW m \in Messages, retry'[m].outcome = "resolved"
             PROVE  m \in covered' \cup moved'
  BY DEF ResolvedMeansDrafted
<1>1. CASE retry[m].outcome = "resolved"
  BY <1>1, CoveredGrows DEF CoverInv, ResolvedMeansDrafted
<1>2. CASE retry[m].outcome # "resolved"
  <2>1. PICK t \in Tickers : m = Msg(t) /\ Resolve(t)
    BY <1>2, StepKeeps DEF NewlyResolved, CoverInv
  <2>2. m \in covered \cup moved
    BY <2>1, ProcKinds DEF Resolve, At, Msg, CoverInv, RunsCovered
  <2>. QED
    BY <2>2, CoveredGrows
<1>. QED
  BY <1>1, <1>2

\* A retry is closed as resolved only when a drafted reply knew its message, or
\* the message went to a case of its own, whatever other runs, sweeps and the
\* landlord did to the case while the retry ran.
THEOREM ResolvedIsDrafted == Spec => []ResolvedMeansDrafted
<1>1. Init => CoverInv
  <2>1. Init => RunsCovered /\ ResolvedMeansDrafted
    BY DEF Init, RunsCovered, ResolvedMeansDrafted, NoRetry, Reading, Written
  <2>. QED
    BY <2>1, TypeInit DEF CoverInv
<1>2. CoverInv /\ [Next]_vars => CoverInv'
  BY TypeStep, CoverStep, ResolvedStep DEF CoverInv
<1>3. CoverInv => ResolvedMeansDrafted
  BY DEF CoverInv
<1>. QED
  BY <1>1, <1>2, <1>3, PTL DEF Spec
=============================================================================
