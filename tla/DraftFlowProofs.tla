-------------------------- MODULE DraftFlowProofs --------------------------
(***************************************************************************)
(* Safety of the draft flow for any number of messages, landlord requests, *)
(* senders and faults.  All theorems rest on one inductive invariant,      *)
(* DraftInv: a claim takes a draft out of 'approved' for good and gives it *)
(* one owner; the case lock and the single pending draft tie a resumed     *)
(* thread to the draft the landlord looked at; what is cancelled or        *)
(* rejected never moves again.                                             *)
(***************************************************************************)
EXTENDS DraftFlow, TLAPS

CaseStatus == {"open", "awaiting_approval", "awaiting_tenant", "resolved", "reopened"}
DraftStatus == {"none", "pending", "stale", "approved", "sending", "sent", "rejected",
                "cancelled"}
RunLabels == {"none", "load", "identify", "wait", "draft", "degrade", "auto", "mark", "flip",
              "pause", "done"}
ReqLabels == {"idle", "peek", "resume", "repeek", "decide", "finalize", "reconcile", "done"}
Answers == {"none", "approved", "rejected", "undone", "toolate", "stale", "handled", "nothing",
            "error"}

DraftRecord == [status : DraftStatus, auto : BOOLEAN, via : {"none", "dashboard", "sms"},
                due : BOOLEAN, born : 0..MaxMessage, touched : 0..MaxMessage, replied : BOOLEAN]
DraftType == [Messages -> DraftRecord]
ReqRecord == [pc : ReqLabels, kind : {"approve", "reject", "undo"},
              chan : {"dashboard", "sms"}, target : Messages, answer : Answers]
ReqType == [Requests -> ReqRecord]
SenderRecord == [pc : {"idle", "claim", "send", "record"}, draft : Messages]
SenderType == [Senders -> SenderRecord]

\* The types of everything but drafts, requests, senders and the fault counter.
RestTyped ==
    /\ case \in CaseStatus
    /\ persisted \in 0..MaxMessage
    /\ linked \subseteq Messages
    /\ notices \in Seq(Messages)
    /\ shown \in 0..Len(notices)
    /\ lock \in Messages \cup Requests \cup {Free}
    /\ paused \in BOOLEAN
    /\ run \in [Messages -> RunLabels]
    /\ sends \in [Messages -> Nat]
    /\ consent \in [Messages -> {"none", "agent", "landlord"}]
    /\ closed \subseteq Messages

-----------------------------------------------------------------------------
(* What the operators do.                                                  *)

LEMMA TypeParts ==
    TypeOK <=> /\ RestTyped /\ draft \in DraftType /\ req \in ReqType /\ sender \in SenderType
               /\ faults \in 0..MaxFault
BY DEF TypeOK, RestTyped, CaseStatus, DraftType, DraftRecord, DraftStatus, RunLabels, ReqType,
       ReqRecord, ReqLabels, Answers, SenderType, SenderRecord

LEMMA TypePartsNext ==
    (/\ RestTyped' /\ draft' \in DraftType /\ req' \in ReqType /\ sender' \in SenderType
     /\ faults' \in 0..MaxFault) => TypeOK'
BY DEF TypeOK, RestTyped, CaseStatus, DraftType, DraftRecord, DraftStatus, RunLabels, ReqType,
       ReqRecord, ReqLabels, Answers, SenderType, SenderRecord

LEMMA FaultTyped == ASSUME TypeOK, Fault \/ UNCHANGED faults PROVE faults' \in 0..MaxFault
BY DraftAssumption DEF TypeOK, Fault

LEMMA RunToFacts ==
    ASSUME run \in [Messages -> RunLabels], NEW m \in Messages, NEW label \in RunLabels,
           RunTo(m, label)
    PROVE  /\ run' \in [Messages -> RunLabels]
           /\ \A n \in Messages : run'[n] = IF n = m THEN label ELSE run[n]
BY DEF RunTo

LEMMA ReqToFacts ==
    ASSUME req \in ReqType, NEW r \in Requests, NEW label \in ReqLabels, ReqTo(r, label)
    PROVE  /\ req' \in ReqType
           /\ \A q \in Requests : /\ q # r => req'[q] = req[q]
                                  /\ req'[q].target = req[q].target
                                  /\ req'[q].answer = req[q].answer
                                  /\ req'[q].kind = req[q].kind
           /\ req'[r].pc = label
<1> DEFINE row == [req[r] EXCEPT !.pc = label]
<1>1. req[r] \in ReqRecord
  BY DEF ReqType
<1>2. /\ row \in ReqRecord /\ row.pc = label /\ row.target = req[r].target
      /\ row.answer = req[r].answer /\ row.kind = req[r].kind
  BY <1>1 DEF ReqRecord
<1>3. req' = [req EXCEPT ![r] = row]
  BY DEF ReqTo
<1>. HIDE DEF row
<1>. QED
  BY <1>2, <1>3 DEF ReqType

LEMMA AnswerFacts ==
    ASSUME req \in ReqType, NEW r \in Requests, NEW a \in Answers, Answer(r, a)
    PROVE  /\ req' \in ReqType
           /\ \A q \in Requests : /\ q # r => req'[q] = req[q]
                                  /\ req'[q].target = req[q].target
           /\ req'[r].pc = "done" /\ req'[r].answer = a
<1> DEFINE row == [req[r] EXCEPT !.pc = "done", !.answer = a]
<1>1. req[r] \in ReqRecord
  BY DEF ReqType
<1>2. row \in ReqRecord /\ row.pc = "done" /\ row.target = req[r].target /\ row.answer = a
  BY <1>1 DEF ReqRecord, ReqLabels
<1>3. req' = [req EXCEPT ![r] = row]
  BY DEF Answer
<1>. HIDE DEF row
<1>. QED
  BY <1>2, <1>3 DEF ReqType

LEMMA SenderToFacts ==
    ASSUME sender \in SenderType, NEW t \in Senders,
           NEW label \in {"idle", "claim", "send", "record"}, SenderTo(t, label)
    PROVE  /\ sender' \in SenderType
           /\ \A u \in Senders : /\ u # t => sender'[u] = sender[u]
                                 /\ sender'[u].draft = sender[u].draft
           /\ sender'[t].pc = label
<1> DEFINE row == [sender[t] EXCEPT !.pc = label]
<1>1. sender[t] \in SenderRecord
  BY DEF SenderType
<1>2. row \in SenderRecord /\ row.pc = label /\ row.draft = sender[t].draft
  BY <1>1 DEF SenderRecord
<1>3. sender' = [sender EXCEPT ![t] = row]
  BY DEF SenderTo
<1>. HIDE DEF row
<1>. QED
  BY <1>2, <1>3 DEF SenderType

LEMMA PutRow ==
    ASSUME draft \in DraftType, NEW d \in Messages, NEW row \in DraftRecord,
           draft' = [draft EXCEPT ![d] = row]
    PROVE  draft' \in DraftType /\ \A e \in Messages : draft'[e] = IF e = d THEN row ELSE draft[e]
BY DEF DraftType

LEMMA AnswerTyped ==
    ASSUME NEW kind, NEW chan, NEW status
    PROVE  AnswerOnStatus(kind, chan, status) \in Answers
BY DEF AnswerOnStatus, Answers

LEMMA NoDraftTyped == ASSUME persisted \in 0..MaxMessage
                      PROVE  [NoDraft EXCEPT !.status = "pending", !.born = persisted] \in DraftRecord
                             /\ NoDraft \in DraftRecord
<1>1. NoDraft \in DraftRecord
  BY DraftAssumption DEF NoDraft, DraftRecord, DraftStatus
<1>. QED
  BY <1>1 DEF DraftRecord, DraftStatus

-----------------------------------------------------------------------------
(* What each step does to the drafts.                                      *)

LEMMA InsertEffect ==
    ASSUME TypeOK, NEW m \in Messages, InsertDraft(m)
    PROVE  /\ draft' \in DraftType
           /\ draft'[m].status = "pending"
           /\ \A d \in Messages : d # m =>
                 /\ draft'[d].status = IF d \in SupersededApprovals THEN "cancelled"
                                       ELSE IF d \in Pending THEN "stale" ELSE draft[d].status
           /\ consent' \in [Messages -> {"none", "agent", "landlord"}]
           /\ \A d \in Messages : consent'[d] = IF d \in SupersededApprovals THEN "none"
                                                ELSE consent[d]
<1> DEFINE new == [NoDraft EXCEPT !.status = "pending", !.born = persisted]
           old(d) == IF d \in SupersededApprovals THEN [draft[d] EXCEPT !.status = "cancelled"]
                     ELSE IF d \in Pending THEN [draft[d] EXCEPT !.status = "stale"]
                     ELSE draft[d]
<1>1. draft \in DraftType /\ RestTyped
  BY TypeParts
<1>2. new \in DraftRecord /\ new.status = "pending"
  BY <1>1, NoDraftTyped DEF RestTyped, NoDraft
<1>3. ASSUME NEW d \in Messages
      PROVE  /\ old(d) \in DraftRecord
             /\ old(d).status = IF d \in SupersededApprovals THEN "cancelled"
                                ELSE IF d \in Pending THEN "stale" ELSE draft[d].status
  <2>1. draft[d] \in DraftRecord
    BY <1>1 DEF DraftType
  <2>. QED
    BY <2>1 DEF DraftRecord, DraftStatus
<1>4. ASSUME NEW d \in Messages PROVE draft'[d] = IF d = m THEN new ELSE old(d)
  <2> DEFINE rest == CASE d = m -> new
                       [] d # m /\ d \in SupersededApprovals -> [draft[d] EXCEPT !.status = "cancelled"]
                       [] d # m /\ d \in Pending -> [draft[d] EXCEPT !.status = "stale"]
                       [] OTHER -> draft[d]
  <2>1. draft'[d] = rest
    BY DEF InsertDraft
  <2>2. ~(d \in SupersededApprovals /\ d \in Pending)
    BY DEF SupersededApprovals, Pending, Drafts
  <2>3. CASE d = m
    BY <2>1, <2>3
  <2>4. CASE d # m /\ d \in SupersededApprovals
    BY <2>1, <2>2, <2>4
  <2>5. CASE d # m /\ d \in Pending
    BY <2>1, <2>2, <2>5
  <2>6. CASE d # m /\ d \notin SupersededApprovals /\ d \notin Pending
    BY <2>1, <2>6
  <2>. QED
    BY <2>3, <2>4, <2>5, <2>6
<1>5. draft' = [d \in Messages |-> draft'[d]]
  BY DEF InsertDraft
<1>. HIDE DEF new, old
<1>6. draft' \in DraftType /\ \A d \in Messages : draft'[d] = IF d = m THEN new ELSE old(d)
  <2>1. \A d \in Messages : draft'[d] \in DraftRecord
    BY <1>2, <1>3, <1>4
  <2>2. draft' \in [Messages -> DraftRecord]
    BY <1>5, <2>1
  <2>. QED
    BY <1>4, <2>2 DEF DraftType
<1>. QED
  BY <1>1, <1>2, <1>3, <1>6 DEF InsertDraft, RestTyped

AutoApproval(d) ==
    draft' = [draft EXCEPT ![d].status = "approved", ![d].auto = TRUE,
                           ![d].due = FALSE, ![d].touched = persisted]

LEMMA AutoEffect ==
    ASSUME TypeOK, NEW d \in Pending, AutoApproval(d)
    PROVE  /\ draft' \in DraftType
           /\ \A e \in Messages : draft'[e].status = IF e = d THEN "approved" ELSE draft[e].status
<1> DEFINE row == [draft[d] EXCEPT !.status = "approved", !.auto = TRUE, !.due = FALSE,
                                   !.touched = persisted]
<1>1. draft \in DraftType /\ d \in Messages /\ persisted \in 0..MaxMessage
  BY TypeParts DEF Pending, Drafts, RestTyped
<1>2. draft[d] \in DraftRecord
  BY <1>1 DEF DraftType
<1>3. row \in DraftRecord /\ row.status = "approved"
  BY <1>1, <1>2 DEF DraftRecord, DraftStatus
<1>4. draft' = [draft EXCEPT ![d] = row]
  BY <1>1, <1>2, Zenon DEF DraftType, AutoApproval
<1>. HIDE DEF row
<1>5. draft' \in DraftType /\ \A e \in Messages : draft'[e] = IF e = d THEN row ELSE draft[e]
  BY <1>1, <1>3, <1>4, PutRow
<1>. QED
  BY <1>3, <1>5

LEMMA ApplyEffect ==
    ASSUME TypeOK, NEW r \in Requests, NEW d \in Pending, NEW c \in CaseStatus, Apply(r, d, c)
    PROVE  /\ draft' \in DraftType
           /\ \A e \in Messages :
                 draft'[e].status = IF e # d THEN draft[e].status
                                    ELSE IF req[r].kind = "approve" THEN "approved" ELSE "rejected"
           /\ consent' \in [Messages -> {"none", "agent", "landlord"}]
           /\ \A e \in Messages :
                 consent'[e] = IF e # d THEN consent[e]
                               ELSE IF req[r].kind = "approve" THEN "landlord" ELSE "none"
           /\ case' \in CaseStatus
<1>1. draft \in DraftType /\ d \in Messages /\ persisted \in 0..MaxMessage /\ RestTyped
      /\ req[r] \in ReqRecord
  BY TypeParts DEF Pending, Drafts, RestTyped, ReqType
<1>2. draft[d] \in DraftRecord /\ req[r].chan \in {"dashboard", "sms"}
  BY <1>1 DEF DraftType, ReqRecord
<1>3. CASE req[r].kind = "approve"
  <2> DEFINE chan == req[r].chan
             row == [draft[d] EXCEPT !.status = "approved", !.via = chan, !.due = FALSE,
                                     !.touched = persisted]
  <2>1. chan \in {"dashboard", "sms"}
    BY <1>2
  <2>2. draft' = [draft EXCEPT ![d] = row]
    BY <1>3 DEF Apply
  <2>. HIDE DEF chan
  <2>3. row \in DraftRecord /\ row.status = "approved"
    BY <1>1, <1>2, <2>1 DEF DraftRecord, DraftStatus
  <2>. HIDE DEF row
  <2>4. draft' \in DraftType /\ \A e \in Messages : draft'[e] = IF e = d THEN row ELSE draft[e]
    BY <1>1, <2>2, <2>3, PutRow
  <2>. QED
    BY <1>1, <1>3, <2>3, <2>4 DEF Apply, RestTyped
<1>4. CASE req[r].kind # "approve"
  <2> DEFINE row == [draft[d] EXCEPT !.status = "rejected"]
  <2>1. row \in DraftRecord /\ row.status = "rejected"
    BY <1>2 DEF DraftRecord, DraftStatus
  <2>2. draft' = [draft EXCEPT ![d] = row]
    BY <1>4 DEF Apply
  <2>. HIDE DEF row
  <2>3. draft' \in DraftType /\ \A e \in Messages : draft'[e] = IF e = d THEN row ELSE draft[e]
    BY <1>1, <2>1, <2>2, PutRow
  <2>. QED
    BY <1>1, <1>4, <2>1, <2>3 DEF Apply, RestTyped, CaseStatus
<1>. QED
  BY <1>3, <1>4

\* A text only marks the rows that exist as answered.
LEMMA HeardEffect ==
    ASSUME NEW rows \in DraftType, NEW chan
    PROVE  /\ Heard(rows, chan) \in DraftType
           /\ \A d \in Messages : Heard(rows, chan)[d].status = rows[d].status
<1> DEFINE heard(d) == IF chan = "sms" /\ rows[d].status # "none"
                       THEN [rows[d] EXCEPT !.replied = TRUE] ELSE rows[d]
<1>1. ASSUME NEW d \in Messages
      PROVE  heard(d) \in DraftRecord /\ heard(d).status = rows[d].status
  <2>1. rows[d] \in DraftRecord
    BY DEF DraftType
  <2>. QED
    BY <2>1 DEF DraftRecord
<1>2. Heard(rows, chan) = [d \in Messages |-> heard(d)]
  BY DEF Heard
<1>. HIDE DEF heard
<1>. QED
  BY <1>1, <1>2 DEF DraftType

\* The drafts after an undo of d that leaves the given channel.
Undone(d, via) == [draft EXCEPT ![d].status = "pending", ![d].due = FALSE,
                                ![d].touched = persisted, ![d].via = via]

\* An undo that succeeds makes its draft pending again, and no other.
LEMMA UndoneEffect ==
    ASSUME TypeOK, NEW d \in Messages, NEW via \in {"none", "dashboard", "sms"},
           NEW rows, rows = Undone(d, via)
    PROVE  /\ rows \in DraftType
           /\ \A e \in Messages : rows[e].status = IF e = d THEN "pending" ELSE draft[e].status
<1> DEFINE row == [draft[d] EXCEPT !.status = "pending", !.due = FALSE, !.touched = persisted,
                                   !.via = via]
<1>1. draft \in DraftType /\ persisted \in 0..MaxMessage /\ draft[d] \in DraftRecord
  BY TypeParts DEF RestTyped, DraftType
<1>2. rows = [draft EXCEPT ![d] = row]
  BY Zenon DEF Undone
<1>3. row \in DraftRecord /\ row.status = "pending"
  BY <1>1 DEF DraftRecord, DraftStatus
<1>. HIDE DEF row
<1>4. rows \in DraftType /\ \A e \in Messages : rows[e] = IF e = d THEN row ELSE draft[e]
  BY <1>1, <1>2, <1>3 DEF DraftType
<1>. QED
  BY <1>3, <1>4

-----------------------------------------------------------------------------
(* The inductive invariant.                                                *)

Early == {"none", "load", "identify", "wait", "draft"}
AtLock == {"draft", "degrade", "auto", "mark", "flip", "pause"}

\* A run that has not reached draft_response has no draft.
Unborn ==
    \A m \in Messages :
        /\ run[m] \in Early => draft[m].status = "none"
        /\ m > persisted => run[m] = "none"

\* Only a claimed draft is texted, by the one sender that claimed it.
SendInv ==
    /\ \A d \in Messages : draft[d].status \notin {"sending", "sent"} => sends[d] = 0
    /\ \A d \in Messages : sends[d] <= 1
    /\ \A t \in Senders :
          /\ sender[t].pc = "send" => sends[sender[t].draft] = 0
          /\ sender[t].pc \in {"send", "record"} => draft[sender[t].draft].status = "sending"
    /\ \A t, u \in Senders :
          (sender[t].pc \in {"send", "record"} /\ sender[u].pc \in {"send", "record"} /\ t # u)
              => sender[t].draft # sender[u].draft

\* Somebody stands behind every draft that is approved or claimed.
ConsentInv ==
    \A d \in Messages : draft[d].status \in {"approved", "sending"} => consent[d] # "none"

\* What a resolution closed stays cancelled.
ClosedInv == \A d \in closed : draft[d].status = "cancelled"

\* The case lock excludes.
LockInv ==
    /\ \A m \in Messages : run[m] \in AtLock => lock = m
    /\ \A r \in Requests : req[r].pc = "decide" => lock = r

OnePending == \A d, e \in Pending : d = e

\* The draft of a request that is deciding is the pending one, unless the case
\* was resolved, and then there is none that could become pending.
DecideInv ==
    \A r \in Requests : req[r].pc = "decide" =>
        \/ draft[req[r].target].status = "pending"
        \/ /\ draft[req[r].target].status = "cancelled"
           /\ Drafts({"pending", "approved"}) = {}

\* A draft that somebody was told is rejected will not be sent.
RejectInv ==
    \A r \in Requests : req[r].answer = "rejected" =>
        draft[req[r].target].status \in {"rejected", "cancelled"}

DraftInv == /\ TypeOK /\ Unborn /\ SendInv /\ ConsentInv /\ ClosedInv
            /\ LockInv /\ OnePending /\ DecideInv /\ RejectInv

LEMMA RestNow == TypeOK => RestTyped
BY TypeParts

LEMMA TypeFrom ==
    ASSUME TypeOK, RestTyped', draft' \in DraftType, req' \in ReqType, sender' \in SenderType,
           Fault \/ UNCHANGED faults
    PROVE  TypeOK'
BY FaultTyped, TypePartsNext

LEMMA DraftInit == Init => DraftInv
<1> SUFFICES ASSUME Init PROVE DraftInv
  OBVIOUS
<1>1. NoDraft \in DraftRecord /\ NoDraft.status = "none"
  BY NoDraftTyped, DraftAssumption DEF Init, NoDraft
<1>2. \A d \in Messages : draft[d].status = "none"
  BY <1>1 DEF Init
<1>3. draft \in DraftType
  BY <1>1 DEF Init, DraftType
<1>9. RestTyped
  <2>1. notices \in Seq(Messages) /\ shown \in 0..Len(notices)
    BY DEF Init
  <2>2. persisted \in 0..MaxMessage
    BY DraftAssumption DEF Init
  <2>. QED
    BY <2>1, <2>2 DEF Init, RestTyped, CaseStatus, RunLabels
<1>10. 1 \in Messages
  BY DraftAssumption DEF Messages
<1>4. req \in ReqType /\ \A r \in Requests : req[r].pc = "idle" /\ req[r].answer = "none"
  BY <1>10 DEF Init, ReqType, ReqRecord, ReqLabels, Answers
<1>5. sender \in SenderType /\ \A t \in Senders : sender[t].pc = "idle"
  BY <1>10 DEF Init, SenderType, SenderRecord
<1>6. TypeOK
  BY <1>3, <1>9, <1>4, <1>5, DraftAssumption, TypeParts DEF Init
<1>7. Unborn /\ SendInv /\ ConsentInv /\ ClosedInv /\ LockInv
  BY <1>2, <1>4, <1>5 DEF Init, Unborn, SendInv, ConsentInv, ClosedInv, LockInv, AtLock
<1>8. OnePending /\ DecideInv /\ RejectInv
  BY <1>2, <1>4 DEF OnePending, Pending, Drafts, DecideInv, RejectInv
<1>. QED
  BY <1>6, <1>7, <1>8 DEF DraftInv

-----------------------------------------------------------------------------
(* What keeps a part of the invariant.                                     *)

LEMMA SendKept ==
    ASSUME SendInv, UNCHANGED <<sends, sender>>,
           \A d \in Messages : draft[d].status \in {"sending", "sent"} =>
                                    draft'[d].status = draft[d].status,
           TypeOK
    PROVE  SendInv'
<1>1. \A t \in Senders : sender[t].draft \in Messages
  BY DEF TypeOK
<1>2. \A d \in Messages : draft'[d].status \notin {"sending", "sent"} => sends[d] = 0
  BY DEF SendInv
<1>3. \A t \in Senders : sender[t].pc \in {"send", "record"} =>
          draft'[sender[t].draft].status = "sending"
  BY <1>1 DEF SendInv
<1>. QED
  BY <1>2, <1>3 DEF SendInv

\* No status moves.
StatusSame == \A d \in Messages : draft'[d].status = draft[d].status

LEMMA StatusKept ==
    ASSUME DraftInv, StatusSame, UNCHANGED <<sends, sender, consent, closed>>
    PROVE  SendInv' /\ ConsentInv' /\ ClosedInv' /\ OnePending'
<1>1. SendInv'
  BY SendKept DEF DraftInv, StatusSame
<1>2. ConsentInv' /\ ClosedInv'
  BY DEF DraftInv, StatusSame, ConsentInv, ClosedInv, TypeOK
<1>3. Pending' = Pending
  BY DEF Pending, Drafts, StatusSame
<1>. QED
  BY <1>1, <1>2, <1>3 DEF DraftInv, OnePending

\* A run that takes, keeps or gives back the lock as its place demands.
RunLocks(m, label) ==
    \/ lock' = lock /\ (label \in AtLock => run[m] \in AtLock)
    \/ lock = Free /\ lock' = m
    \/ lock = m /\ lock' = Free /\ label \notin AtLock

LEMMA FreeIsNobody == Free \notin Messages /\ Free \notin Requests
                      /\ \A m \in Messages : m \notin Requests
BY DraftAssumption

LEMMA RunMoves ==
    ASSUME DraftInv, NEW m \in Messages, NEW label \in RunLabels, RunTo(m, label)
    PROVE  \A n \in Messages : run'[n] = IF n = m THEN label ELSE run[n]
<1>1. run \in [Messages -> RunLabels]
  BY RestNow DEF DraftInv, RestTyped
<1>. QED
  BY <1>1, RunToFacts

LEMMA RunLockInv ==
    ASSUME DraftInv, NEW m \in Messages, NEW label \in RunLabels, RunTo(m, label), UNCHANGED req,
           RunLocks(m, label)
    PROVE  LockInv'
<1>1. \A n \in Messages : run'[n] = IF n = m THEN label ELSE run[n]
  BY RunMoves
<1>. QED
  BY <1>1, FreeIsNobody DEF DraftInv, LockInv, RunLocks

\* A step of a run that leaves the drafts alone.
LEMMA RunOnly ==
    ASSUME DraftInv, NEW m \in Messages, NEW label \in RunLabels, RunTo(m, label),
           RestTyped', Fault \/ UNCHANGED faults,
           UNCHANGED <<draft, req, sender, sends, consent, closed, persisted>>,
           run[m] # "none", label \in Early => run[m] \in Early, RunLocks(m, label)
    PROVE  DraftInv'
<1>1. \A n \in Messages : run'[n] = IF n = m THEN label ELSE run[n]
  BY RunMoves
<1>2. TypeOK'
  BY TypeFrom, TypeParts DEF DraftInv
<1>3. Unborn'
  BY <1>1 DEF DraftInv, Unborn, Early
<1>4. SendInv' /\ ConsentInv' /\ ClosedInv' /\ OnePending'
  BY StatusKept DEF StatusSame
<1>5. DecideInv' /\ RejectInv'
  BY DEF DraftInv, DecideInv, RejectInv, Drafts
<1>. QED
  BY <1>2, <1>3, <1>4, <1>5, RunLockInv DEF DraftInv

-----------------------------------------------------------------------------
(* The graph runs.                                                         *)

LEMMA RunTyped ==
    ASSUME TypeOK, NEW m \in Messages, NEW label \in RunLabels, RunTo(m, label)
    PROVE  run' \in [Messages -> RunLabels]
BY RunToFacts DEF TypeOK, RunLabels

LEMMA DPersist == ASSUME DraftInv, Persist PROVE DraftInv'
<1> DEFINE m == persisted + 1
<1>1. m \in Messages /\ run[m] = "none" /\ persisted \in 0..MaxMessage
  BY DraftAssumption DEF Persist, DraftInv, TypeOK, Unborn, Messages
<1>2. RunTo(m, "load") /\ persisted' = m
  BY DEF Persist
<1>3. persisted' \in 0..MaxMessage
  BY <1>1, <1>2, DraftAssumption DEF Messages
<1>. HIDE DEF m
<1>4. \A n \in Messages : run'[n] = IF n = m THEN "load" ELSE run[n]
  BY <1>1, <1>2, RunMoves DEF RunLabels
<1>5. RestTyped'
  BY <1>1, <1>2, <1>3, RunTyped, RestNow
     DEF Persist, DraftInv, RestTyped, caseVars, lockVars, ghostVars, RunLabels
<1>6. TypeOK'
  BY <1>5, TypeFrom, TypeParts DEF DraftInv, Persist
<1>7. Unborn'
  <2>1. \A n \in Messages : n > m => n > persisted
    BY <1>1 DEF m, Messages
  <2>2. ~(m > m)
    BY <1>1 DEF Messages
  <2>. QED
    BY <1>1, <1>2, <1>4, <2>1, <2>2 DEF DraftInv, Unborn, Early, Persist
<1>8. SendInv' /\ ConsentInv' /\ ClosedInv' /\ OnePending'
  BY StatusKept DEF StatusSame, Persist, ghostVars
<1>9. LockInv'
  BY <1>1, <1>2, RunLockInv DEF Persist, RunLocks, lockVars, AtLock, RunLabels
<1>10. DecideInv' /\ RejectInv'
  BY DEF DraftInv, DecideInv, RejectInv, Drafts, Persist
<1>. QED
  BY <1>6, <1>7, <1>8, <1>9, <1>10 DEF DraftInv

LEMMA DLoadContext == ASSUME DraftInv, NEW m \in Messages, LoadContext(m) PROVE DraftInv'
<1>1. PICK label \in {"done", "identify"} : RunTo(m, label)
  BY DEF LoadContext
<1>2. RestTyped'
  BY <1>1, RunTyped, RestNow
     DEF LoadContext, RunUnchanged, DraftInv, RestTyped, caseVars, lockVars, ghostVars,
         RunLabels
<1>. QED
  BY <1>1, <1>2, RunOnly
     DEF LoadContext, RunUnchanged, lockVars, ghostVars, RunLabels, Early, AtLock, RunLocks

LEMMA DIdentifyCase == ASSUME DraftInv, NEW m \in Messages, IdentifyCase(m) PROVE DraftInv'
<1>1. RestTyped'
  BY RunTyped, RestNow
     DEF IdentifyCase, RunUnchanged, DraftInv, RestTyped, lockVars, ghostVars, RunLabels,
         CaseStatus
<1>. QED
  BY <1>1, RunOnly
     DEF IdentifyCase, RunUnchanged, lockVars, ghostVars, RunLabels, Early, AtLock, RunLocks

LEMMA DTakeLock == ASSUME DraftInv, NEW m \in Messages, TakeLock(m) PROVE DraftInv'
<1>1. RestTyped'
  BY RunTyped, RestNow
     DEF TakeLock, RunUnchanged, DraftInv, RestTyped, caseVars, ghostVars, RunLabels
<1>. QED
  BY <1>1, RunOnly DEF TakeLock, LockFree, RunUnchanged, ghostVars, RunLabels, Early, RunLocks

LEMMA DRunLockTimeout == ASSUME DraftInv, NEW m \in Messages, RunLockTimeout(m) PROVE DraftInv'
<1>1. RestTyped'
  BY RunTyped, RestNow
     DEF RunLockTimeout, RunUnchanged, DraftInv, RestTyped, caseVars, lockVars, ghostVars,
         RunLabels
<1>. QED
  BY <1>1, RunOnly
     DEF RunLockTimeout, RunUnchanged, lockVars, ghostVars, RunLabels, Early, AtLock, RunLocks

LEMMA DDegradedMode == ASSUME DraftInv, NEW m \in Messages, DegradedMode(m) PROVE DraftInv'
<1>1. RestTyped'
  BY RunTyped, RestNow
     DEF DegradedMode, Unlock, RunUnchanged, DraftInv, RestTyped, caseVars, ghostVars,
         RunLabels
<1>2. lock = m
  BY DEF DegradedMode, DraftInv, LockInv, AtLock
<1>. QED
  BY <1>1, <1>2, RunOnly
     DEF DegradedMode, Unlock, RunUnchanged, ghostVars, RunLabels, Early, AtLock, RunLocks

LEMMA DMarkSelect == ASSUME DraftInv, NEW m \in Messages, MarkSelect(m) PROVE DraftInv'
<1>1. PICK label \in {"pause", "flip"} : RunTo(m, label)
  BY DEF MarkSelect
<1>2. RestTyped'
  BY <1>1, RunTyped, RestNow
     DEF MarkSelect, RunUnchanged, DraftInv, RestTyped, caseVars, lockVars, ghostVars,
         RunLabels
<1>. QED
  BY <1>1, <1>2, RunOnly
     DEF MarkSelect, RunUnchanged, lockVars, ghostVars, RunLabels, Early, AtLock, RunLocks

LEMMA DMarkFlip == ASSUME DraftInv, NEW m \in Messages, MarkFlip(m) PROVE DraftInv'
<1>1. notices \in Seq(Messages) /\ shown \in 0..Len(notices)
  BY DEF DraftInv, TypeOK
<1>2. notices' \in Seq(Messages) /\ shown' \in 0..Len(notices')
  <2>1. CASE Pending = {}
    BY <1>1, <2>1 DEF MarkFlip
  <2>2. CASE Pending # {}
    <3> DEFINE d == CHOOSE d \in Pending : TRUE
    <3>1. d \in Messages
      BY <2>2 DEF Pending, Drafts
    <3>2. notices' = Append(notices, d) /\ shown' = shown
      BY <2>2 DEF MarkFlip
    <3>. HIDE DEF d
    <3>. QED
      BY <1>1, <3>1, <3>2
  <2>. QED
    BY <2>1, <2>2
<1>3. RestTyped'
  BY <1>2, RunTyped, RestNow
     DEF MarkFlip, RunUnchanged, DraftInv, RestTyped, lockVars, ghostVars, RunLabels,
         CaseStatus
<1>. QED
  BY <1>3, RunOnly
     DEF MarkFlip, RunUnchanged, lockVars, ghostVars, RunLabels, Early, AtLock, RunLocks

LEMMA DAwaitApproval == ASSUME DraftInv, NEW m \in Messages, AwaitApproval(m) PROVE DraftInv'
<1>1. RestTyped'
  BY RunTyped, RestNow
     DEF AwaitApproval, Unlock, RunUnchanged, DraftInv, RestTyped, caseVars, ghostVars,
         RunLabels
<1>2. lock = m
  BY DEF AwaitApproval, DraftInv, LockInv, AtLock
<1>. QED
  BY <1>1, <1>2, RunOnly
     DEF AwaitApproval, Unlock, RunUnchanged, ghostVars, RunLabels, Early, AtLock, RunLocks

LEMMA DRunDies == ASSUME DraftInv, NEW m \in Messages, RunDies(m) PROVE DraftInv'
<1>1. RestTyped'
  BY RunTyped, RestNow
     DEF RunDies, RunUnchanged, DraftInv, RestTyped, caseVars, ghostVars, RunLabels
<1>2. RunLocks(m, "done")
  BY DEF RunDies, RunLocks, AtLock
<1>. QED
  BY <1>1, <1>2, RunOnly DEF RunDies, RunUnchanged, ghostVars, RunLabels, Early

LEMMA NobodyDecides ==
    ASSUME DraftInv, NEW m \in Messages, lock \in {m, Free}
    PROVE  \A r \in Requests : req[r].pc # "decide"
BY FreeIsNobody DEF DraftInv, LockInv

LEMMA DInsertDraft == ASSUME DraftInv, NEW m \in Messages, InsertDraft(m) PROVE DraftInv'
<1>1. PICK label \in {"auto", "mark", "degrade"} : RunTo(m, label)
  BY DEF InsertDraft
<1>2. label \in RunLabels /\ label \in AtLock /\ label \notin Early
  BY DEF RunLabels, AtLock, Early
<1>3. lock = m /\ draft[m].status = "none"
  BY DEF InsertDraft, DraftInv, LockInv, Unborn, AtLock, Early
<1>4. /\ draft' \in DraftType
      /\ draft'[m].status = "pending"
      /\ \A d \in Messages : d # m =>
            draft'[d].status = IF d \in SupersededApprovals THEN "cancelled"
                               ELSE IF d \in Pending THEN "stale" ELSE draft[d].status
      /\ consent' \in [Messages -> {"none", "agent", "landlord"}]
      /\ \A d \in Messages : consent'[d] = IF d \in SupersededApprovals THEN "none" ELSE consent[d]
  BY InsertEffect DEF DraftInv
<1>5. \A n \in Messages : run'[n] = IF n = m THEN label ELSE run[n]
  BY <1>1, <1>2, RunMoves
<1>6. \A d \in Messages : /\ d \in SupersededApprovals => draft[d].status = "approved"
                          /\ d \in Pending <=> draft[d].status = "pending"
  BY DEF SupersededApprovals, Pending, Drafts
<1>7. RestTyped'
  BY <1>1, <1>2, <1>4, RunTyped, RestNow
     DEF InsertDraft, RunUnchanged, DraftInv, RestTyped, caseVars, lockVars
<1>8. TypeOK'
  BY <1>4, <1>7, TypeFrom, TypeParts DEF DraftInv, InsertDraft, RunUnchanged
<1>9. Unborn'
  <2>1. \A n \in Messages : run'[n] \in Early => n # m /\ draft[n].status = "none"
    BY <1>2, <1>5 DEF DraftInv, Unborn
  <2>2. \A n \in Messages : run'[n] \in Early => draft'[n].status = "none"
    BY <2>1, <1>4, <1>6
  <2>3. run[m] # "none"
    BY DEF InsertDraft
  <2>. QED
    BY <2>2, <2>3, <1>5 DEF DraftInv, Unborn, InsertDraft, RunUnchanged
<1>10. SendInv'
  <2>1. \A d \in Messages : draft[d].status \in {"sending", "sent"} =>
                                draft'[d].status = draft[d].status
    BY <1>3, <1>4, <1>6
  <2>. QED
    BY <2>1, SendKept DEF DraftInv, InsertDraft, RunUnchanged
<1>11. ConsentInv'
  BY <1>3, <1>4, <1>6 DEF DraftInv, ConsentInv
<1>12. ClosedInv'
  <2>1. closed' = closed /\ closed \subseteq Messages
    BY DEF InsertDraft, DraftInv, TypeOK
  <2>. QED
    BY <2>1, <1>3, <1>4, <1>6 DEF DraftInv, ClosedInv
<1>13. LockInv'
  BY <1>1, <1>2, <1>3, RunLockInv DEF InsertDraft, RunUnchanged, RunLocks, lockVars, AtLock
<1>14. OnePending'
  <2>1. \A d \in Messages : draft'[d].status = "pending" => d = m
    BY <1>4, <1>6
  <2>. QED
    BY <2>1 DEF OnePending, Pending, Drafts
<1>15. DecideInv'
  BY <1>3, NobodyDecides DEF DecideInv, InsertDraft, RunUnchanged
<1>16. RejectInv'
  <2>1. \A r \in Requests : req[r].target \in Messages
    BY DEF DraftInv, TypeOK
  <2>. QED
    BY <2>1, <1>3, <1>4, <1>6 DEF DraftInv, RejectInv, InsertDraft, RunUnchanged
<1>. QED
  BY <1>8, <1>9, <1>10, <1>11, <1>12, <1>13, <1>14, <1>15, <1>16 DEF DraftInv

LEMMA DAutoSend == ASSUME DraftInv, NEW m \in Messages, AutoSend(m) PROVE DraftInv'
<1>3. lock = m
  BY DEF AutoSend, DraftInv, LockInv, AtLock
<1>1. CASE RunTo(m, "mark") /\ UNCHANGED <<draft, lock, consent>>
  <2>1. RestTyped'
    BY <1>1, RunTyped, RestNow
       DEF AutoSend, RunUnchanged, DraftInv, RestTyped, caseVars, RunLabels
  <2>. QED
    BY <1>1, <2>1, RunOnly DEF AutoSend, RunUnchanged, RunLabels, Early, AtLock, RunLocks
<1>2. ASSUME NEW d \in Pending, AutoApproval(d), consent' = [consent EXCEPT ![d] = "agent"],
             RunTo(m, "done"), Unlock
      PROVE  DraftInv'
  <2>1. d \in Messages /\ draft[d].status = "pending"
    BY DEF Pending, Drafts
  <2>2. /\ draft' \in DraftType
        /\ \A e \in Messages : draft'[e].status = IF e = d THEN "approved" ELSE draft[e].status
    BY <1>2, AutoEffect DEF DraftInv
  <2>3. /\ consent' \in [Messages -> {"none", "agent", "landlord"}]
        /\ \A e \in Messages : consent'[e] = IF e = d THEN "agent" ELSE consent[e]
    BY <1>2, <2>1 DEF DraftInv, TypeOK
  <2>4. \A n \in Messages : run'[n] = IF n = m THEN "done" ELSE run[n]
    BY <1>2, RunMoves DEF RunLabels
  <2>5. RestTyped'
    BY <1>2, <2>3, RunTyped, RestNow DEF AutoSend, RunUnchanged, DraftInv, RestTyped, caseVars,
                                         Unlock, RunLabels
  <2>6. TypeOK'
    BY <2>2, <2>5, TypeFrom, TypeParts DEF DraftInv, AutoSend, RunUnchanged
  <2>7. Unborn'
    BY <2>1, <2>2, <2>4 DEF DraftInv, Unborn, Early, AutoSend, RunUnchanged
  <2>8. SendInv'
    BY <2>1, <2>2, SendKept DEF DraftInv, AutoSend, RunUnchanged
  <2>9. ConsentInv' /\ OnePending'
    BY <2>1, <2>2, <2>3 DEF DraftInv, ConsentInv, OnePending, Pending, Drafts
  <2>10. ClosedInv'
    <3>1. closed' = closed /\ closed \subseteq Messages
      BY DEF AutoSend, DraftInv, TypeOK
    <3>. QED
      BY <3>1, <2>1, <2>2 DEF DraftInv, ClosedInv
  <2>11. LockInv'
    BY <1>3, <1>2, RunLockInv DEF AutoSend, RunUnchanged, RunLocks, Unlock, AtLock, RunLabels
  <2>12. DecideInv'
    BY <1>3, NobodyDecides DEF DecideInv, AutoSend, RunUnchanged
  <2>13. RejectInv'
    <3>1. \A r \in Requests : req[r].target \in Messages
      BY DEF DraftInv, TypeOK
    <3>. QED
      BY <3>1, <2>1, <2>2 DEF DraftInv, RejectInv, AutoSend, RunUnchanged
  <2>. QED
    BY <2>6, <2>7, <2>8, <2>9, <2>10, <2>11, <2>12, <2>13 DEF DraftInv
<1>. QED
  BY <1>1, <1>2 DEF AutoSend, AutoApproval

LEMMA DNoticeSent == ASSUME DraftInv, NoticeSent PROVE DraftInv'
<1>1. RestTyped'
  <2>1. notices' = notices /\ shown' \in 0..Len(notices)
    BY DEF NoticeSent, DraftInv, TypeOK
  <2>. QED
    BY <2>1, RestNow DEF NoticeSent, RunUnchanged, DraftInv, RestTyped, lockVars, ghostVars
<1>2. TypeOK'
  BY <1>1, TypeFrom, TypeParts DEF DraftInv, NoticeSent, RunUnchanged
<1>3. SendInv' /\ ConsentInv' /\ ClosedInv' /\ OnePending'
  BY StatusKept DEF StatusSame, NoticeSent, RunUnchanged, ghostVars
<1>4. Unborn' /\ LockInv' /\ DecideInv' /\ RejectInv'
  BY DEF DraftInv, Unborn, LockInv, DecideInv, RejectInv, Drafts, NoticeSent, RunUnchanged,
         lockVars
<1>. QED
  BY <1>2, <1>3, <1>4 DEF DraftInv

-----------------------------------------------------------------------------
(* The landlord's requests.                                                *)

\* A step of a request that moves no draft.
LEMMA ReqOnly ==
    ASSUME DraftInv, NEW r \in Requests, RestTyped', Fault \/ UNCHANGED faults,
           req' \in ReqType, \A q \in Requests : q # r => req'[q] = req[q],
           draft' \in DraftType, StatusSame,
           UNCHANGED <<run, persisted, sender, sends, consent, closed>>,
           \/ lock' = lock /\ req'[r].pc # "decide"
           \/ lock = Free /\ lock' = r
           \/ lock = r /\ lock' = Free /\ req'[r].pc # "decide",
           req'[r].pc = "decide" => draft[req'[r].target].status = "pending",
           req'[r].answer = "rejected" =>
               draft[req'[r].target].status \in {"rejected", "cancelled"}
    PROVE  DraftInv'
<1>1. \A q \in Requests : req[q].target \in Messages /\ req'[q].target \in Messages
  BY DEF DraftInv, TypeOK, ReqType, ReqRecord
<1>2. TypeOK'
  BY TypeFrom, TypeParts DEF DraftInv
<1>3. SendInv' /\ ConsentInv' /\ ClosedInv' /\ OnePending'
  BY StatusKept
<1>4. Unborn'
  BY DEF DraftInv, Unborn, StatusSame
<1>5. LockInv'
  BY FreeIsNobody DEF DraftInv, LockInv
<1>6. DecideInv'
  <2>1. Drafts({"pending", "approved"})' = Drafts({"pending", "approved"})
    BY DEF Drafts, StatusSame
  <2>. QED
    BY <1>1, <2>1 DEF DraftInv, DecideInv, StatusSame
<1>7. RejectInv'
  BY <1>1 DEF DraftInv, RejectInv, StatusSame
<1>. QED
  BY <1>2, <1>3, <1>4, <1>5, <1>6, <1>7 DEF DraftInv

LEMMA ReqNow == DraftInv => draft \in DraftType /\ req \in ReqType /\ RestTyped
BY TypeParts DEF DraftInv

\* A request that moves on to a place where it does not hold the lock.
LEMMA ReqMoves ==
    ASSUME DraftInv, NEW r \in Requests, NEW label \in ReqLabels \ {"decide"}, ReqTo(r, label),
           UNCHANGED <<case, linked, notices, shown, draft, lock, paused, run, persisted, sender,
                       sends, consent, closed, faults>>
    PROVE  DraftInv'
<1>1. /\ req' \in ReqType /\ req'[r].pc = label
      /\ \A q \in Requests : q # r => req'[q] = req[q]
      /\ req'[r].target = req[r].target /\ req'[r].answer = req[r].answer
  BY ReqNow, ReqToFacts
<1>2. RestTyped' /\ draft' \in DraftType
  BY ReqNow DEF RestTyped
<1>. QED
  BY <1>1, <1>2, ReqOnly DEF StatusSame, DraftInv, RejectInv

\* A request that answers, and leaves the drafts alone.
LEMMA ReqAnswers ==
    ASSUME DraftInv, NEW r \in Requests, NEW a \in Answers, Answer(r, a), RestTyped',
           UNCHANGED <<draft, run, persisted, sender, sends, consent, closed>>,
           Fault \/ UNCHANGED faults,
           lock' = lock \/ (lock = r /\ lock' = Free),
           a = "rejected" => draft[req[r].target].status \in {"rejected", "cancelled"}
    PROVE  DraftInv'
<1>1. /\ req' \in ReqType /\ req'[r].pc = "done" /\ req'[r].answer = a
      /\ \A q \in Requests : q # r => req'[q] = req[q]
      /\ req'[r].target = req[r].target
  BY ReqNow, AnswerFacts
<1>2. draft' \in DraftType
  BY ReqNow
<1>. QED
  BY <1>1, <1>2, ReqOnly DEF StatusSame

\* Nobody is told 'rejected' of a draft that is not.
LEMMA RejectedAnswer ==
    ASSUME NEW kind, NEW chan, NEW status, AnswerOnStatus(kind, chan, status) = "rejected"
    PROVE  status = "rejected"
BY DEF AnswerOnStatus

LEMMA DPeekCase == ASSUME DraftInv, NEW r \in Requests, PeekCase(r) PROVE DraftInv'
<1>1. PICK label \in {"resume", "finalize"} : ReqTo(r, label)
  BY DEF PeekCase
<1>. QED
  BY <1>1, ReqMoves DEF PeekCase, ReqUnchanged, lockVars, ghostVars, ReqLabels

LEMMA DPeekDraft == ASSUME DraftInv, NEW r \in Requests, PeekDraft(r) PROVE DraftInv'
<1>1. PICK label \in {"finalize", "reconcile"} : ReqTo(r, label)
  BY DEF PeekDraft
<1>. QED
  BY <1>1, ReqMoves DEF PeekDraft, ReqUnchanged, lockVars, ghostVars, ReqLabels

LEMMA DResume == ASSUME DraftInv, NEW r \in Requests, Resume(r) PROVE DraftInv'
<1>1. CASE IsPending(r) /\ paused
  <2>1. lock = Free /\ lock' = r /\ paused' = FALSE /\ ReqTo(r, "decide")
    BY <1>1 DEF Resume, LockFree
  <2>2. /\ req' \in ReqType /\ req'[r].pc = "decide"
        /\ \A q \in Requests : q # r => req'[q] = req[q]
        /\ req'[r].target = req[r].target /\ req'[r].answer = req[r].answer
    BY <2>1, ReqNow, ReqToFacts DEF ReqLabels
  <2>3. draft[req[r].target].status = "pending"
    BY <1>1 DEF IsPending, Pending, Drafts
  <2>4. RestTyped' /\ draft' \in DraftType
    BY <2>1, ReqNow DEF RestTyped, Resume, ReqUnchanged, ghostVars
  <2>. QED
    BY <2>1, <2>2, <2>3, <2>4, ReqOnly
       DEF Resume, ReqUnchanged, ghostVars, StatusSame, DraftInv, RejectInv
<1>2. CASE ~(IsPending(r) /\ paused)
  <2>1. PICK label \in {"repeek", "reconcile"} : ReqTo(r, label)
    BY <1>2 DEF Resume
  <2>. QED
    BY <1>2, <2>1, ReqMoves DEF Resume, ReqUnchanged, lockVars, ghostVars, ReqLabels
<1>. QED
  BY <1>1, <1>2

LEMMA DReconcile == ASSUME DraftInv, NEW r \in Requests, Reconcile(r) PROVE DraftInv'
<1> DEFINE a == AnswerOnStatus(req[r].kind, "dashboard", draft[req[r].target].status)
<1>1. a \in Answers /\ (a = "rejected" => draft[req[r].target].status = "rejected")
  BY AnswerTyped, RejectedAnswer
<1>2. Answer(r, a)
  BY DEF Reconcile
<1>. HIDE DEF a
<1>3. RestTyped'
  BY ReqNow DEF RestTyped, Reconcile, ReqUnchanged, lockVars, ghostVars
<1>. QED
  BY <1>1, <1>2, <1>3, ReqAnswers DEF Reconcile, ReqUnchanged, lockVars, ghostVars

LEMMA DRequestLockTimeout ==
    ASSUME DraftInv, NEW r \in Requests, RequestLockTimeout(r) PROVE DraftInv'
<1>1. RestTyped'
  BY ReqNow DEF RestTyped, RequestLockTimeout, ReqUnchanged, lockVars, ghostVars
<1>. QED
  BY <1>1, ReqAnswers DEF RequestLockTimeout, ReqUnchanged, lockVars, ghostVars, Answers

LEMMA DRequestDies == ASSUME DraftInv, NEW r \in Requests, RequestDies(r) PROVE DraftInv'
<1>1. RestTyped'
  BY ReqNow DEF RestTyped, RequestDies, ReqUnchanged, ghostVars
<1>. QED
  BY <1>1, ReqAnswers DEF RequestDies, ReqUnchanged, ghostVars, Answers

LEMMA DAsk ==
    ASSUME DraftInv, NEW r \in Requests, NEW d \in Messages, NEW kind \in {"approve", "reject"},
           NEW chan \in {"dashboard", "sms"}, Ask(r, d, kind, chan)
    PROVE  DraftInv'
<1> DEFINE status == draft[d].status
           label == IF status = "pending" THEN "peek" ELSE "done"
           a == IF status = "pending" THEN "none" ELSE AnswerOnStatus(kind, chan, status)
           row == [pc |-> label, kind |-> kind, chan |-> chan, target |-> d, answer |-> a]
<1>1. req' = [req EXCEPT ![r] = row] /\ draft' = Heard(draft, chan)
  BY DEF Ask
<1>2. a \in Answers /\ (a = "rejected" => status = "rejected")
  BY AnswerTyped, RejectedAnswer DEF Answers
<1>. HIDE DEF status, a
<1>3. label \in {"peek", "done"}
  OBVIOUS
<1>. HIDE DEF label
<1>4. /\ row \in ReqRecord /\ row.pc \in {"peek", "done"} /\ row.target = d /\ row.answer = a
  BY <1>2, <1>3 DEF ReqRecord, ReqLabels
<1>. HIDE DEF row
<1>5. req' \in ReqType /\ req'[r] = row /\ \A q \in Requests : q # r => req'[q] = req[q]
  BY <1>1, <1>4, ReqNow DEF ReqType
<1>6. draft' \in DraftType /\ StatusSame
  BY <1>1, ReqNow, HeardEffect DEF StatusSame
<1>7. RestTyped'
  BY ReqNow DEF RestTyped, Ask, ReqUnchanged, lockVars, ghostVars
<1>8. req'[r].pc # "decide" /\ (req'[r].answer = "rejected" => draft[req'[r].target].status = "rejected")
  BY <1>2, <1>4, <1>5 DEF status
<1>. QED
  BY <1>5, <1>6, <1>7, <1>8, ReqOnly DEF Ask, ReqUnchanged, lockVars, ghostVars

\* A request that decides the pending draft it is about, while nobody else
\* decides.
LEMMA Decision ==
    ASSUME DraftInv, NEW r \in Requests, NEW d \in Pending, NEW c \in CaseStatus,
           d = req[r].target, Apply(r, d, c), Done(r), UNCHANGED <<closed, faults, paused>>,
           ReqUnchanged,
           lock' = lock \/ (lock = r /\ lock' = Free),
           \A q \in Requests : q # r => req[q].pc # "decide"
    PROVE  DraftInv'
<1> DEFINE a == IF req[r].kind = "approve" THEN "approved" ELSE "rejected"
<1>1. d \in Messages /\ draft[d].status = "pending"
  BY DEF Pending, Drafts
<1>2. a \in Answers /\ Answer(r, a)
  BY DEF Answers, Done
<1>3. /\ draft' \in DraftType
      /\ \A e \in Messages : draft'[e].status = IF e # d THEN draft[e].status ELSE a
      /\ consent' \in [Messages -> {"none", "agent", "landlord"}]
      /\ \A e \in Messages : consent'[e] = IF e # d THEN consent[e]
                                           ELSE IF a = "approved" THEN "landlord" ELSE "none"
      /\ case' \in CaseStatus
  BY ApplyEffect DEF DraftInv
<1>4. a \in {"approved", "rejected"}
  OBVIOUS
<1>. HIDE DEF a
<1>5. /\ req' \in ReqType /\ req'[r].pc = "done" /\ req'[r].answer = a
      /\ \A q \in Requests : q # r => req'[q] = req[q]
      /\ req'[r].target = d
  BY <1>2, ReqNow, AnswerFacts
<1>6. lock' \in Messages \cup Requests \cup {Free}
  BY DEF DraftInv, TypeOK
<1>7. RestTyped'
  BY <1>3, <1>6, ReqNow DEF RestTyped, ReqUnchanged
<1>8. TypeOK'
  BY <1>3, <1>5, <1>7, TypeFrom, TypeParts DEF DraftInv, ReqUnchanged
<1>9. Unborn'
  BY <1>1, <1>3 DEF DraftInv, Unborn, ReqUnchanged
<1>10. SendInv'
  BY <1>1, <1>3, SendKept DEF DraftInv, ReqUnchanged
<1>11. ConsentInv' /\ OnePending'
  BY <1>1, <1>3, <1>4 DEF DraftInv, ConsentInv, OnePending, Pending, Drafts
<1>12. ClosedInv'
  <2>1. closed \subseteq Messages
    BY DEF DraftInv, TypeOK
  <2>. QED
    BY <2>1, <1>1, <1>3 DEF DraftInv, ClosedInv
<1>13. LockInv'
  BY <1>5, FreeIsNobody DEF DraftInv, LockInv, ReqUnchanged
<1>14. DecideInv'
  BY <1>5 DEF DecideInv
<1>15. RejectInv'
  <2>1. \A q \in Requests : req[q].target \in Messages
    BY DEF DraftInv, TypeOK
  <2>. QED
    BY <2>1, <1>1, <1>3, <1>5 DEF DraftInv, RejectInv
<1>. QED
  BY <1>8, <1>9, <1>10, <1>11, <1>12, <1>13, <1>14, <1>15 DEF DraftInv

\* The resumed thread finds the draft the landlord looked at.
LEMMA DecidesTarget ==
    ASSUME DraftInv, NEW r \in Requests, req[r].pc = "decide", NEW d \in Pending
    PROVE  d = req[r].target
<1>1. req[r].target \in Messages /\ d \in Messages /\ draft[d].status = "pending"
  BY DEF DraftInv, TypeOK, Pending, Drafts
<1>2. draft[req[r].target].status = "pending"
  BY <1>1 DEF DraftInv, DecideInv, Drafts
<1>. QED
  BY <1>1, <1>2 DEF DraftInv, OnePending, Pending, Drafts

LEMMA DDecide == ASSUME DraftInv, NEW r \in Requests, Decide(r) PROVE DraftInv'
<1>1. /\ req[r].pc = "decide" /\ lock = r /\ lock' = Free
      /\ \A q \in Requests : q # r => req[q].pc # "decide"
  BY DEF Decide, Unlock, DraftInv, LockInv
<1>2. ASSUME NEW d \in Pending, Apply(r, d, case) PROVE DraftInv'
  <2>1. d = req[r].target /\ case \in CaseStatus
    BY <1>1, DecidesTarget, ReqNow DEF RestTyped
  <2>. QED
    BY <1>1, <1>2, <2>1, Decision DEF Decide
<1>3. CASE Pending = {} /\ UNCHANGED <<draft, consent, case>>
  <2> DEFINE a == IF req[r].kind = "approve" THEN "approved" ELSE "rejected"
  <2>1. a \in Answers /\ Answer(r, a)
    BY DEF Answers, Decide, Done
  <2>2. draft[req[r].target].status = "cancelled"
    <3>1. req[r].target \in Messages
      BY DEF DraftInv, TypeOK
    <3>. QED
      BY <3>1, <1>1, <1>3 DEF DraftInv, DecideInv, Pending, Drafts
  <2>3. RestTyped'
    BY <1>1, <1>3, ReqNow DEF RestTyped, Decide, ReqUnchanged
  <2>. HIDE DEF a
  <2>. QED
    BY <1>1, <1>3, <2>1, <2>2, <2>3, ReqAnswers DEF Decide, ReqUnchanged
<1>. QED
  BY <1>2, <1>3 DEF Decide

LEMMA DFinalize == ASSUME DraftInv, NEW r \in Requests, Finalize(r) PROVE DraftInv'
<1>1. lock = Free /\ \A q \in Requests : req[q].pc # "decide"
  BY FreeIsNobody DEF Finalize, LockFree, DraftInv, LockInv
<1>2. CASE IsPending(r)
  <2>1. /\ req[r].target \in Pending /\ Apply(r, req[r].target, "awaiting_approval") /\ Done(r)
        /\ "awaiting_approval" \in CaseStatus
    BY <1>2 DEF Finalize, IsPending, CaseStatus
  <2>. QED
    BY <1>1, <2>1, Decision DEF Finalize, lockVars
<1>3. CASE ~IsPending(r)
  BY <1>3, ReqMoves DEF Finalize, ReqUnchanged, lockVars, ReqLabels
<1>. QED
  BY <1>2, <1>3

LEMMA DUndo ==
    ASSUME DraftInv, NEW r \in Requests, NEW d \in Messages, NEW chan \in {"dashboard", "sms"},
           Undo(r, d, chan)
    PROVE  DraftInv'
<1> DEFINE status == draft[d].status
           succeeds == status \in Undoable /\ Pending = {}
           via == IF chan = "sms" THEN "none" ELSE draft[d].via
           a == CASE succeeds -> "undone"
                  [] status \in Undoable /\ Pending # {} -> "error"
                  [] status = "pending" /\ chan = "dashboard" -> "undone"
                  [] status \in {"sending", "sent"} -> "toolate"
                  [] OTHER -> "nothing"
           row == [pc |-> "done", kind |-> "undo", chan |-> chan, target |-> d, answer |-> a]
<1>1. /\ req' = [req EXCEPT ![r] = row]
      /\ draft' = Heard(IF succeeds THEN Undone(d, via) ELSE draft, chan)
      /\ consent' = IF succeeds THEN [consent EXCEPT ![d] = "none"] ELSE consent
  BY DEF Undo, Undone
<1>2. a \in Answers /\ a # "rejected"
  BY DEF Answers
<1>3. draft[d] \in DraftRecord /\ via \in {"none", "dashboard", "sms"}
  BY ReqNow DEF DraftType, DraftRecord
<1>. HIDE DEF a, via
<1>4. row \in ReqRecord /\ row.pc = "done" /\ row.target = d /\ row.answer # "rejected"
  BY <1>2 DEF ReqRecord, ReqLabels
<1>. HIDE DEF row
<1>5. req' \in ReqType /\ req'[r] = row /\ \A q \in Requests : q # r => req'[q] = req[q]
  BY <1>1, <1>4, ReqNow DEF ReqType
<1>6. CASE ~succeeds
  <2>1. draft' \in DraftType /\ StatusSame
    BY <1>1, <1>6, ReqNow, HeardEffect DEF StatusSame
  <2>2. RestTyped'
    BY <1>1, <1>6, ReqNow DEF RestTyped, Undo, ReqUnchanged, lockVars
  <2>. QED
    BY <1>1, <1>4, <1>5, <1>6, <2>1, <2>2, ReqOnly DEF Undo, ReqUnchanged, lockVars
<1>7. CASE succeeds
  <2>1. status = "approved" /\ Pending = {}
    BY <1>7 DEF Undoable
  <2> DEFINE rows == Undone(d, via)
  <2>2. /\ rows \in DraftType
        /\ \A e \in Messages : rows[e].status = IF e = d THEN "pending" ELSE draft[e].status
    BY <1>3, UndoneEffect DEF DraftInv
  <2>3. draft' = Heard(rows, chan)
    BY <1>1, <1>7
  <2>. HIDE DEF rows
  <2>4. /\ draft' \in DraftType
        /\ \A e \in Messages : draft'[e].status = IF e = d THEN "pending" ELSE draft[e].status
    BY <2>2, <2>3, HeardEffect
  <2>5. /\ consent' \in [Messages -> {"none", "agent", "landlord"}]
        /\ \A e \in Messages : e # d => consent'[e] = consent[e]
    <3>1. consent \in [Messages -> {"none", "agent", "landlord"}]
      BY DEF DraftInv, TypeOK
    <3>2. consent' = [consent EXCEPT ![d] = "none"]
      BY <1>1, <1>7
    <3>. QED
      BY <3>1, <3>2
  <2>6. \A q \in Requests : req[q].pc # "decide"
    <3>1. \A q \in Requests : req[q].target \in Messages
      BY DEF DraftInv, TypeOK
    <3>. QED
      BY <2>1, <3>1 DEF status, DraftInv, DecideInv, Pending, Drafts
  <2>7. RestTyped'
    BY <2>5, ReqNow DEF RestTyped, Undo, ReqUnchanged, lockVars
  <2>8. TypeOK'
    BY <1>5, <2>4, <2>7, TypeFrom, TypeParts DEF DraftInv, Undo, ReqUnchanged
  <2>9. Unborn'
    BY <2>1, <2>4 DEF status, DraftInv, Unborn, Undo, ReqUnchanged
  <2>10. SendInv'
    BY <2>1, <2>4, SendKept DEF status, DraftInv, Undo, ReqUnchanged
  <2>11. ConsentInv'
    BY <2>4, <2>5 DEF DraftInv, ConsentInv
  <2>12. OnePending'
    BY <2>1, <2>4 DEF OnePending, Pending, Drafts
  <2>13. ClosedInv'
    <3>1. closed' = closed /\ closed \subseteq Messages
      BY DEF DraftInv, TypeOK, Undo
    <3>. QED
      BY <3>1, <2>1, <2>4 DEF status, DraftInv, ClosedInv
  <2>14. LockInv' /\ DecideInv'
    BY <1>4, <1>5, <2>6 DEF DraftInv, LockInv, DecideInv, Undo, ReqUnchanged, lockVars
  <2>15. RejectInv'
    <3>1. \A q \in Requests : req[q].target \in Messages
      BY DEF DraftInv, TypeOK
    <3>. QED
      BY <3>1, <1>4, <1>5, <2>1, <2>4 DEF status, DraftInv, RejectInv
  <2>. QED
    BY <2>8, <2>9, <2>10, <2>11, <2>12, <2>13, <2>14, <2>15 DEF DraftInv
<1>. QED
  BY <1>6, <1>7

LEMMA DResolveCase == ASSUME DraftInv, ResolveCase PROVE DraftInv'
<1> DEFINE row(d) == IF d \in Outstanding THEN [draft[d] EXCEPT !.status = "cancelled"] ELSE draft[d]
<1>1. ASSUME NEW d \in Messages
      PROVE  /\ row(d) \in DraftRecord
             /\ row(d).status = IF d \in Outstanding THEN "cancelled" ELSE draft[d].status
  <2>1. draft[d] \in DraftRecord
    BY ReqNow DEF DraftType
  <2>. QED
    BY <2>1 DEF DraftRecord, DraftStatus
<1>2. draft' = [d \in Messages |-> row(d)]
  BY DEF ResolveCase
<1>3. \A d \in Messages : d \in Outstanding <=> draft[d].status \in {"pending", "approved"}
  BY DEF Outstanding, Drafts
<1>. HIDE DEF row
<1>4. /\ draft' \in DraftType
      /\ \A d \in Messages : draft'[d].status = IF draft[d].status \in {"pending", "approved"}
                                                THEN "cancelled" ELSE draft[d].status
  BY <1>1, <1>2, <1>3 DEF DraftType
<1>5. /\ consent' \in [Messages -> {"none", "agent", "landlord"}]
      /\ \A d \in Messages : draft[d].status \notin {"pending", "approved"} => consent'[d] = consent[d]
  BY <1>3 DEF ResolveCase, DraftInv, TypeOK
<1>6. RestTyped'
  <2>1. closed' \subseteq Messages
    BY DEF ResolveCase, DraftInv, TypeOK, Drafts
  <2>. QED
    BY <2>1, <1>5, ReqNow DEF RestTyped, ResolveCase, lockVars, CaseStatus
<1>7. TypeOK'
  BY <1>4, <1>6, TypeFrom, TypeParts DEF DraftInv, ResolveCase
<1>8. Unborn'
  BY <1>4 DEF DraftInv, Unborn, ResolveCase
<1>9. SendInv'
  BY <1>4, SendKept DEF DraftInv, ResolveCase
<1>10. ConsentInv' /\ OnePending'
  BY <1>4, <1>5 DEF DraftInv, ConsentInv, OnePending, Pending, Drafts
<1>11. ClosedInv'
  <2>1. \A d \in closed' : d \in Messages /\
            (draft[d].status \in {"pending", "approved"} \/ draft[d].status = "cancelled")
    BY DEF ResolveCase, DraftInv, TypeOK, ClosedInv, Drafts
  <2>. QED
    BY <2>1, <1>4 DEF ClosedInv
<1>12. LockInv'
  BY DEF DraftInv, LockInv, ResolveCase, lockVars
<1>13. \A q \in Requests : req[q].target \in Messages
  BY DEF DraftInv, TypeOK
<1>14. DecideInv'
  <2>1. Drafts({"pending", "approved"})' = {}
    BY <1>4 DEF Drafts
  <2>2. \A q \in Requests : req[q].pc = "decide" => draft'[req[q].target].status = "cancelled"
    BY <1>4, <1>13 DEF DraftInv, DecideInv
  <2>. QED
    BY <2>1, <2>2 DEF DecideInv, ResolveCase
<1>15. RejectInv'
  BY <1>4, <1>13 DEF DraftInv, RejectInv, ResolveCase
<1>. QED
  BY <1>7, <1>8, <1>9, <1>10, <1>11, <1>12, <1>14, <1>15 DEF DraftInv

-----------------------------------------------------------------------------
(* The draft sender.                                                       *)

\* What a step of a sender leaves alone keeps these parts.
LEMMA SenderKeeps ==
    ASSUME DraftInv, UNCHANGED <<persisted, run, req, closed, lock>>,
           \A d \in Messages :
               \/ draft'[d].status = draft[d].status
               \/ /\ draft[d].status \in {"approved", "sending"}
                  /\ draft'[d].status \in {"sending", "sent", "cancelled"}
                  /\ draft[d].status # draft'[d].status
    PROVE  Unborn' /\ ClosedInv' /\ LockInv' /\ OnePending' /\ DecideInv' /\ RejectInv'
<1>1. \A q \in Requests : req[q].target \in Messages
  BY DEF DraftInv, TypeOK
<1>2. closed \subseteq Messages
  BY DEF DraftInv, TypeOK
<1>3. Unborn' /\ ClosedInv' /\ LockInv'
  BY <1>2 DEF DraftInv, Unborn, ClosedInv, LockInv
<1>4. OnePending'
  BY DEF DraftInv, OnePending, Pending, Drafts
<1>5. DecideInv'
  BY <1>1 DEF DraftInv, DecideInv, Drafts
<1>6. RejectInv'
  BY <1>1 DEF DraftInv, RejectInv
<1>. QED
  BY <1>3, <1>4, <1>5, <1>6

LEMMA SenderNow ==
    ASSUME DraftInv, NEW t \in Senders
    PROVE  /\ sender \in SenderType /\ sends \in [Messages -> Nat]
           /\ sender[t].draft \in Messages /\ draft[sender[t].draft] \in DraftRecord
BY TypeParts DEF DraftInv, SenderType, SenderRecord, DraftType, RestTyped

LEMMA DWindowCloses == ASSUME DraftInv, NEW d \in Messages, WindowCloses(d) PROVE DraftInv'
<1> DEFINE row == [draft[d] EXCEPT !.due = TRUE]
<1>1. draft' = [draft EXCEPT ![d] = row] /\ draft[d] \in DraftRecord
  BY ReqNow DEF WindowCloses, DraftType
<1>2. row \in DraftRecord /\ row.status = draft[d].status
  BY <1>1 DEF DraftRecord
<1>. HIDE DEF row
<1>8. draft' \in DraftType /\ \A e \in Messages : draft'[e] = IF e = d THEN row ELSE draft[e]
  BY <1>1, <1>2, ReqNow, PutRow
<1>3. draft' \in DraftType /\ StatusSame
  BY <1>2, <1>8 DEF StatusSame
<1>4. RestTyped'
  BY ReqNow DEF RestTyped, WindowCloses, caseVars, lockVars, ghostVars
<1>5. TypeOK'
  BY <1>3, <1>4, TypeFrom, TypeParts DEF DraftInv, WindowCloses
<1>6. SendInv' /\ ConsentInv'
  BY <1>3, StatusKept DEF WindowCloses, ghostVars
<1>7. Unborn' /\ ClosedInv' /\ LockInv' /\ OnePending' /\ DecideInv' /\ RejectInv'
  BY <1>3, SenderKeeps DEF StatusSame, WindowCloses, lockVars, ghostVars
<1>. QED
  BY <1>5, <1>6, <1>7 DEF DraftInv

\* A step of a sender that ends outside send and record, and moves no draft.
LEMMA DSelectDue == ASSUME DraftInv, NEW t \in Senders, SelectDue(t) PROVE DraftInv'
<1>1. CASE UNCHANGED sender
  <2>1. RestTyped'
    BY ReqNow DEF RestTyped, SelectDue, SenderUnchanged, lockVars
  <2>2. TypeOK'
    BY <1>1, <2>1, TypeFrom, TypeParts DEF DraftInv, SelectDue, SenderUnchanged
  <2>3. SendInv' /\ ConsentInv'
    BY <1>1, StatusKept DEF StatusSame, SelectDue, SenderUnchanged
  <2>4. Unborn' /\ ClosedInv' /\ LockInv' /\ OnePending' /\ DecideInv' /\ RejectInv'
    BY SenderKeeps DEF SelectDue, SenderUnchanged, lockVars
  <2>. QED
    BY <2>2, <2>3, <2>4 DEF DraftInv
<1>2. ASSUME NEW d \in Due, sender' = [sender EXCEPT ![t] = [pc |-> "claim", draft |-> d]]
      PROVE  DraftInv'
  <2>1. [pc |-> "claim", draft |-> d] \in SenderRecord
    BY DEF Due, Drafts, SenderRecord
  <2>2. /\ sender' \in SenderType /\ sender'[t].pc = "claim"
        /\ \A u \in Senders : u # t => sender'[u] = sender[u]
    BY <1>2, <2>1, SenderNow DEF SenderType
  <2>3. RestTyped'
    BY ReqNow DEF RestTyped, SelectDue, SenderUnchanged, lockVars
  <2>4. TypeOK'
    BY <2>2, <2>3, TypeFrom, TypeParts DEF DraftInv, SelectDue, SenderUnchanged
  <2>5. SendInv' /\ ConsentInv'
    BY <2>2 DEF DraftInv, SendInv, ConsentInv, SelectDue, SenderUnchanged
  <2>6. Unborn' /\ ClosedInv' /\ LockInv' /\ OnePending' /\ DecideInv' /\ RejectInv'
    BY SenderKeeps DEF SelectDue, SenderUnchanged, lockVars
  <2>. QED
    BY <2>4, <2>5, <2>6 DEF DraftInv
<1>. QED
  BY <1>1, <1>2 DEF SelectDue

LEMMA DClaimDraft == ASSUME DraftInv, NEW t \in Senders, ClaimDraft(t) PROVE DraftInv'
<1> DEFINE d == sender[t].draft
<1>1. d \in Messages /\ draft[d] \in DraftRecord /\ persisted \in 0..MaxMessage
  BY SenderNow, ReqNow DEF RestTyped
<1>2. CASE Claimable(d)
  <2> DEFINE row == [draft[d] EXCEPT !.status = "sending", !.touched = persisted]
  <2>1. draft' = [draft EXCEPT ![d] = row] /\ SenderTo(t, "send") /\ consent' = consent
    BY <1>2 DEF ClaimDraft
  <2>2. row \in DraftRecord /\ row.status = "sending"
    BY <1>1 DEF DraftRecord, DraftStatus
  <2>. HIDE DEF row
  <2>3. draft' \in DraftType /\ \A e \in Messages : draft'[e] = IF e = d THEN row ELSE draft[e]
    BY <1>1, <2>1, <2>2, ReqNow, PutRow
  <2>4. draft[d].status = "approved"
    BY <1>2 DEF Claimable
  <2>5. /\ sender' \in SenderType /\ sender'[t].pc = "send" /\ sender'[t].draft = d
        /\ \A u \in Senders : u # t => sender'[u] = sender[u]
    BY <2>1, SenderNow, SenderToFacts
  <2>6. RestTyped'
    BY <2>1, ReqNow DEF RestTyped, ClaimDraft, SenderUnchanged, lockVars
  <2>7. TypeOK'
    BY <2>3, <2>5, <2>6, TypeFrom, TypeParts DEF DraftInv, ClaimDraft, SenderUnchanged
  <2>8. SendInv'
    <3>1. sends' = sends /\ sends[d] = 0
      BY <1>1, <2>4 DEF ClaimDraft, DraftInv, SendInv
    <3>2. \A u \in Senders : (u # t /\ sender[u].pc \in {"send", "record"}) =>
              sender[u].draft \in Messages /\ sender[u].draft # d
      BY <2>4, SenderNow DEF DraftInv, SendInv
    <3>3. \A e \in Messages : draft'[e].status \notin {"sending", "sent"} => sends[e] = 0
      BY <2>2, <2>3 DEF DraftInv, SendInv
    <3>4. \A u \in Senders : sender'[u].pc \in {"send", "record"} =>
              draft'[sender'[u].draft].status = "sending"
      BY <1>1, <2>2, <2>3, <2>5, <3>2 DEF DraftInv, SendInv
    <3>. QED
      BY <2>5, <3>1, <3>2, <3>3, <3>4 DEF DraftInv, SendInv
  <2>9. ConsentInv'
    BY <2>1, <2>2, <2>3, <2>4 DEF DraftInv, ConsentInv
  <2>10. Unborn' /\ ClosedInv' /\ LockInv' /\ OnePending' /\ DecideInv' /\ RejectInv'
    BY <2>2, <2>3, <2>4, SenderKeeps DEF ClaimDraft, SenderUnchanged, lockVars
  <2>. QED
    BY <2>7, <2>8, <2>9, <2>10 DEF DraftInv
<1>3. CASE ~Claimable(d)
  <2>1. /\ sender' \in SenderType /\ sender'[t].pc = "idle"
        /\ \A u \in Senders : u # t => sender'[u] = sender[u]
    BY <1>3, SenderNow, SenderToFacts DEF ClaimDraft
  <2>2. /\ draft' \in DraftType
        /\ consent' \in [Messages -> {"none", "agent", "landlord"}]
        /\ \A e \in Messages : \/ draft'[e].status = draft[e].status /\ consent'[e] = consent[e]
                               \/ draft[e].status = "approved" /\ draft'[e].status = "cancelled"
    <3>1. consent \in [Messages -> {"none", "agent", "landlord"}]
      BY DEF DraftInv, TypeOK
    <3>2. CASE Cancellable(d)
      <4> DEFINE row == [draft[d] EXCEPT !.status = "cancelled"]
      <4>1. draft' = [draft EXCEPT ![d] = row] /\ consent' = [consent EXCEPT ![d] = "none"]
        BY <1>3, <3>2 DEF ClaimDraft
      <4>2. row \in DraftRecord /\ row.status = "cancelled"
        BY <1>1 DEF DraftRecord, DraftStatus
      <4>. HIDE DEF row
      <4>3. draft' \in DraftType /\ \A e \in Messages : draft'[e] = IF e = d THEN row ELSE draft[e]
        BY <1>1, <4>1, <4>2, ReqNow, PutRow
      <4>4. draft[d].status = "approved"
        BY <3>2 DEF Cancellable
      <4>5. /\ consent' \in [Messages -> {"none", "agent", "landlord"}]
            /\ \A e \in Messages : e # d => consent'[e] = consent[e]
        BY <3>1, <4>1
      <4>. QED
        BY <4>2, <4>3, <4>4, <4>5
    <3>3. CASE ~Cancellable(d)
      BY <1>3, <3>1, <3>3, ReqNow DEF ClaimDraft
    <3>. QED
      BY <3>2, <3>3
  <2>3. RestTyped'
    BY <2>2, ReqNow DEF RestTyped, ClaimDraft, SenderUnchanged, lockVars
  <2>4. TypeOK'
    BY <2>1, <2>2, <2>3, TypeFrom, TypeParts DEF DraftInv, ClaimDraft, SenderUnchanged
  <2>5. SendInv'
    <3>1. sends' = sends
      BY DEF ClaimDraft
    <3>2. \A e \in Messages : draft'[e].status \notin {"sending", "sent"} => sends[e] = 0
      BY <2>2 DEF DraftInv, SendInv
    <3>3. \A u \in Senders : sender'[u].pc \in {"send", "record"} =>
              u # t /\ sender'[u] = sender[u] /\ draft'[sender[u].draft].status = "sending"
      BY <2>1, <2>2, SenderNow DEF DraftInv, SendInv
    <3>. QED
      BY <3>1, <3>2, <3>3 DEF DraftInv, SendInv
  <2>6. ConsentInv'
    BY <2>2 DEF DraftInv, ConsentInv
  <2>7. Unborn' /\ ClosedInv' /\ LockInv' /\ OnePending' /\ DecideInv' /\ RejectInv'
    BY <2>2, SenderKeeps DEF ClaimDraft, SenderUnchanged, lockVars
  <2>. QED
    BY <2>4, <2>5, <2>6, <2>7 DEF DraftInv
<1>. QED
  BY <1>2, <1>3

LEMMA DSendDraft == ASSUME DraftInv, NEW t \in Senders, SendDraft(t) PROVE DraftInv'
<1> DEFINE d == sender[t].draft
<1>1. d \in Messages /\ sends \in [Messages -> Nat]
  BY SenderNow
<1>2. /\ sender' \in SenderType /\ sender'[t].pc = "record" /\ sender'[t].draft = d
      /\ \A u \in Senders : u # t => sender'[u] = sender[u]
  BY SenderNow, SenderToFacts DEF SendDraft
<1>3. sends[d] = 0 /\ draft[d].status = "sending" /\ draft' = draft
  BY DEF SendDraft, DraftInv, SendInv
<1>4. /\ sends' \in [Messages -> Nat]
      /\ \A e \in Messages : sends'[e] = IF e = d THEN 1 ELSE sends[e]
  BY <1>1, <1>3 DEF SendDraft, Accepted
<1>5. RestTyped'
  BY <1>4, ReqNow DEF RestTyped, SendDraft, SenderUnchanged, lockVars
<1>6. TypeOK'
  BY <1>2, <1>5, TypeFrom, TypeParts DEF DraftInv, SendDraft, SenderUnchanged
<1>7. SendInv'
  <2>1. \A u \in Senders : (u # t /\ sender[u].pc \in {"send", "record"}) =>
            sender[u].draft \in Messages /\ sender[u].draft # d
    BY SenderNow DEF SendDraft, DraftInv, SendInv
  <2>2. \A e \in Messages : /\ draft[e].status \notin {"sending", "sent"} => sends'[e] = 0
                            /\ sends'[e] <= 1
    BY <1>3, <1>4 DEF DraftInv, SendInv
  <2>. QED
    BY <1>2, <1>3, <1>4, <2>1, <2>2 DEF DraftInv, SendInv
<1>8. ConsentInv'
  BY DEF DraftInv, ConsentInv, SendDraft
<1>9. Unborn' /\ ClosedInv' /\ LockInv' /\ OnePending' /\ DecideInv' /\ RejectInv'
  BY SenderKeeps DEF SendDraft, SenderUnchanged, lockVars
<1>. QED
  BY <1>6, <1>7, <1>8, <1>9 DEF DraftInv

LEMMA DRecordSent == ASSUME DraftInv, NEW t \in Senders, RecordSent(t) PROVE DraftInv'
<1> DEFINE d == sender[t].draft
           row == [draft[d] EXCEPT !.status = "sent"]
<1>1. d \in Messages /\ draft[d] \in DraftRecord
  BY SenderNow
<1>2. draft' = [draft EXCEPT ![d] = row] /\ SenderTo(t, "idle")
  BY DEF RecordSent
<1>3. row \in DraftRecord /\ row.status = "sent"
  BY <1>1 DEF DraftRecord, DraftStatus
<1>4. draft[d].status = "sending"
  BY DEF RecordSent, DraftInv, SendInv
<1>. HIDE DEF row
<1>5. draft' \in DraftType /\ \A e \in Messages : draft'[e] = IF e = d THEN row ELSE draft[e]
  BY <1>1, <1>2, <1>3, ReqNow, PutRow
<1>6. /\ sender' \in SenderType /\ sender'[t].pc = "idle"
      /\ \A u \in Senders : u # t => sender'[u] = sender[u]
  BY <1>2, SenderNow, SenderToFacts
<1>7. RestTyped'
  BY ReqNow DEF RestTyped, RecordSent, SenderUnchanged, lockVars, CaseStatus
<1>8. TypeOK'
  BY <1>5, <1>6, <1>7, TypeFrom, TypeParts DEF DraftInv, RecordSent, SenderUnchanged
<1>9. SendInv'
  <2>1. sends' = sends
    BY DEF RecordSent
  <2>2. \A u \in Senders : sender'[u].pc \in {"send", "record"} =>
            /\ u # t /\ sender'[u] = sender[u]
            /\ sender[u].draft # d /\ draft'[sender[u].draft].status = "sending"
    <3>1. ASSUME NEW u \in Senders, sender'[u].pc \in {"send", "record"}
          PROVE  /\ u # t /\ sender'[u] = sender[u] /\ sender[u].draft # d
                 /\ draft[sender[u].draft].status = "sending"
      BY <1>6, <3>1 DEF RecordSent, DraftInv, SendInv
    <3>. QED
      BY <3>1, <1>5, SenderNow
  <2>3. \A e \in Messages : draft'[e].status \notin {"sending", "sent"} => sends[e] = 0
    BY <1>3, <1>5 DEF DraftInv, SendInv
  <2>. QED
    BY <2>1, <2>2, <2>3 DEF DraftInv, SendInv
<1>10. ConsentInv'
  BY <1>3, <1>5 DEF DraftInv, ConsentInv, RecordSent
<1>11. Unborn' /\ ClosedInv' /\ LockInv' /\ OnePending' /\ DecideInv' /\ RejectInv'
  BY <1>3, <1>4, <1>5, SenderKeeps DEF RecordSent, SenderUnchanged, lockVars
<1>. QED
  BY <1>8, <1>9, <1>10, <1>11 DEF DraftInv

LEMMA DSenderFails == ASSUME DraftInv, NEW t \in Senders, SenderFails(t) PROVE DraftInv'
<1> DEFINE d == sender[t].draft
<1>1. /\ sender' \in SenderType /\ sender'[t].pc = "idle"
      /\ \A u \in Senders : u # t => sender'[u] = sender[u]
  BY SenderNow, SenderToFacts DEF SenderFails
<1>2. /\ sends' \in [Messages -> Nat]
      /\ \A e \in Messages :
            \/ sends'[e] = sends[e]
            \/ e = d /\ sender[t].pc = "send" /\ draft[d].status = "sending" /\ sends'[e] = 1
  <2>1. d \in Messages /\ sends \in [Messages -> Nat]
    BY SenderNow
  <2>2. CASE UNCHANGED sends
    BY <2>1, <2>2
  <2>3. CASE sender[t].pc = "send" /\ Accepted(t)
    <3>1. sends[d] = 0 /\ draft[d].status = "sending"
      BY <2>3 DEF DraftInv, SendInv
    <3>. QED
      BY <2>1, <2>3, <3>1 DEF Accepted
  <2>. QED
    BY <2>2, <2>3 DEF SenderFails
<1>3. RestTyped'
  BY <1>2, ReqNow DEF RestTyped, SenderFails, SenderUnchanged, lockVars
<1>4. TypeOK'
  BY <1>1, <1>3, TypeFrom, TypeParts DEF DraftInv, SenderFails, SenderUnchanged
<1>5. SendInv'
  <2>1. draft' = draft
    BY DEF SenderFails
  <2>2. \A e \in Messages : /\ draft[e].status \notin {"sending", "sent"} => sends'[e] = 0
                            /\ sends'[e] <= 1
    BY <1>2 DEF DraftInv, SendInv
  <2>3. \A u \in Senders : sender'[u].pc \in {"send", "record"} =>
            /\ u # t /\ sender'[u] = sender[u]
            /\ sender[u].pc = "send" => sends'[sender[u].draft] = 0
    BY <1>1, <1>2, SenderNow DEF DraftInv, SendInv
  <2>. QED
    BY <2>1, <2>2, <2>3 DEF DraftInv, SendInv
<1>6. ConsentInv'
  BY DEF DraftInv, ConsentInv, SenderFails
<1>7. Unborn' /\ ClosedInv' /\ LockInv' /\ OnePending' /\ DecideInv' /\ RejectInv'
  BY SenderKeeps DEF SenderFails, SenderUnchanged, lockVars
<1>. QED
  BY <1>4, <1>5, <1>6, <1>7 DEF DraftInv

-----------------------------------------------------------------------------
(* The theorems.                                                           *)

LEMMA DraftStep == DraftInv /\ [Next]_vars => DraftInv'
<1> SUFFICES ASSUME DraftInv, [Next]_vars PROVE DraftInv'
  OBVIOUS
<1>1. CASE Persist \/ NoticeSent \/ ResolveCase
  BY <1>1, DPersist, DNoticeSent, DResolveCase
<1>2. ASSUME NEW m \in Messages, Run(m) \/ RunDies(m) PROVE DraftInv'
  BY <1>2, DLoadContext, DIdentifyCase, DTakeLock, DRunLockTimeout, DInsertDraft, DDegradedMode,
     DAutoSend, DMarkSelect, DMarkFlip, DAwaitApproval, DRunDies DEF Run
<1>3. ASSUME NEW r \in Requests, NewRequest(r) PROVE DraftInv'
  BY <1>3, DAsk, DUndo DEF NewRequest
<1>4. ASSUME NEW r \in Requests, Request(r) \/ RequestDies(r) PROVE DraftInv'
  BY <1>4, DPeekCase, DResume, DPeekDraft, DDecide, DFinalize, DReconcile, DRequestLockTimeout,
     DRequestDies DEF Request
<1>5. ASSUME NEW d \in Messages, WindowCloses(d) PROVE DraftInv'
  BY <1>5, DWindowCloses
<1>6. ASSUME NEW t \in Senders, Tick(t) \/ SenderFails(t) PROVE DraftInv'
  BY <1>6, DSelectDue, DClaimDraft, DSendDraft, DRecordSent, DSenderFails DEF Tick
<1>7. CASE UNCHANGED vars
  <2>1. UNCHANGED <<case, persisted, linked, notices, shown, draft, lock, paused, run, req, sender,
                    sends, consent, closed, faults>>
    BY <1>7 DEF vars
  <2>2. TypeOK'
    BY <2>1 DEF DraftInv, TypeOK
  <2>3. Unborn' /\ SendInv' /\ ConsentInv' /\ ClosedInv' /\ LockInv'
    BY <2>1 DEF DraftInv, Unborn, SendInv, ConsentInv, ClosedInv, LockInv
  <2>4. OnePending' /\ DecideInv' /\ RejectInv'
    BY <2>1 DEF DraftInv, OnePending, Pending, Drafts, DecideInv, RejectInv
  <2>. QED
    BY <2>2, <2>3, <2>4 DEF DraftInv
<1>. QED
  BY <1>1, <1>2, <1>3, <1>4, <1>5, <1>6, <1>7 DEF Next

LEMMA DraftAlways == Spec => []DraftInv
BY DraftInit, DraftStep, PTL DEF Spec

\* Every reachable state of the draft flow is well typed, for any number of
\* messages, requests and senders.
THEOREM TypeCorrect == Spec => []TypeOK
<1>1. DraftInv => TypeOK
  BY DEF DraftInv
<1>. QED
  BY <1>1, DraftAlways, PTL

\* Any number of senders may work on the same drafts and fail anywhere: a claim
\* takes the draft out of 'approved' for good, so it is texted at most once.
THEOREM AtMostOneText == Spec => []SentOnce
<1>1. DraftInv => SentOnce
  BY DEF DraftInv, SendInv, SentOnce
<1>. QED
  BY <1>1, DraftAlways, PTL

\* Whenever a sender is about to text a draft, somebody stands behind it.
THEOREM TextsHaveConsent == Spec => []SentWithConsent
<1>1. DraftInv => SentWithConsent
  BY SenderNow DEF DraftInv, SendInv, ConsentInv, SentWithConsent
<1>. QED
  BY <1>1, DraftAlways, PTL

\* A landlord who was told 'rejected' never sees that reply go out.
THEOREM RejectedStays == Spec => []RejectedNeverSent
<1>1. DraftInv => RejectedNeverSent
  BY DEF DraftInv, TypeOK, SendInv, RejectInv, RejectedNeverSent
<1>. QED
  BY <1>1, DraftAlways, PTL

\* What was outstanding when its case was resolved is never claimed again.
THEOREM ClosedStays == Spec => []ClosedNeverClaimed
<1>1. DraftInv => ClosedNeverClaimed
  BY DEF DraftInv, SendInv, ClosedInv, ClosedNeverClaimed
<1>. QED
  BY <1>1, DraftAlways, PTL

\* A request changes its own row only.
LEMMA OthersKept ==
    ASSUME req \in ReqType, NEW q \in Requests, NewRequest(q) \/ Request(q) \/ RequestDies(q),
           NEW r \in Requests, r # q
    PROVE  req'[r] = req[r]
<1>1. CASE NewRequest(q)
  BY <1>1 DEF NewRequest, Ask, Undo, ReqType
<1>2. CASE Request(q) \/ RequestDies(q)
  BY <1>2 DEF Request, RequestDies, PeekCase, Resume, PeekDraft, Decide, Finalize, Reconcile,
              RequestLockTimeout, ReqTo, Answer, Done, ReqType
<1>. QED
  BY <1>1, <1>2

\* A request that leaves 'decide' for 'done' with a draft's status changed has
\* just decided.
LEMMA LeavesDecide ==
    ASSUME DraftInv, Next, NEW r \in Requests, req[r].pc = "decide", req'[r].pc = "done",
           draft' # draft
    PROVE  Decide(r)
<1>1. req \in ReqType
  BY ReqNow
<1>2. req' # req
  OBVIOUS
<1>3. PICK q \in Requests : NewRequest(q) \/ Request(q) \/ RequestDies(q)
  BY <1>2 DEF Next, Persist, NoticeSent, ResolveCase, Run, RunDies, LoadContext, IdentifyCase,
              TakeLock, RunLockTimeout, InsertDraft, DegradedMode, AutoSend, MarkSelect, MarkFlip,
              AwaitApproval, RunUnchanged, WindowCloses, Tick, SenderFails, SelectDue, ClaimDraft,
              SendDraft, RecordSent, SenderUnchanged
<1>4. q = r
  BY <1>1, <1>3, OthersKept
<1>. QED
  BY <1>3, <1>4 DEF NewRequest, Ask, Undo, Request, RequestDies, PeekCase, Resume, PeekDraft,
                    Finalize, Reconcile, RequestLockTimeout

\* The thread that a decision resumes asks the case for whatever draft is pending
\* by then; the case lock and the one pending draft make it the landlord's own.
THEOREM DecisionIsTargeted == Spec => DecisionHitsItsDraft
<1> DEFINE A == \A r \in Requests, d \in Messages :
                   (req[r].pc = "decide" /\ req'[r].pc = "done" /\ draft'[d].status # draft[d].status)
                       => d = req[r].target
<1>1. ASSUME DraftInv, Next, NEW r \in Requests, NEW d \in Messages, req[r].pc = "decide",
             req'[r].pc = "done", draft'[d].status # draft[d].status
      PROVE  d = req[r].target
  <2>1. Decide(r)
    BY <1>1, LeavesDecide
  <2>2. PICK e \in Pending : Apply(r, e, case)
    BY <1>1, <2>1 DEF Decide
  <2>3. e = req[r].target
    BY <1>1, DecidesTarget
  <2>4. draft[d].status # draft'[d].status => d = e
    BY <1>1, <2>2, ApplyEffect, ReqNow DEF DraftInv, RestTyped
  <2>. QED
    BY <1>1, <2>3, <2>4
<1>2. DraftInv /\ [Next]_vars => [A]_vars
  BY <1>1
<1>. QED
  BY <1>2, DraftAlways, PTL DEF Spec, DecisionHitsItsDraft

-----------------------------------------------------------------------------
(* Who cancels an approval.                                                *)

\* A run and a request cancel only what is superseded.
LEMMA RunCancels ==
    ASSUME DraftInv, NEW m \in Messages, Run(m) \/ RunDies(m), NEW d \in Messages,
           draft[d].status = "approved", draft'[d].status = "cancelled"
    PROVE  d \in SupersededApprovals
<1>1. CASE InsertDraft(m)
  BY <1>1, InsertEffect DEF DraftInv
<1>2. CASE AutoSend(m)
  <2>1. PICK e \in Pending : AutoApproval(e)
    BY <1>2 DEF AutoSend, AutoApproval
  <2>. QED
    BY <2>1, AutoEffect DEF DraftInv
<1>3. CASE draft' = draft
  BY <1>3
<1>. QED
  BY <1>1, <1>2, <1>3 DEF Run, RunDies, LoadContext, IdentifyCase, TakeLock, RunLockTimeout,
                          DegradedMode, MarkSelect, MarkFlip, AwaitApproval

LEMMA RequestKeeps ==
    ASSUME DraftInv, NEW r \in Requests, NewRequest(r) \/ Request(r) \/ RequestDies(r),
           NEW d \in Messages, draft[d].status = "approved"
    PROVE  draft'[d].status # "cancelled"
<1>1. draft \in DraftType /\ case \in CaseStatus
  BY ReqNow DEF RestTyped
<1>2. CASE NewRequest(r)
  <2>1. ASSUME NEW e \in Messages, NEW chan \in {"dashboard", "sms"}, Undo(r, e, chan)
        PROVE  draft'[d].status # "cancelled"
    <3> DEFINE via == IF chan = "sms" THEN "none" ELSE draft[e].via
    <3>1. via \in {"none", "dashboard", "sms"}
      BY <1>1 DEF DraftType, DraftRecord
    <3>2. PICK rows \in {Undone(e, via), draft} : draft' = Heard(rows, chan)
      BY <2>1 DEF Undo, Undone
    <3>. HIDE DEF via
    <3>3. rows \in DraftType /\ rows[d].status \in {"pending", "approved"}
      BY <1>1, <3>1, <3>2, UndoneEffect DEF DraftInv
    <3>. QED
      BY <3>2, <3>3, HeardEffect
  <2>2. ASSUME NEW e \in Messages, NEW chan \in {"dashboard", "sms"},
               NEW kind \in {"approve", "reject"}, Ask(r, e, kind, chan)
        PROVE  draft'[d].status # "cancelled"
    BY <1>1, <2>2, HeardEffect DEF Ask
  <2>. QED
    BY <1>2, <2>1, <2>2 DEF NewRequest
<1>3. ASSUME NEW e \in Pending, NEW c \in CaseStatus, Apply(r, e, c)
      PROVE  draft'[d].status # "cancelled"
  BY <1>3, ApplyEffect DEF DraftInv
<1>4. CASE Decide(r)
  BY <1>1, <1>3, <1>4 DEF Decide
<1>5. CASE Finalize(r)
  BY <1>3, <1>5 DEF Finalize, IsPending, CaseStatus
<1>6. CASE draft' = draft
  BY <1>6
<1>. QED
  BY <1>2, <1>4, <1>5, <1>6 DEF Request, RequestDies, PeekCase, Resume, PeekDraft, Reconcile,
                                RequestLockTimeout

LEMMA SenderCancels ==
    ASSUME DraftInv, NEW t \in Senders, Tick(t) \/ SenderFails(t), NEW d \in Messages,
           draft[d].status = "approved", draft'[d].status = "cancelled"
    PROVE  Overtaken(d)
<1>1. draft \in DraftType /\ sender[t].draft \in Messages
  BY ReqNow, SenderNow
<1>2. CASE ClaimDraft(t)
  BY <1>1, <1>2 DEF ClaimDraft, Cancellable, DraftType, DraftRecord
<1>3. CASE RecordSent(t)
  BY <1>1, <1>3 DEF RecordSent, DraftType, DraftRecord
<1>4. CASE draft' = draft
  BY <1>4
<1>. QED
  BY <1>2, <1>3, <1>4 DEF Tick, SenderFails, SelectDue, SendDraft

\* Runs and senders cancel automatic and texted approvals only: what was approved
\* on the dashboard, of a draft the agent never sent by itself, is cancelled by
\* nobody but whoever resolves the case.
THEOREM HumanApprovalIsFinal == Spec => HumanApprovalStands
<1>1. ASSUME DraftInv, Next, NEW d \in Messages, draft[d].status = "approved",
             draft[d].via = "dashboard", ~draft[d].auto, draft'[d].status = "cancelled"
      PROVE  case' = "resolved"
  <2>1. ASSUME NEW m \in Messages, Run(m) \/ RunDies(m) PROVE FALSE
    BY <1>1, <2>1, RunCancels DEF SupersededApprovals
  <2>2. ASSUME NEW r \in Requests, NewRequest(r) \/ Request(r) \/ RequestDies(r) PROVE FALSE
    BY <1>1, <2>2, RequestKeeps
  <2>3. ASSUME NEW t \in Senders, Tick(t) \/ SenderFails(t) PROVE FALSE
    BY <1>1, <2>3, SenderCancels DEF Overtaken
  <2>4. ASSUME NEW e \in Messages, WindowCloses(e) PROVE FALSE
    <3>1. draft \in DraftType
      BY <1>1, ReqNow
    <3>. QED
      BY <1>1, <2>4, <3>1 DEF WindowCloses, DraftType, DraftRecord
  <2>5. CASE Persist \/ NoticeSent
    BY <1>1, <2>5 DEF Persist, NoticeSent
  <2>. QED
    BY <1>1, <2>1, <2>2, <2>3, <2>4, <2>5 DEF Next, ResolveCase
<1>2. DraftInv /\ [Next]_vars =>
          [\A d \in Messages :
              (/\ draft[d].status = "approved" /\ draft[d].via = "dashboard" /\ ~draft[d].auto
               /\ draft'[d].status = "cancelled") => case' = "resolved"]_vars
  BY <1>1
<1>. QED
  BY <1>2, DraftAlways, PTL DEF Spec, HumanApprovalStands
=============================================================================
