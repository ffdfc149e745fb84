------------------------- MODULE CaseLifecycleProofs -------------------------
(***************************************************************************)
(* Safety of a tenant's cases for any number of cases, messages, sweepers  *)
(* and any lengths of the windows.  A case is never more idle than it is   *)
(* unheard; a standing proposal has no objections; a draft that was        *)
(* outstanding at a resolution is out of reach of approval and sender.     *)
(***************************************************************************)
EXTENDS CaseLifecycle, TLAPS

Statuses == OpenStatuses \cup {"none", "resolved"}
Reasons == {"none", "landlord", "tenant_confirmed", "auto_stale"}
Labels == {"new", "route", "write", "draft", "mark", "flip", "done"}
DraftStatuses == {"none", "pending", "stale", "approved", "cancelled", "sent"}

Ages == 0..Stale
Marks == 0..(Reopen + 1)
Countdown == 0..NoProposal
CaseIds == 0..MaxCase
CaseRecord == [status : Statuses, reason : Reasons, resolved : Marks, idle : Ages,
               pending : Countdown, related : CaseIds]
CaseType == [Cases -> CaseRecord]
Snapshot == [status : Statuses, resolved : Marks, pending : Countdown]
MsgRecord == [pc : Labels, opens : SUBSET (Cases \X Ages), signal : Signals \cup {"none"},
              target : CaseIds, saw : Snapshot, case : CaseIds]
MsgType == [Messages -> MsgRecord]
SweepRecord == [pc : {"idle", "apply", "swept"}, stale : SUBSET Cases, confirmed : SUBSET Cases]

LEMMA TypeParts ==
    TypeOK <=> /\ case \in CaseType /\ msg \in MsgType
               /\ draft \in [Messages -> DraftStatuses]
               /\ sweep \in [Sweepers -> SweepRecord]
               /\ heard \in [Cases -> Ages]
               /\ objections \in [Cases -> SUBSET Messages]
               /\ closed \subseteq Messages
BY DEF TypeOK, CaseType, CaseRecord, Statuses, Reasons, MsgType, MsgRecord, Labels, Snapshot,
       SweepRecord, DraftStatuses, Ages, Marks, Countdown, CaseIds

LEMMA TypePartsNext ==
    (/\ case' \in CaseType /\ msg' \in MsgType
     /\ draft' \in [Messages -> DraftStatuses]
     /\ sweep' \in [Sweepers -> SweepRecord]
     /\ heard' \in [Cases -> Ages]
     /\ objections' \in [Cases -> SUBSET Messages]
     /\ closed' \subseteq Messages) => TypeOK'
BY DEF TypeOK, CaseType, CaseRecord, Statuses, Reasons, MsgType, MsgRecord, Labels, Snapshot,
       SweepRecord, DraftStatuses, Ages, Marks, Countdown, CaseIds

-----------------------------------------------------------------------------
(* What the operators on rows do.                                          *)

LEMMA Bounds ==
    /\ 0 \in Ages /\ 0 \in Marks /\ 0 \in CaseIds /\ Cases \subseteq CaseIds
    /\ 0 \in Countdown /\ Proposal \in Countdown /\ NoProposal \in Countdown
    /\ 0 # NoProposal /\ Proposal # NoProposal
BY LifecycleAssumption DEF Ages, Marks, CaseIds, Cases, Countdown, NoProposal

LEMMA NewCaseFacts ==
    ASSUME NEW n \in CaseIds
    PROVE  /\ NewCase(n) \in CaseRecord /\ NewCase(n).status = "open"
           /\ NewCase(n).idle = 0 /\ NewCase(n).pending = NoProposal
BY Bounds DEF NewCase, NoCase, CaseRecord, Statuses, OpenStatuses, Reasons

LEMMA NoCaseFacts ==
    NoCase \in CaseRecord /\ NoCase.status = "none" /\ NoCase.idle = 0
    /\ NoCase.pending = NoProposal
BY Bounds DEF NoCase, CaseRecord, Statuses, Reasons

LEMMA ResolvedFacts ==
    ASSUME NEW row \in CaseRecord, NEW reason \in Reasons
    PROVE  /\ Resolved(row, reason) \in CaseRecord
           /\ Resolved(row, reason).reason = reason
           /\ Resolved(row, reason).idle = 0
           /\ Resolved(row, reason).pending = NoProposal
BY Bounds DEF Resolved, CaseRecord, Statuses

LEMMA AgeFacts ==
    /\ \A age \in Ages : UpTo(Stale, age) \in Ages
    /\ \A a, b \in Ages : a <= b => UpTo(Stale, a) <= UpTo(Stale, b)
    /\ \A mark \in Marks : UpTo(Reopen + 1, mark) \in Marks
    /\ \A left \in 1..Proposal : left - 1 \in Countdown /\ left # NoProposal
BY LifecycleAssumption DEF UpTo, Ages, Marks, Countdown, NoProposal

LEMMA OlderFacts ==
    ASSUME NEW row \in CaseRecord
    PROVE  /\ Older(row) \in CaseRecord
           /\ Older(row).status = row.status
           /\ Older(row).reason = row.reason
           /\ Older(row).idle = UpTo(Stale, row.idle)
           /\ Older(row).pending # NoProposal => row.pending # NoProposal
<1> DEFINE idle == UpTo(Stale, row.idle)
           resolved == IF row.status = "resolved" THEN UpTo(Reopen + 1, row.resolved)
                       ELSE row.resolved
           pending == IF row.pending \in 1..Proposal THEN row.pending - 1 ELSE row.pending
<1>1. idle \in Ages /\ resolved \in Marks /\ pending \in Countdown
  BY AgeFacts DEF CaseRecord
<1>2. pending # NoProposal => row.pending # NoProposal
  BY AgeFacts
<1>3. Older(row) = [row EXCEPT !.idle = idle, !.resolved = resolved, !.pending = pending]
  BY DEF Older
<1>. HIDE DEF idle, resolved, pending
<1>4. /\ [row EXCEPT !.idle = idle, !.resolved = resolved, !.pending = pending] \in CaseRecord
      /\ Older(row).status = row.status /\ Older(row).reason = row.reason
      /\ Older(row).idle = idle /\ Older(row).pending = pending
  BY <1>1, <1>3 DEF CaseRecord
<1>. QED
  BY <1>2, <1>3, <1>4 DEF idle

LEMMA AttachedFacts ==
    ASSUME NEW row \in CaseRecord, NEW saw \in Snapshot
    PROVE  /\ Attached(row, saw) \in CaseRecord
           /\ Attached(row, saw).idle = 0
           /\ row.status # "resolved" => Attached(row, saw).status # "resolved"
           /\ saw.pending # NoProposal => Attached(row, saw).pending = NoProposal
           /\ Attached(row, saw).pending # NoProposal => row.pending # NoProposal
<1>1. CASE saw.status = "resolved"
  BY <1>1, Bounds DEF Attached, CaseRecord, Statuses, OpenStatuses, Reasons
<1>2. CASE saw.status # "resolved"
  <2> DEFINE bumped == [row EXCEPT !.idle = 0]
  <2>1. /\ bumped \in CaseRecord /\ bumped.idle = 0 /\ bumped.status = row.status
        /\ bumped.pending = row.pending
    BY Bounds DEF CaseRecord
  <2>2. Attached(row, saw) = Contradict(bumped, saw)
    BY <1>2 DEF Attached
  <2>. HIDE DEF bumped
  <2>. QED
    BY <2>1, <2>2, Bounds DEF Contradict, CaseRecord
<1>. QED
  BY <1>1, <1>2

LEMMA ProposeFacts ==
    ASSUME NEW row \in CaseRecord, NEW signal
    PROVE  /\ Propose(row, signal) \in CaseRecord
           /\ Propose(row, signal).status = row.status
           /\ Propose(row, signal).idle = row.idle
           /\ signal # "confirm" => Propose(row, signal) = row
BY Bounds DEF Propose, CaseRecord

LEMMA StatusFacts ==
    ASSUME case \in CaseType, NEW c \in Cases, NEW status \in OpenStatuses,
           case' = [case EXCEPT ![c].status = status]
    PROVE  /\ case' \in CaseType
           /\ case'[c].status = status
           /\ \A d \in Cases : /\ d # c => case'[d] = case[d]
                               /\ case'[d].idle = case[d].idle
                               /\ case'[d].pending = case[d].pending
<1> DEFINE row == [case[c] EXCEPT !.status = status]
<1>1. case[c] \in CaseRecord
  BY DEF CaseType
<1>2. /\ row \in CaseRecord /\ row.status = status /\ row.idle = case[c].idle
      /\ row.pending = case[c].pending
  BY <1>1 DEF CaseRecord, Statuses
<1>3. case' = [case EXCEPT ![c] = row]
  OBVIOUS
<1>. HIDE DEF row
<1>. QED
  BY <1>2, <1>3 DEF CaseType

LEMMA MsgFacts ==
    ASSUME msg \in MsgType, NEW m \in Messages, NEW row \in MsgRecord,
           msg' = [msg EXCEPT ![m] = row]
    PROVE  /\ msg' \in MsgType /\ msg'[m] = row
           /\ \A n \in Messages : n # m => msg'[n] = msg[n]
BY DEF MsgType

LEMMA PcFacts ==
    ASSUME msg \in MsgType, NEW m \in Messages, NEW label \in Labels,
           msg' = [msg EXCEPT ![m].pc = label]
    PROVE  /\ msg' \in MsgType /\ msg'[m].pc = label
           /\ \A n \in Messages : n # m => msg'[n] = msg[n]
<1> DEFINE row == [msg[m] EXCEPT !.pc = label]
<1>1. row \in MsgRecord /\ row.pc = label
  BY DEF MsgType, MsgRecord
<1>2. msg' = [msg EXCEPT ![m] = row]
  OBVIOUS
<1>. HIDE DEF row
<1>. QED
  BY <1>1, <1>2, MsgFacts

-----------------------------------------------------------------------------
(* The invariant.                                                          *)

\* Whatever puts a message on a case also counts as its activity.
IdleIsUnheard == \A c \in Cases : case[c].idle <= heard[c]

\* A message that finds a proposal standing takes it back.
StandingUnopposed == \A c \in Cases : case[c].pending # NoProposal => objections[c] = {}

\* A run drafts once: whoever has a draft is past drafting it.
Late == {"mark", "flip", "done"}
DraftsAreLate == \A m \in Messages : draft[m] # "none" => msg[m].pc \in Late

\* A draft that a resolution found outstanding is cancelled.
ClosedAreCancelled == \A m \in closed : draft[m] = "cancelled"

CaseInv == TypeOK /\ IdleIsUnheard /\ StandingUnopposed /\ DraftsAreLate /\ ClosedAreCancelled

LEMMA InitInv == Init => CaseInv
<1> SUFFICES ASSUME Init PROVE CaseInv
  OBVIOUS
<1>1. \A c \in Cases : c <= Standing \/ ~(c <= Standing)
  OBVIOUS
<1>2. \A c \in Cases : case[c] \in CaseRecord /\ case[c].idle = 0 /\ case[c].pending = NoProposal
  BY NewCaseFacts, NoCaseFacts, Bounds DEF Init
<1>3. case \in CaseType
  BY <1>2 DEF Init, CaseType
<1>4. NoSnapshot \in Snapshot
  BY Bounds DEF NoSnapshot, Snapshot, Statuses
<1>5. msg \in MsgType
  BY <1>4, Bounds DEF Init, MsgType, MsgRecord, Labels
<1>6. TypeOK
  BY <1>3, <1>5, TypeParts, Bounds DEF Init, DraftStatuses, SweepRecord
<1>7. IdleIsUnheard /\ StandingUnopposed
  BY <1>2 DEF Init, IdleIsUnheard, StandingUnopposed
<1>8. DraftsAreLate /\ ClosedAreCancelled
  BY DEF Init, DraftsAreLate, ClosedAreCancelled
<1>. QED
  BY <1>6, <1>7, <1>8 DEF CaseInv

LEMMA LoadContextInv == ASSUME CaseInv, NEW m \in Messages, LoadContext(m) PROVE CaseInv'
<1> DEFINE opens == {<<c, case[c].idle>> : c \in {c \in Cases : Opened(c)}}
           row == [msg[m] EXCEPT !.pc = "route", !.opens = opens]
<1>0. case \in CaseType /\ msg \in MsgType /\ msg[m] \in MsgRecord
  BY TypeParts DEF CaseInv, MsgType
<1>1. opens \in SUBSET (Cases \X Ages)
  BY <1>0 DEF CaseType, CaseRecord
<1>2. row \in MsgRecord /\ row.pc = "route"
  BY <1>0, <1>1 DEF MsgRecord, Labels
<1>3. msg' = [msg EXCEPT ![m] = row] /\ msg[m].pc = "new"
  BY Zenon DEF LoadContext, At
<1>4. UNCHANGED <<case, draft, sweep, heard, objections, closed>>
  BY DEF LoadContext, MessageUnchanged
<1>. HIDE DEF row, opens
<1>5. TypeOK'
  BY <1>0, <1>2, <1>3, <1>4, MsgFacts, TypeParts, TypePartsNext DEF CaseInv
<1>6. DraftsAreLate'
  BY <1>0, <1>2, <1>3, <1>4, MsgFacts DEF CaseInv, DraftsAreLate, Late
<1>. QED
  BY <1>4, <1>5, <1>6 DEF CaseInv, IdleIsUnheard, StandingUnopposed, ClosedAreCancelled

LEMMA IdentifyReadInv == ASSUME CaseInv, NEW m \in Messages, IdentifyRead(m) PROVE CaseInv'
<1>0. case \in CaseType /\ msg \in MsgType /\ msg[m] \in MsgRecord /\ msg[m].pc = "route"
  BY TypeParts DEF CaseInv, MsgType, IdentifyRead, At
<1>4. UNCHANGED <<case, draft, sweep, heard, objections, closed>>
  BY DEF IdentifyRead, MessageUnchanged
<1>1. \E row \in MsgRecord : msg' = [msg EXCEPT ![m] = row]
  <2>1. PICK s \in Signals :
          \/ /\ s = "chitchat"
             /\ msg' = [msg EXCEPT ![m].pc = "done", ![m].signal = s, ![m].opens = {}]
          \/ \E c \in Cases \cup {0} :
               msg' = [msg EXCEPT ![m].pc = "write", ![m].signal = s, ![m].target = c,
                                  ![m].opens = {},
                                  ![m].saw = IF c = 0 THEN NoSnapshot ELSE
                                      [status |-> case[c].status, resolved |-> case[c].resolved,
                                       pending |-> case[c].pending]]
    BY DEF IdentifyRead
  <2>2. CASE msg' = [msg EXCEPT ![m].pc = "done", ![m].signal = s, ![m].opens = {}]
    <3> DEFINE row == [msg[m] EXCEPT !.pc = "done", !.signal = s, !.opens = {}]
    <3>1. row \in MsgRecord
      BY <1>0 DEF MsgRecord, Labels
    <3>2. msg' = [msg EXCEPT ![m] = row]
      BY <2>2
    <3>. QED
      BY <3>1, <3>2
  <2>3. ASSUME NEW c \in Cases \cup {0},
               msg' = [msg EXCEPT ![m].pc = "write", ![m].signal = s, ![m].target = c,
                                  ![m].opens = {},
                                  ![m].saw = IF c = 0 THEN NoSnapshot ELSE
                                      [status |-> case[c].status, resolved |-> case[c].resolved,
                                       pending |-> case[c].pending]]
        PROVE  \E row \in MsgRecord : msg' = [msg EXCEPT ![m] = row]
    <3> DEFINE saw == IF c = 0 THEN NoSnapshot ELSE
                          [status |-> case[c].status, resolved |-> case[c].resolved,
                           pending |-> case[c].pending]
               row == [msg[m] EXCEPT !.pc = "write", !.signal = s, !.target = c,
                                     !.opens = {}, !.saw = saw]
    <3>1. saw \in Snapshot
      <4>1. CASE c = 0
        BY <4>1, Bounds DEF NoSnapshot, Snapshot, Statuses
      <4>2. CASE c # 0
        BY <4>2, <1>0 DEF Snapshot, CaseType, CaseRecord
      <4>. QED
        BY <4>1, <4>2
    <3>2. msg' = [msg EXCEPT ![m] = row]
      BY <2>3
    <3>. HIDE DEF saw
    <3>3. row \in MsgRecord
      BY <1>0, <3>1, Bounds DEF MsgRecord, Labels
    <3>. HIDE DEF row
    <3>. QED
      BY <3>2, <3>3
  <2>. QED
    BY <2>1, <2>2, <2>3
<1>5. TypeOK'
  BY <1>0, <1>1, <1>4, MsgFacts, TypeParts, TypePartsNext DEF CaseInv
<1>6. DraftsAreLate'
  BY <1>0, <1>1, <1>4, MsgFacts DEF CaseInv, DraftsAreLate, Late
<1>. QED
  BY <1>4, <1>5, <1>6 DEF CaseInv, IdleIsUnheard, StandingUnopposed, ClosedAreCancelled

\* What a message's commit does to the rows, whatever it was routed to.
LEMMA WriteFacts ==
    ASSUME CaseInv, NEW m \in Messages, IdentifyWrite(m)
    PROVE  /\ case' \in CaseType /\ heard' \in [Cases -> Ages]
           /\ objections' \in [Cases -> SUBSET Messages]
           /\ msg' \in MsgType
           /\ \A n \in Messages : msg'[n].pc = msg[n].pc \/ (n = m /\ msg[n].pc = "write")
           /\ IdleIsUnheard' /\ StandingUnopposed'
           /\ \A c \in Cases : case[c].status # "resolved" => case'[c].status # "resolved"
           /\ UNCHANGED <<draft, sweep, closed>>
<1>0. /\ case \in CaseType /\ msg \in MsgType /\ msg[m] \in MsgRecord /\ heard \in [Cases -> Ages]
      /\ objections \in [Cases -> SUBSET Messages] /\ msg[m].pc = "write"
      /\ IdleIsUnheard /\ StandingUnopposed
  BY TypeParts DEF CaseInv, MsgType, IdentifyWrite, At
<1> DEFINE signal == msg[m].signal
           saw == msg[m].saw
           link == IF Attaches(m) THEN 0 ELSE msg[m].target
<1>1. saw \in Snapshot /\ link \in CaseIds
  BY <1>0, Bounds DEF MsgRecord
<1>2. PICK c \in Cases :
        LET row == IF Attaches(m) THEN Attached(case[c], msg[m].saw) ELSE NewCase(link)
            first == [case EXCEPT ![c] = Propose(row, signal)]
            second == IF signal = "split" THEN Fresh(first) ELSE {} IN
        /\ case' = [d \in Cases |-> IF d \in second THEN NewCase(0) ELSE first[d]]
        /\ heard' = [d \in Cases |-> IF d \in second \cup {c} THEN 0 ELSE heard[d]]
        /\ objections' = [objections EXCEPT ![c] =
                IF signal = "confirm" THEN {}
                ELSE IF msg[m].saw.pending # NoProposal THEN objections[c] \cup {m}
                ELSE objections[c]]
        /\ msg' = [msg EXCEPT ![m].pc = "draft", ![m].case = c]
  BY Zenon DEF IdentifyWrite
<1> DEFINE row == IF Attaches(m) THEN Attached(case[c], saw) ELSE NewCase(link)
           put == Propose(row, signal)
           first == [case EXCEPT ![c] = put]
           second == IF signal = "split" THEN Fresh(first) ELSE {}
           blamed == IF signal = "confirm" THEN {}
                     ELSE IF saw.pending # NoProposal THEN objections[c] \cup {m}
                     ELSE objections[c]
<1>3. /\ case' = [d \in Cases |-> IF d \in second THEN NewCase(0) ELSE first[d]]
      /\ heard' = [d \in Cases |-> IF d \in second \cup {c} THEN 0 ELSE heard[d]]
      /\ objections' = [objections EXCEPT ![c] = blamed]
      /\ msg' = [msg EXCEPT ![m].pc = "draft", ![m].case = c]
  BY <1>2, Zenon
<1>4. UNCHANGED <<draft, sweep, closed>>
  BY DEF IdentifyWrite, MessageUnchanged
<1>5. /\ row \in CaseRecord /\ row.idle = 0
      /\ case[c].status # "resolved" => row.status # "resolved"
      /\ saw.pending # NoProposal => row.pending = NoProposal
      /\ row.pending # NoProposal => case[c].pending # NoProposal
  <2>1. case[c] \in CaseRecord
    BY <1>0 DEF CaseType
  <2>2. CASE Attaches(m)
    <3>1. row = Attached(case[c], saw)
      BY <2>2
    <3>. QED
      BY <3>1, <2>1, <1>1, AttachedFacts
  <2>3. CASE ~Attaches(m)
    <3>1. row = NewCase(link)
      BY <2>3
    <3>2. link \in CaseIds
      BY <1>1
    <3>. HIDE DEF link, row, saw
    <3>. QED
      BY <3>1, <3>2, NewCaseFacts
  <2>. QED
    BY <2>2, <2>3
<1>. HIDE DEF row, saw, link
<1>6. /\ put \in CaseRecord /\ put.idle = 0
      /\ case[c].status # "resolved" => put.status # "resolved"
      /\ signal # "confirm" => put = row
  BY <1>5, ProposeFacts
<1>. HIDE DEF put
<1>7. \A d \in Cases : first[d] = IF d = c THEN put ELSE case[d]
  BY <1>0 DEF CaseType
<1>. HIDE DEF first
<1>8. second \subseteq Cases
  BY DEF Fresh
<1>. HIDE DEF second
<1>9. 0 \in CaseIds /\ 0 \in Ages
  BY Bounds
<1>10. /\ NewCase(0) \in CaseRecord /\ NewCase(0).status = "open"
       /\ NewCase(0).idle = 0 /\ NewCase(0).pending = NoProposal
  BY <1>9, NewCaseFacts
<1>11. \A d \in Cases : /\ case'[d] \in CaseRecord
                        /\ d \in second => case'[d] = NewCase(0)
                        /\ d \notin second => case'[d] = IF d = c THEN put ELSE case[d]
  BY <1>0, <1>3, <1>6, <1>7, <1>10 DEF CaseType
<1>12. case' \in CaseType
  BY <1>3, <1>11 DEF CaseType
<1>13. heard' \in [Cases -> Ages] /\ IdleIsUnheard'
  <2>1. \A d \in Cases : heard'[d] = IF d \in second \cup {c} THEN 0 ELSE heard[d]
    BY <1>3
  <2>2. heard' \in [Cases -> Ages]
    BY <1>0, <1>3, <1>9
  <2>3. \A d \in Cases : case'[d].idle <= heard'[d]
    BY <2>1, <1>11, <1>6, <1>10, <1>0 DEF IdleIsUnheard
  <2>. QED
    BY <2>2, <2>3 DEF IdleIsUnheard
<1>14. objections' \in [Cases -> SUBSET Messages] /\ StandingUnopposed'
  <2>1. blamed \in SUBSET Messages
    BY <1>0
  <2>2. put.pending # NoProposal => blamed = {}
    BY <1>0, <1>5, <1>6 DEF StandingUnopposed
  <2>. HIDE DEF blamed
  <2>3. \A d \in Cases : objections'[d] = IF d = c THEN blamed ELSE objections[d]
    BY <1>0, <1>3
  <2>4. \A d \in Cases : case'[d].pending # NoProposal => objections'[d] = {}
    BY <2>2, <2>3, <1>0, <1>10, <1>11 DEF StandingUnopposed
  <2>. QED
    BY <1>0, <1>3, <2>1, <2>4 DEF StandingUnopposed
<1>15. \A d \in Cases : case[d].status # "resolved" => case'[d].status # "resolved"
  BY <1>6, <1>10, <1>11
<1>16. /\ msg' \in MsgType
       /\ \A n \in Messages : msg'[n].pc = msg[n].pc \/ (n = m /\ msg[n].pc = "write")
  <2> DEFINE now == [msg[m] EXCEPT !.pc = "draft", !.case = c]
  <2>1. now \in MsgRecord
    BY <1>0, Bounds DEF MsgRecord, Labels
  <2>2. msg' = [msg EXCEPT ![m] = now]
    BY <1>3
  <2>. HIDE DEF now
  <2>. QED
    BY <2>1, <2>2, <1>0, MsgFacts
<1>. QED
  BY <1>4, <1>12, <1>13, <1>14, <1>15, <1>16

LEMMA IdentifyWriteInv == ASSUME CaseInv, NEW m \in Messages, IdentifyWrite(m) PROVE CaseInv'
<1>1. TypeOK'
  BY WriteFacts, TypeParts, TypePartsNext DEF CaseInv
<1>2. DraftsAreLate'
  BY WriteFacts DEF CaseInv, DraftsAreLate, Late
<1>. QED
  BY <1>1, <1>2, WriteFacts DEF CaseInv, ClosedAreCancelled

LEMMA InsertDraftInv == ASSUME CaseInv, NEW m \in Messages, InsertDraft(m) PROVE CaseInv'
<1>0. /\ msg \in MsgType /\ msg[m].pc = "draft" /\ draft \in [Messages -> DraftStatuses]
      /\ closed \subseteq Messages
  BY TypeParts DEF CaseInv, InsertDraft, At
<1>1. UNCHANGED <<case, sweep, heard, objections, closed>>
  BY DEF InsertDraft, DraftUnchanged
<1>2. /\ msg' \in MsgType /\ msg'[m].pc = "mark"
      /\ \A n \in Messages : n # m => msg'[n] = msg[n]
  BY <1>0, PcFacts DEF InsertDraft, Labels
<1>3. \A d \in Messages : \/ draft'[d] = draft[d]
                          \/ d = m /\ draft'[d] = "pending"
                          \/ d # m /\ draft[d] = "pending" /\ draft'[d] = "stale"
  BY DEF InsertDraft, DraftsOn
<1>4. draft' \in [Messages -> DraftStatuses]
  BY <1>0, <1>3 DEF InsertDraft, DraftStatuses
<1>5. draft[m] = "none"
  BY <1>0 DEF CaseInv, DraftsAreLate, Late
<1>6. TypeOK'
  BY <1>1, <1>2, <1>4, TypeParts, TypePartsNext DEF CaseInv
<1>7. DraftsAreLate'
  BY <1>2, <1>3 DEF CaseInv, DraftsAreLate, Late
<1>8. ClosedAreCancelled'
  BY <1>0, <1>1, <1>3, <1>5 DEF CaseInv, ClosedAreCancelled
<1>. QED
  BY <1>1, <1>6, <1>7, <1>8 DEF CaseInv, IdleIsUnheard, StandingUnopposed

\* A run that only moves on, from after its draft.
LEMMA MovesOnInv ==
    ASSUME CaseInv, NEW m \in Messages, MarkSelect(m) \/ RunDies(m)
    PROVE  CaseInv'
<1>0. msg \in MsgType /\ msg[m].pc \in {"draft", "mark", "flip"}
  BY TypeParts DEF CaseInv, MarkSelect, RunDies, At
<1>1. UNCHANGED <<case, draft, sweep, heard, objections, closed>>
  BY DEF MarkSelect, RunDies, DraftUnchanged
<1>2. PICK label \in {"flip", "done"} : msg' = [msg EXCEPT ![m].pc = label]
  <2>1. CASE MarkSelect(m)
    BY <2>1 DEF MarkSelect
  <2>2. CASE RunDies(m)
    BY <2>2 DEF RunDies
  <2>. QED
    BY <2>1, <2>2
<1>3. /\ msg' \in MsgType /\ msg'[m].pc = label
      /\ \A n \in Messages : n # m => msg'[n] = msg[n]
  BY <1>0, <1>2, PcFacts DEF Labels
<1>4. TypeOK'
  BY <1>1, <1>3, TypeParts, TypePartsNext DEF CaseInv
<1>5. DraftsAreLate'
  BY <1>1, <1>3 DEF CaseInv, DraftsAreLate, Late
<1>. QED
  BY <1>1, <1>4, <1>5 DEF CaseInv, IdleIsUnheard, StandingUnopposed, ClosedAreCancelled

\* The case of a message, if it has one, gets another open status.
LEMMA StatusInv ==
    ASSUME CaseInv, NEW c \in CaseIds, NEW status \in OpenStatuses,
           case' = [case EXCEPT ![c].status = status], UNCHANGED <<heard, objections>>
    PROVE  /\ case' \in CaseType /\ IdleIsUnheard' /\ StandingUnopposed'
           /\ \A d \in Cases : case[d].status # "resolved" => case'[d].status # "resolved"
<1>1. case \in CaseType
  BY TypeParts DEF CaseInv
<1>2. CASE c \in Cases
  <2>1. /\ case' \in CaseType /\ case'[c].status = status
        /\ \A d \in Cases : /\ d # c => case'[d] = case[d]
                            /\ case'[d].idle = case[d].idle
                            /\ case'[d].pending = case[d].pending
    BY <1>1, <1>2, StatusFacts
  <2>. QED
    BY <2>1 DEF CaseInv, IdleIsUnheard, StandingUnopposed, OpenStatuses
<1>3. CASE c \notin Cases
  <2> DEFINE row == [case[c] EXCEPT !.status = status]
  <2>1. case' = [case EXCEPT ![c] = row]
    OBVIOUS
  <2>. HIDE DEF row
  <2>2. case' = case
    BY <1>1, <1>3, <2>1 DEF CaseType
  <2>. QED
    BY <1>1, <2>2 DEF CaseInv, IdleIsUnheard, StandingUnopposed
<1>. QED
  BY <1>2, <1>3

LEMMA MarkFlipInv == ASSUME CaseInv, NEW m \in Messages, MarkFlip(m) PROVE CaseInv'
<1>0. /\ msg \in MsgType /\ msg[m].pc = "flip" /\ msg[m].case \in CaseIds
  BY TypeParts DEF CaseInv, MarkFlip, At, MsgType, MsgRecord
<1>1. UNCHANGED <<draft, sweep, heard, objections, closed>>
  BY DEF MarkFlip, DraftUnchanged
<1>2. /\ msg' \in MsgType /\ msg'[m].pc = "done"
      /\ \A n \in Messages : n # m => msg'[n] = msg[n]
  BY <1>0, PcFacts DEF MarkFlip, Labels
<1>3. case' \in CaseType /\ IdleIsUnheard' /\ StandingUnopposed'
  BY <1>0, <1>1, StatusInv DEF MarkFlip, OpenStatuses
<1>4. TypeOK'
  BY <1>1, <1>2, <1>3, TypeParts, TypePartsNext DEF CaseInv
<1>5. DraftsAreLate'
  BY <1>1, <1>2 DEF CaseInv, DraftsAreLate, Late
<1>. QED
  BY <1>1, <1>3, <1>4, <1>5 DEF CaseInv, ClosedAreCancelled

\* The landlord's approval and the sending of the reply.
LEMMA DecisionInv ==
    ASSUME CaseInv, NEW m \in Messages, Approve(m) \/ Send(m)
    PROVE  CaseInv'
<1>0. /\ msg \in MsgType /\ draft \in [Messages -> DraftStatuses] /\ msg[m].case \in CaseIds
      /\ draft[m] \in {"pending", "approved"} /\ closed \subseteq Messages
  BY TypeParts DEF CaseInv, Approve, Send, MsgType, MsgRecord
<1>1. UNCHANGED <<msg, sweep, heard, objections, closed>>
  BY DEF Approve, Send
<1>2. PICK status \in OpenStatuses : case' = [case EXCEPT ![msg[m].case].status = status]
  <2>1. CASE Approve(m)
    BY <2>1 DEF Approve, OpenStatuses
  <2>2. CASE Send(m)
    BY <2>2 DEF Send, OpenStatuses
  <2>. QED
    BY <2>1, <2>2
<1>3. case' \in CaseType /\ IdleIsUnheard' /\ StandingUnopposed'
  BY <1>0, <1>1, <1>2, StatusInv
<1>4. PICK verdict \in {"approved", "sent"} : draft' = [draft EXCEPT ![m] = verdict]
  BY DEF Approve, Send
<1>5. TypeOK'
  BY <1>0, <1>1, <1>3, <1>4, TypeParts, TypePartsNext DEF CaseInv, DraftStatuses
<1>6. DraftsAreLate'
  BY <1>0, <1>1, <1>4 DEF CaseInv, DraftsAreLate, Late
<1>7. ClosedAreCancelled'
  BY <1>0, <1>1, <1>4 DEF CaseInv, ClosedAreCancelled
<1>. QED
  BY <1>3, <1>5, <1>6, <1>7 DEF CaseInv

LEMMA CancelInv ==
    ASSUME CaseInv, NEW C \in SUBSET Cases, NEW by, CancelDrafts(C, by), UNCHANGED msg
    PROVE  /\ draft' \in [Messages -> DraftStatuses] /\ closed' \subseteq Messages
           /\ DraftsAreLate' /\ ClosedAreCancelled'
<1> DEFINE gone == Outstanding(C)
<1>0. draft \in [Messages -> DraftStatuses] /\ closed \subseteq Messages
  BY TypeParts DEF CaseInv
<1>1. gone \subseteq Messages /\ \A m \in gone : draft[m] \in {"pending", "approved"}
  BY DEF Outstanding, DraftsOn
<1>2. /\ draft' = [m \in Messages |-> IF m \in gone THEN "cancelled" ELSE draft[m]]
      /\ closed' = closed \cup gone
  BY DEF CancelDrafts, Cancelled
<1>. HIDE DEF gone
<1>3. draft' \in [Messages -> DraftStatuses] /\ closed' \subseteq Messages
  BY <1>0, <1>1, <1>2 DEF DraftStatuses
<1>4. DraftsAreLate' /\ ClosedAreCancelled'
  BY <1>0, <1>1, <1>2 DEF CaseInv, DraftsAreLate, ClosedAreCancelled
<1>. QED
  BY <1>3, <1>4

LEMMA ResolveCaseInv == ASSUME CaseInv, NEW c \in Cases, ResolveCase(c) PROVE CaseInv'
<1>0. case \in CaseType /\ case[c] \in CaseRecord /\ heard \in [Cases -> Ages]
  BY TypeParts DEF CaseInv, CaseType
<1> DEFINE row == Resolved(case[c], "landlord")
<1>1. row \in CaseRecord /\ row.idle = 0 /\ row.pending = NoProposal
  BY <1>0, ResolvedFacts DEF Reasons
<1>2. case' = [case EXCEPT ![c] = row]
  BY DEF ResolveCase
<1>3. UNCHANGED <<msg, sweep, heard, objections>> /\ CancelDrafts({c}, "landlord")
  BY DEF ResolveCase
<1>. HIDE DEF row
<1>4. case' \in CaseType
  BY <1>0, <1>1, <1>2 DEF CaseType
<1>5. IdleIsUnheard' /\ StandingUnopposed'
  BY <1>0, <1>1, <1>2, <1>3 DEF CaseInv, IdleIsUnheard, StandingUnopposed, CaseType, Ages
<1>6. /\ draft' \in [Messages -> DraftStatuses] /\ closed' \subseteq Messages
      /\ DraftsAreLate' /\ ClosedAreCancelled'
  BY <1>3, CancelInv
<1>7. TypeOK'
  BY <1>3, <1>4, <1>6, TypeParts, TypePartsNext DEF CaseInv
<1>. QED
  BY <1>5, <1>6, <1>7 DEF CaseInv

LEMMA SweepSelectInv == ASSUME CaseInv, NEW s \in Sweepers, SweepSelect(s) PROVE CaseInv'
<1>1. UNCHANGED <<case, msg, draft, heard, objections, closed>>
  BY DEF SweepSelect
<1>2. sweep' \in [Sweepers -> SweepRecord]
  <2> DEFINE row == [pc |-> "apply", stale |-> DueStale, confirmed |-> DueConfirmed]
  <2>1. row \in SweepRecord
    BY DEF SweepRecord, DueStale, DueConfirmed
  <2>2. sweep' = [sweep EXCEPT ![s] = row]
    BY DEF SweepSelect
  <2>. HIDE DEF row
  <2>. QED
    BY <2>1, <2>2, TypeParts DEF CaseInv
<1>3. TypeOK'
  BY <1>1, <1>2, TypeParts, TypePartsNext DEF CaseInv
<1>. QED
  BY <1>1, <1>3 DEF CaseInv, IdleIsUnheard, StandingUnopposed, DraftsAreLate, ClosedAreCancelled

LEMMA SweepApplyInv == ASSUME CaseInv, NEW s \in Sweepers, SweepApply(s) PROVE CaseInv'
<1> DEFINE confirmed == {c \in sweep[s].confirmed : StillConfirmed(c)}
           stale == {c \in sweep[s].stale : StillStale(c)}
<1>0. /\ case \in CaseType /\ heard \in [Cases -> Ages] /\ sweep \in [Sweepers -> SweepRecord]
  BY TypeParts DEF CaseInv
<1>1. confirmed \subseteq Cases /\ stale \subseteq Cases
  BY <1>0 DEF SweepRecord
<1>2. /\ case' = [c \in Cases |->
                   IF c \in confirmed THEN Resolved(case[c], "tenant_confirmed")
                   ELSE IF c \in stale THEN Resolved(case[c], "auto_stale")
                   ELSE case[c]]
      /\ CancelDrafts(confirmed \cup stale, "sweep")
      /\ sweep' = [sweep EXCEPT ![s] = [pc |-> "swept", stale |-> {}, confirmed |-> {}]]
      /\ UNCHANGED <<msg, heard, objections>>
  BY DEF SweepApply
<1>. HIDE DEF confirmed, stale
<1>3. \A c \in Cases : /\ case'[c] \in CaseRecord
                      /\ case'[c].idle \in {0, case[c].idle}
                      /\ case'[c].pending \in {NoProposal, case[c].pending}
  BY <1>0, <1>2, ResolvedFacts DEF CaseType, Reasons
<1>4. case' \in CaseType
  BY <1>2, <1>3 DEF CaseType
<1>5. IdleIsUnheard' /\ StandingUnopposed'
  BY <1>0, <1>2, <1>3 DEF CaseInv, IdleIsUnheard, StandingUnopposed, Ages
<1>6. /\ draft' \in [Messages -> DraftStatuses] /\ closed' \subseteq Messages
      /\ DraftsAreLate' /\ ClosedAreCancelled'
  BY <1>1, <1>2, CancelInv
<1>7. sweep' \in [Sweepers -> SweepRecord]
  <2> DEFINE row == [pc |-> "swept", stale |-> {}, confirmed |-> {}]
  <2>1. row \in SweepRecord
    BY DEF SweepRecord
  <2>. HIDE DEF row
  <2>. QED
    BY <1>0, <1>2, <2>1 DEF row
<1>8. TypeOK'
  BY <1>2, <1>4, <1>6, <1>7, TypeParts, TypePartsNext DEF CaseInv
<1>. QED
  BY <1>5, <1>6, <1>8 DEF CaseInv

LEMMA DayInv == ASSUME CaseInv, Day PROVE CaseInv'
<1>0. /\ case \in CaseType /\ heard \in [Cases -> Ages] /\ sweep \in [Sweepers -> SweepRecord]
  BY TypeParts DEF CaseInv
<1>1. /\ case' = [c \in Cases |-> IF Exists(c) THEN Older(case[c]) ELSE case[c]]
      /\ heard' = [c \in Cases |-> IF Exists(c) THEN UpTo(Stale, heard[c]) ELSE heard[c]]
      /\ sweep' = [s \in Sweepers |-> [sweep[s] EXCEPT !.pc = "idle"]]
      /\ UNCHANGED <<msg, draft, objections, closed>>
  BY DEF Day
<1>2. case' \in CaseType
  BY <1>0, <1>1, OlderFacts DEF CaseType
<1>3. heard' \in [Cases -> Ages]
  BY <1>0, <1>1, AgeFacts
<1>4. sweep' \in [Sweepers -> SweepRecord]
  BY <1>0, <1>1 DEF SweepRecord
<1>5. ASSUME NEW c \in Cases
      PROVE  /\ case'[c].idle <= heard'[c]
             /\ case'[c].pending # NoProposal => objections'[c] = {}
  <2>1. case[c] \in CaseRecord /\ case[c].idle \in Ages /\ heard[c] \in Ages
        /\ case[c].idle <= heard[c]
    BY <1>0 DEF CaseType, CaseRecord, CaseInv, IdleIsUnheard
  <2>2. CASE Exists(c)
    <3>1. case'[c] = Older(case[c]) /\ heard'[c] = UpTo(Stale, heard[c])
      BY <1>1, <2>2
    <3>. QED
      BY <1>1, <2>1, <3>1, OlderFacts, AgeFacts DEF CaseInv, StandingUnopposed
  <2>3. CASE ~Exists(c)
    <3>1. case'[c] = case[c] /\ heard'[c] = heard[c]
      BY <1>1, <2>3
    <3>. QED
      BY <1>1, <2>1, <3>1 DEF CaseInv, StandingUnopposed
  <2>. QED
    BY <2>2, <2>3
<1>6. TypeOK'
  BY <1>1, <1>2, <1>3, <1>4, TypeParts, TypePartsNext DEF CaseInv
<1>. QED
  BY <1>1, <1>5, <1>6
     DEF CaseInv, IdleIsUnheard, StandingUnopposed, DraftsAreLate, ClosedAreCancelled

LEMMA StepInv == CaseInv /\ [Next]_vars => CaseInv'
<1> SUFFICES ASSUME CaseInv, [Next]_vars PROVE CaseInv'
  OBVIOUS
<1>1. CASE UNCHANGED vars
  BY <1>1 DEF vars, CaseInv, TypeOK, IdleIsUnheard, StandingUnopposed, DraftsAreLate,
              ClosedAreCancelled, Opened
<1>2. ASSUME NEW m \in Messages, Message(m) PROVE CaseInv'
  BY <1>2, LoadContextInv, IdentifyReadInv, IdentifyWriteInv, InsertDraftInv, MovesOnInv,
     MarkFlipInv DEF Message
<1>3. ASSUME NEW m \in Messages, RunDies(m) \/ Approve(m) \/ Send(m) PROVE CaseInv'
  BY <1>3, MovesOnInv, DecisionInv
<1>4. ASSUME NEW s \in Sweepers, Sweep(s) PROVE CaseInv'
  BY <1>4, SweepSelectInv, SweepApplyInv DEF Sweep
<1>. QED
  BY <1>1, <1>2, <1>3, <1>4, ResolveCaseInv, DayInv DEF Next

LEMMA Invariant == Spec => []CaseInv
BY InitInv, StepInv, PTL DEF Spec

-----------------------------------------------------------------------------
(* The theorems.                                                           *)

\* The rows of identify_case, the sweep and the resolve endpoint keep their types.
THEOREM TypeCorrect == Spec => []TypeOK
<1>1. CaseInv => TypeOK
  BY DEF CaseInv
<1>. QED
  BY <1>1, Invariant, PTL

\* Which steps close a case.
LEMMA WhoCloses ==
    ASSUME CaseInv, Next, NEW c \in Cases, NEW reason \in {"auto_stale", "tenant_confirmed"},
           BecomesClosed(c, reason)
    PROVE  \E s \in Sweepers :
              \/ reason = "tenant_confirmed" /\ c \in sweep[s].confirmed /\ StillConfirmed(c)
              \/ reason = "auto_stale" /\ c \in sweep[s].stale /\ StillStale(c)
<1>0. /\ case \in CaseType /\ msg \in MsgType /\ case[c].status # "resolved"
      /\ case'[c].status = "resolved" /\ case'[c].reason = reason
  BY TypeParts DEF CaseInv, BecomesClosed
<1>1. ASSUME NEW m \in Messages, Message(m) PROVE FALSE
  <2>1. \/ UNCHANGED case \/ IdentifyWrite(m) \/ MarkFlip(m)
    BY <1>1 DEF Message, LoadContext, IdentifyRead, InsertDraft, MarkSelect
  <2>2. CASE IdentifyWrite(m)
    BY <2>2, <1>0, WriteFacts
  <2>3. CASE MarkFlip(m)
    <3>1. msg[m].case \in CaseIds
      BY <1>0 DEF MsgType, MsgRecord
    <3>. QED
      BY <2>3, <3>1, <1>0, StatusInv DEF MarkFlip, OpenStatuses, DraftUnchanged
  <2>. QED
    BY <1>0, <2>1, <2>2, <2>3
<1>2. ASSUME NEW m \in Messages, Approve(m) \/ Send(m) PROVE FALSE
  <2>1. msg[m].case \in CaseIds
    BY <1>0 DEF MsgType, MsgRecord
  <2>2. CASE Approve(m)
    BY <2>1, <2>2, <1>0, StatusInv DEF Approve, OpenStatuses
  <2>3. CASE Send(m)
    BY <2>1, <2>3, <1>0, StatusInv DEF Send, OpenStatuses
  <2>. QED
    BY <1>2, <2>2, <2>3
<1>3. ASSUME NEW m \in Messages, RunDies(m) PROVE FALSE
  BY <1>3, <1>0 DEF RunDies
<1>4. ASSUME NEW d \in Cases, ResolveCase(d) PROVE FALSE
  <2> DEFINE row == Resolved(case[d], "landlord")
  <2>1. row.reason = "landlord"
    BY <1>0, ResolvedFacts DEF CaseType, Reasons
  <2>2. case' = [case EXCEPT ![d] = row]
    BY <1>4 DEF ResolveCase
  <2>. HIDE DEF row
  <2>. QED
    BY <2>1, <2>2, <1>0 DEF CaseType
<1>5. ASSUME Day PROVE FALSE
  <2>1. case'[c] = Older(case[c]) \/ case'[c] = case[c]
    BY <1>5 DEF Day
  <2>. QED
    BY <2>1, <1>0, OlderFacts DEF CaseType
<1>6. ASSUME NEW s \in Sweepers, SweepSelect(s) PROVE FALSE
  BY <1>6, <1>0 DEF SweepSelect
<1>7. ASSUME NEW s \in Sweepers, SweepApply(s)
      PROVE  \/ reason = "tenant_confirmed" /\ c \in sweep[s].confirmed /\ StillConfirmed(c)
             \/ reason = "auto_stale" /\ c \in sweep[s].stale /\ StillStale(c)
  <2> DEFINE confirmed == {d \in sweep[s].confirmed : StillConfirmed(d)}
             stale == {d \in sweep[s].stale : StillStale(d)}
  <2>1. case' = [d \in Cases |->
                   IF d \in confirmed THEN Resolved(case[d], "tenant_confirmed")
                   ELSE IF d \in stale THEN Resolved(case[d], "auto_stale")
                   ELSE case[d]]
    BY <1>7 DEF SweepApply
  <2>2. case[c] \in CaseRecord
    BY <1>0 DEF CaseType
  <2>3. Resolved(case[c], "tenant_confirmed").reason = "tenant_confirmed"
    BY <2>2, ResolvedFacts DEF Reasons
  <2>4. Resolved(case[c], "auto_stale").reason = "auto_stale"
    BY <2>2, ResolvedFacts DEF Reasons
  <2>5. \/ c \in confirmed /\ reason = "tenant_confirmed"
        \/ c \in stale /\ reason = "auto_stale"
    <3>. HIDE DEF confirmed, stale
    <3>. QED
      BY <1>0, <2>1, <2>3, <2>4
  <2>. QED
    BY <2>5
<1>. QED
  BY <1>1, <1>2, <1>3, <1>4, <1>5, <1>6, <1>7 DEF Next, Sweep

\* The auto-stale leg of the sweep closes a case only after the whole window
\* without a message, whatever was committed since its snapshot.
THEOREM StaleIsQuiet == Spec => StaleMeansQuiet
<1>1. ASSUME CaseInv, [Next]_vars, NEW c \in Cases, BecomesClosed(c, "auto_stale")
      PROVE  heard[c] = Stale /\ case[c].status # "awaiting_approval"
                              /\ case[c].pending = NoProposal
  <2>1. Next
    BY <1>1 DEF BecomesClosed, vars
  <2>2. StillStale(c)
    BY <1>1, <2>1, WhoCloses
  <2>3. heard[c] \in Ages /\ case[c].idle <= heard[c]
    BY <1>1, TypeParts DEF CaseInv, IdleIsUnheard
  <2>. QED
    BY <2>2, <2>3, LifecycleAssumption DEF StillStale, AutoStaleEligible, Ages
<1>2. CaseInv /\ [Next]_vars => [\A c \in Cases : BecomesClosed(c, "auto_stale") =>
          heard[c] = Stale /\ case[c].status # "awaiting_approval"
                          /\ case[c].pending = NoProposal]_vars
  BY <1>1
<1>. QED
  BY <1>2, Invariant, PTL DEF Spec, StaleMeansQuiet

\* The tenant-confirmed leg applies no proposal that a message has answered.
THEOREM ConfirmedIsUncontradicted == Spec => ConfirmedMeansUncontradicted
<1>1. ASSUME CaseInv, [Next]_vars, NEW c \in Cases, BecomesClosed(c, "tenant_confirmed")
      PROVE  objections[c] = {}
  <2>1. Next
    BY <1>1 DEF BecomesClosed, vars
  <2>2. StillConfirmed(c)
    BY <1>1, <2>1, WhoCloses
  <2>. QED
    BY <1>1, <2>2, Bounds DEF CaseInv, StandingUnopposed, StillConfirmed
<1>2. CaseInv /\ [Next]_vars =>
        [\A c \in Cases : BecomesClosed(c, "tenant_confirmed") => objections[c] = {}]_vars
  BY <1>1
<1>. QED
  BY <1>2, Invariant, PTL DEF Spec, ConfirmedMeansUncontradicted

\* What was outstanding when a case was closed is never sent, whoever closed it
\* and however often it reopens.
THEOREM ClosedStays == Spec => ClosedDraftsStay
<1>1. ASSUME CaseInv, CaseInv', NEW m \in closed, closed \subseteq closed' PROVE draft'[m] # "sent"
  BY <1>1 DEF CaseInv, ClosedAreCancelled
<1>2. CaseInv /\ [Next]_vars => closed \subseteq closed'
  BY DEF Next, vars, Message, LoadContext, IdentifyRead, IdentifyWrite, InsertDraft, MarkSelect,
         MarkFlip, RunDies, Approve, Send, ResolveCase, Sweep, SweepSelect, SweepApply, Day,
         MessageUnchanged, DraftUnchanged, CancelDrafts
<1>3. CaseInv /\ [Next]_vars =>
        [\A m \in closed : draft'[m] = "sent" => draft[m] = "sent"]_vars
  BY <1>1, <1>2, StepInv
<1>. QED
  BY <1>3, Invariant, PTL DEF Spec, ClosedDraftsStay
=============================================================================
