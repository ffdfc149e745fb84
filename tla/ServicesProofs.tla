---------------------------- MODULE ServicesProofs ----------------------------
(***************************************************************************)
(* Unattended replies and paged lists, for any number of messages, cases,  *)
(* properties, rows and pages; and the types of the four modules of        *)
(* MCServices together.                                                    *)
(*                                                                         *)
(* Replies.  Two invariants.  RunInv: runs begin in the order of their     *)
(* messages and the lock of a case admits one, so from the draft to the    *)
(* send a run finds its own draft, and only that, pending, and what it     *)
(* counted against the cap cannot grow behind its back; a case that was    *)
(* alarmed stays rated an emergency, which the send reads again.           *)
(* LadderInv: the streak of a trust row is no longer than the run of       *)
(* untouched sends at the end of the ledger, and where autonomy is         *)
(* unlocked the ledger has a run long enough.                              *)
(*                                                                         *)
(* Lists.  The rows that stay where they were are split by the cursor into *)
(* those that were shown and those still to read.  That a page and the     *)
(* next cursor split the rest in the same way needs the three facts about  *)
(* Newest below: it is upward closed, it is everything or n rows at least, *)
(* and never more than n.                                                  *)
(***************************************************************************)
EXTENDS MCServices, CaseLifecycleProofs, PrefilterProofs, WellFoundedInduction, FiniteSetTheorems, TLAPS

-----------------------------------------------------------------------------
(* Rows and what the helpers return.                                       *)

\* While a run is at one of these it holds the lock of its case.
Held == {"rate", "draft", "route", "auto"}
Ratings == Severities \cup {"none"}
RequestRow == [pc : Held \cup {"new", "done"}, hard : BOOLEAN, severity : Ratings]
ReplyRow == [status : {"none", "pending", "approved", "sending", "gone"},
             text : {"none", "own", "fallback"}, auto : BOOLEAN, edited : BOOLEAN, saw : Ratings]
TrustRow == [unlocked : BOOLEAN, revoked : BOOLEAN, streak : Nat]
SourceRow == [severity : 0..MaxRequest, newest : {"none", "intent", "severity"}]

\* The type invariant, over named rows.
LEMMA AutonomyTypeParts ==
    AutonomyTypeOK <=>
        /\ request \in [Requests -> RequestRow] /\ reply \in [Requests -> ReplyRow]
        /\ rated \in [RatedCases -> Ratings] /\ trust \in [RatedProperties -> TrustRow]
        /\ today \subseteq Requests /\ ledger \in [RatedProperties -> Seq({"clean", "edited"})]
        /\ alarmed \subseteq RatedCases /\ classified \in [RatedCases -> SourceRow]
<1>1. Held \cup {"new", "done"} = {"new", "rate", "draft", "route", "auto", "done"}
  BY DEF Held
<1>2. QED
  BY <1>1 DEF AutonomyTypeOK, RequestRow, ReplyRow, TrustRow, SourceRow, Ratings

\* The same of the next state.
LEMMA AutonomyTypePartsNext ==
    AutonomyTypeOK' <=>
        /\ request' \in [Requests -> RequestRow] /\ reply' \in [Requests -> ReplyRow]
        /\ rated' \in [RatedCases -> Ratings] /\ trust' \in [RatedProperties -> TrustRow]
        /\ today' \subseteq Requests /\ ledger' \in [RatedProperties -> Seq({"clean", "edited"})]
        /\ alarmed' \subseteq RatedCases /\ classified' \in [RatedCases -> SourceRow]
<1>1. Held \cup {"new", "done"} = {"new", "rate", "draft", "route", "auto", "done"}
  BY DEF Held
<1>2. QED
  BY <1>1 DEF AutonomyTypeOK, RequestRow, ReplyRow, TrustRow, SourceRow, Ratings

\* A message has a case, a case a property.
LEMMA WhoseItIs ==
    ASSUME NEW m \in Requests
    PROVE  /\ CaseOf[m] \in RatedCases /\ Landlady(m) \in RatedProperties
           /\ m \in Nat /\ m \in 1..MaxRequest /\ MaxRequest \in Nat
<1>1. CaseOf \in [Requests -> RatedCases] /\ MaxRequest \in Nat
  BY AutonomyAssumption
<1>2. CaseOf[m] \in RatedCases
  BY <1>1
<1>3. Landlady(m) \in RatedProperties
  BY <1>2 DEF Landlady, RatedProperties
<1>4. QED
  BY <1>1, <1>2, <1>3 DEF Requests

\* What the attempts end in.
LEMMA OutcomeIs ==
    ASSUME NEW Good, NEW Bad, NEW tries \in Attempts(Good, Bad)
    PROVE  Outcome(tries) \in Good \cup Bad
BY DEF Attempts, Outcome

\* A draft is in the words of the model or of the standard reply.
LEMMA AcknowledgmentIs ==
    ASSUME NEW tries PROVE Acknowledgment(tries) \in {"own", "fallback"}
BY DEF Acknowledgment

\* A HARD hit is an emergency, and nothing is clamped to less than a severity.
LEMMA ClampIs ==
    ASSUME NEW hard \in BOOLEAN, NEW severity \in Severities
    PROVE  Clamp(hard, severity) \in Severities /\ (hard => Clamp(hard, severity) = "emergency")
BY DEF Clamp, Severities

\* Constant replies and rows.
LEMMA RowFacts ==
    /\ NoReply \in ReplyRow /\ NoReply.status = "none" /\ NoReply.text = "none" /\ NoReply.auto = FALSE
    /\ Gone \in ReplyRow /\ Gone.status = "gone"
    /\ \A m \in Requests : [severity |-> m, newest |-> "severity"] \in SourceRow
    /\ NoRows \in SourceRow
<1>1. \A m \in Requests : m \in 0..MaxRequest
  BY AutonomyAssumption DEF Requests
<1>2. 0 \in 0..MaxRequest
  BY AutonomyAssumption
<1>3. Gone \in ReplyRow /\ Gone.status = "gone"
  BY DEF Gone, NoReply, ReplyRow, Ratings
<1>4. NoReply \in ReplyRow /\ NoReply.status = "none" /\ NoReply.text = "none" /\ NoReply.auto = FALSE
  BY DEF NoReply, ReplyRow, Ratings
<1>5. QED
  BY <1>1, <1>2, <1>3, <1>4 DEF SourceRow, NoRows
-----------------------------------------------------------------------------
(* Types.                                                                  *)

\* At first every variable has its type,
LEMMA AutonomyTypesInit == AutonomyInit => AutonomyTypeOK
<1>1. SUFFICES ASSUME AutonomyInit PROVE AutonomyTypeOK
  OBVIOUS
<1>2. request \in [Requests -> RequestRow]
  <2>1. [pc : {"new"}, hard : BOOLEAN, severity : {"none"}] \subseteq RequestRow
    BY DEF RequestRow, Ratings
  <2>2. QED
    BY <1>1, <2>1 DEF AutonomyInit
<1>3. /\ reply \in [Requests -> ReplyRow] /\ rated \in [RatedCases -> Ratings]
      /\ classified \in [RatedCases -> SourceRow]
  BY <1>1, RowFacts DEF AutonomyInit, Ratings
<1>4. PICK start \in [RatedProperties -> 0..Threshold] :
         /\ trust = [p \in RatedProperties |-> Climbed(start[p])]
         /\ ledger = [p \in RatedProperties |-> [i \in 1..start[p] |-> "clean"]]
  BY <1>1 DEF AutonomyInit
<1>5. \A p \in RatedProperties : start[p] \in Nat
  BY <1>4, AutonomyAssumption
<1>6. \A k \in Nat : Climbed(k) \in TrustRow
  BY DEF Climbed, TrustRow
<1>7. trust \in [RatedProperties -> TrustRow]
  BY <1>4, <1>5, <1>6
<1>8. \A k \in Nat : [i \in 1..k |-> "clean"] \in Seq({"clean", "edited"})
  OBVIOUS
<1>9. ledger \in [RatedProperties -> Seq({"clean", "edited"})]
  BY <1>4, <1>5, <1>8
<1>10. QED
  BY <1>1, <1>2, <1>3, <1>7, <1>9, AutonomyTypeParts DEF AutonomyInit

\* and every step keeps it.
LEMMA AutonomyTypesStep == AutonomyTypeOK /\ [AutonomyNext]_trustVars => AutonomyTypeOK'
<1>1. SUFFICES ASSUME AutonomyTypeOK, [AutonomyNext]_trustVars PROVE AutonomyTypeOK'
  OBVIOUS
<1>2. /\ request \in [Requests -> RequestRow] /\ reply \in [Requests -> ReplyRow]
      /\ rated \in [RatedCases -> Ratings] /\ trust \in [RatedProperties -> TrustRow]
      /\ today \subseteq Requests /\ ledger \in [RatedProperties -> Seq({"clean", "edited"})]
      /\ alarmed \subseteq RatedCases /\ classified \in [RatedCases -> SourceRow]
  BY <1>1, AutonomyTypeParts
<1>3. CASE UNCHANGED trustVars
  BY <1>2, <1>3, AutonomyTypePartsNext DEF trustVars
<1>4. ASSUME NEW m \in Requests, ClassifyIntent(m) PROVE AutonomyTypeOK'
  <2>1. CaseOf[m] \in RatedCases
    BY WhoseItIs
  <2>2. request' \in [Requests -> RequestRow]
    <3>1. request' = [request EXCEPT ![m].pc = "rate"]
      BY <1>4 DEF ClassifyIntent
    <3>2. QED
      BY <1>2, <3>1 DEF RequestRow, Held
  <2>3. classified' \in [RatedCases -> SourceRow]
    <3>1. classified' = classified \/ classified' = [classified EXCEPT ![CaseOf[m]].newest = "intent"]
      BY <1>4 DEF ClassifyIntent
    <3>2. QED
      BY <1>2, <2>1, <3>1 DEF SourceRow
  <2>4. QED
    BY <1>2, <1>4, <2>2, <2>3, AutonomyTypePartsNext DEF ClassifyIntent
<1>5. ASSUME NEW m \in Requests, Classify(m) PROVE AutonomyTypeOK'
  <2>1. CaseOf[m] \in RatedCases
    BY WhoseItIs
  <2>2. request[m].hard \in BOOLEAN
    BY <1>2 DEF RequestRow
  <2>3. PICK answer \in {Outcome(tries) : tries \in Attempts(Severities, {"error"})} :
          LET severity == Clamp(request[m].hard, answer) IN
          IF answer = "error"
          THEN /\ request' = [request EXCEPT ![m].pc = "done"]
               /\ UNCHANGED <<rated, alarmed, classified>>
          ELSE /\ request' = [request EXCEPT ![m].pc = "draft", ![m].severity = severity]
               /\ Recorded(m, severity)
               /\ alarmed' = IF severity = "emergency" \/ request[m].hard
                             THEN alarmed \cup {CaseOf[m]} ELSE alarmed
    BY <1>5 DEF Classify
  <2>4. CASE answer = "error"
    <3>1. request' \in [Requests -> RequestRow]
      BY <1>2, <2>3, <2>4 DEF RequestRow
    <3>2. QED
      BY <1>2, <1>5, <2>3, <2>4, <3>1, AutonomyTypePartsNext DEF Classify
  <2>5. CASE answer # "error"
    <3>1. answer \in Severities
      BY <2>5, OutcomeIs
    <3>2. Clamp(request[m].hard, answer) \in Severities
      BY <2>2, <3>1, ClampIs
    <3> DEFINE r == [request[m] EXCEPT !.pc = "draft", !.severity = Clamp(request[m].hard, answer)]
    <3>10. request' = [request EXCEPT ![m] = r]
      BY <1>2, <2>3, <2>5
    <3>11. r \in RequestRow
      BY <1>2, <3>2 DEF RequestRow, Held, Ratings
    <3> HIDE DEF r
    <3>3. request' \in [Requests -> RequestRow]
      BY <1>2, <3>10, <3>11
    <3>4. classified' \in [RatedCases -> SourceRow]
      BY <1>2, <2>1, <2>3, <2>5, RowFacts DEF Recorded
    <3>5. rated' \in [RatedCases -> Ratings]
      BY <1>2, <2>1, <2>3, <2>5, <3>2 DEF Recorded, Rate, Ratings
    <3>6. alarmed' \subseteq RatedCases
      BY <1>2, <2>1, <2>3, <2>5
    <3>7. QED
      BY <1>2, <1>5, <3>3, <3>4, <3>5, <3>6, AutonomyTypePartsNext DEF Classify
  <2>6. QED
    BY <2>4, <2>5
<1>6. ASSUME NEW m \in Requests, DraftResponse(m) PROVE AutonomyTypeOK'
  <2>1. PICK words \in {Acknowledgment(tries) : tries \in Attempts({"clean"}, Retried)} :
         reply' = [d \in Requests |->
             CASE d = m -> [NoReply EXCEPT !.status = "pending", !.text = words]
               [] d \in Waiting(m) \ {m} -> Gone
               [] d \in Siblings(m) \ {m} /\ reply[d].status = "approved" /\ reply[d].auto -> Gone
               [] OTHER -> reply[d]]
    BY <1>6 DEF DraftResponse
  <2>2. words \in {"own", "fallback"}
    BY AcknowledgmentIs
  <2>3. [NoReply EXCEPT !.status = "pending", !.text = words] \in ReplyRow
    BY <2>2 DEF NoReply, ReplyRow, Ratings
  <2>4. ASSUME NEW d \in Requests
        PROVE (CASE d = m -> [NoReply EXCEPT !.status = "pending", !.text = words]
               [] d \in Waiting(m) \ {m} -> Gone
               [] d \in Siblings(m) \ {m} /\ reply[d].status = "approved" /\ reply[d].auto -> Gone
               [] OTHER -> reply[d]) \in ReplyRow
    BY <1>2, <2>3, RowFacts
  <2>5. reply' \in [Requests -> ReplyRow]
    BY <2>1, <2>4
  <2>6. request' \in [Requests -> RequestRow]
    BY <1>2, <1>6 DEF DraftResponse, RequestRow, Held
  <2>7. QED
    BY <1>2, <1>6, <2>5, <2>6, AutonomyTypePartsNext DEF DraftResponse
<1>7. ASSUME NEW m \in Requests, RouteAfterDraft(m) PROVE AutonomyTypeOK'
  <2>1. request' \in [Requests -> RequestRow]
    BY <1>2, <1>7 DEF RouteAfterDraft, RequestRow, Held
  <2>2. QED
    BY <1>2, <1>7, <2>1, AutonomyTypePartsNext DEF RouteAfterDraft
<1>8. ASSUME NEW m \in Requests, AutoSendDraft(m) PROVE AutonomyTypeOK'
  <2>1. request' \in [Requests -> RequestRow]
    BY <1>2, <1>8 DEF AutoSendDraft, RequestRow
  <2>2. CASE Waiting(m) # {} /\ StillEarned(m)
    <3>1. PICK d \in Waiting(m) :
              /\ reply' = [reply EXCEPT ![d].status = "approved", ![d].auto = TRUE,
                                        ![d].edited = FALSE]
              /\ today' = today \cup {d}
      BY <1>8, <2>2 DEF AutoSendDraft
    <3>2. d \in Requests
      BY DEF Waiting, Siblings
    <3> DEFINE r == [reply[d] EXCEPT !.status = "approved", !.auto = TRUE, !.edited = FALSE]
    <3>10. reply' = [reply EXCEPT ![d] = r]
      BY <1>2, <3>1, <3>2
    <3>11. r \in ReplyRow
      BY <1>2, <3>2 DEF ReplyRow
    <3> HIDE DEF r
    <3>3. reply' \in [Requests -> ReplyRow]
      BY <1>2, <3>10, <3>11
    <3>4. QED
      BY <1>2, <1>8, <2>1, <3>1, <3>2, <3>3, AutonomyTypePartsNext DEF AutoSendDraft
  <2>3. CASE ~(Waiting(m) # {} /\ StillEarned(m))
    BY <1>2, <1>8, <2>1, <2>3, AutonomyTypePartsNext DEF AutoSendDraft
  <2>4. QED
    BY <2>2, <2>3
<1>9. ASSUME NEW m \in Requests, RequestDies(m) PROVE AutonomyTypeOK'
  <2>1. request' \in [Requests -> RequestRow]
    BY <1>2, <1>9 DEF RequestDies, RequestRow
  <2>2. QED
    BY <1>2, <1>9, <2>1, AutonomyTypePartsNext DEF RequestDies
<1>10. ASSUME NEW m \in Requests, ApproveReply(m) PROVE AutonomyTypeOK'
  <2>2. PICK edited \in BOOLEAN :
          reply' = [reply EXCEPT ![m].status = "approved", ![m].edited = edited]
    BY <1>10 DEF ApproveReply
  <2> DEFINE r == [reply[m] EXCEPT !.status = "approved", !.edited = edited]
  <2>3. reply' = [reply EXCEPT ![m] = r]
    BY <1>2, <2>2
  <2>4. r \in ReplyRow
    BY <1>2 DEF ReplyRow
  <2> HIDE DEF r
  <2>1. reply' \in [Requests -> ReplyRow]
    BY <1>2, <2>3, <2>4
  <2>5. QED
    BY <1>2, <1>10, <2>1, AutonomyTypePartsNext DEF ApproveReply, ReplyOnly
<1>11. ASSUME NEW m \in Requests, WithdrawReply(m) PROVE AutonomyTypeOK'
  <2>1. CASE reply' = [reply EXCEPT ![m] = Gone]
    BY <1>2, <1>11, <2>1, RowFacts, AutonomyTypePartsNext DEF WithdrawReply, ReplyOnly
  <2>2. CASE reply' = [reply EXCEPT ![m].status = "pending"]
    <3>1. reply' \in [Requests -> ReplyRow]
      BY <1>2, <2>2 DEF ReplyRow
    <3>2. QED
      BY <1>2, <1>11, <3>1, AutonomyTypePartsNext DEF WithdrawReply, ReplyOnly
  <2>3. QED
    BY <1>11, <2>1, <2>2 DEF WithdrawReply
<1>12. ASSUME NEW m \in Requests, ClaimReply(m) PROVE AutonomyTypeOK'
  <2>1. rated[CaseOf[m]] \in Ratings
    BY <1>2, WhoseItIs
  <2>2. reply' \in [Requests -> ReplyRow]
    BY <1>2, <1>12, <2>1 DEF ClaimReply, ReplyRow
  <2>3. QED
    BY <1>2, <1>12, <2>2, AutonomyTypePartsNext DEF ClaimReply, ReplyOnly
<1>13. ASSUME NEW m \in Requests, RecordReply(m) PROVE AutonomyTypeOK'
  <2>1. reply' \in [Requests -> ReplyRow]
    BY <1>2, <1>13, RowFacts DEF RecordReply
  <2>2. CASE reply[m].saw = "routine"
    <3> DEFINE p == Landlady(m)
    <3>1. p \in RatedProperties
      BY WhoseItIs
    <3>2. /\ trust' = [trust EXCEPT ![p] = Graduated(Credited(trust[p], reply[m].edited), reply[m].edited)]
          /\ ledger' = [ledger EXCEPT ![p] = Append(ledger[p], IF reply[m].edited THEN "edited" ELSE "clean")]
      BY <1>13, <2>2 DEF RecordReply
    <3>3. trust[p] \in TrustRow /\ ledger[p] \in Seq({"clean", "edited"})
      BY <1>2, <3>1
    <3>4. Credited(trust[p], reply[m].edited) \in TrustRow
      BY <3>3 DEF Credited, TrustRow
    <3>5. \A row \in TrustRow : Graduated(row, reply[m].edited) \in TrustRow
      BY DEF Graduated, TrustRow
    <3>6. trust' \in [RatedProperties -> TrustRow]
      BY <1>2, <3>1, <3>2, <3>4, <3>5
    <3>7. ledger' \in [RatedProperties -> Seq({"clean", "edited"})]
      BY <1>2, <3>1, <3>2, <3>3
    <3>8. QED
      BY <1>2, <1>13, <2>1, <3>6, <3>7, AutonomyTypePartsNext DEF RecordReply
  <2>3. CASE reply[m].saw # "routine"
    BY <1>2, <1>13, <2>1, <2>3, AutonomyTypePartsNext DEF RecordReply
  <2>4. QED
    BY <2>2, <2>3
<1>14. ASSUME NEW m \in Requests, SendingFails(m) PROVE AutonomyTypeOK'
  BY <1>2, <1>14, RowFacts, AutonomyTypePartsNext DEF SendingFails, ReplyOnly
<1>15. ASSUME NEW P, Revoke(P) PROVE AutonomyTypeOK'
  <2>1. \A p \in RatedProperties : RevokedRow(trust[p]) \in TrustRow
    BY <1>2 DEF RevokedRow, TrustRow
  <2>2. <<>> \in Seq({"clean", "edited"})
    OBVIOUS
  <2>3. trust' \in [RatedProperties -> TrustRow] /\ ledger' \in [RatedProperties -> Seq({"clean", "edited"})]
    BY <1>2, <1>15, <2>1, <2>2 DEF Revoke
  <2>4. QED
    BY <1>2, <1>15, <2>3, AutonomyTypePartsNext DEF Revoke
<1>16. CASE HoursPass
  BY <1>2, <1>16, AutonomyTypePartsNext DEF HoursPass
<1>17. QED
  BY <1>1, <1>3, <1>4, <1>5, <1>6, <1>7, <1>8, <1>9, <1>10, <1>11, <1>12, <1>13, <1>14, <1>15, <1>16
  DEF AutonomyNext
-----------------------------------------------------------------------------
(* The invariant of the runs.                                              *)

\* Runs begin in the order of their messages.
RunsInOrder == \A m, n \in Requests : n < m /\ request[m].pc # "new" => request[n].pc # "new"

\* While a run holds the lock of its case, nothing later of the case has begun:
\* in particular no second run of the case is on its way.
OneRunPerCase ==
    \A m, n \in Requests :
        request[m].pc \in Held /\ n > m /\ CaseOf[n] = CaseOf[m] => request[n].pc = "new"

\* What has a severity has begun, and a run past the classification has one; so
\* does what was answered.  The newest rated message of a case is no older.
RatedRuns ==
    \A m \in Requests :
        /\ request[m].pc \in {"draft", "route", "auto"} => request[m].severity # "none"
        /\ request[m].pc = "new" => request[m].severity = "none"
        /\ reply[m].status # "none" => request[m].severity # "none"
        /\ request[m].severity # "none" => classified[CaseOf[m]].severity >= m

\* The row a card shows is of a message of the case that was rated.
RatedSources ==
    \A c \in RatedCases : \A m \in Requests :
        classified[c].severity = m => request[m].severity # "none" /\ CaseOf[m] = c

\* A case has one pending draft, and it is that of the run that holds the lock
\* from the draft on.
OnePending ==
    /\ \A m, n \in Requests :
          /\ CaseOf[m] = CaseOf[n]
          /\ reply[m].status = "pending"
          /\ reply[n].status = "pending"
          => m = n
    /\ \A m \in Requests : request[m].pc \in {"route", "auto"} => reply[m].status = "pending"

\* What was decided when a run set out to send by itself still holds.
SetOut ==
    \A m \in Requests : request[m].pc = "auto" =>
        MayAutoSend(m) /\ Cardinality(Counted(CaseOf[m])) < Cap

\* A case that had an emergency is rated one.
AlarmsStand == \A c \in alarmed : rated[c] = "emergency"

\* Together they carry the runs.
RunInv ==
    /\ AutonomyTypeOK
    /\ RunsInOrder
    /\ OneRunPerCase
    /\ RatedRuns
    /\ RatedSources
    /\ OnePending
    /\ SetOut
    /\ AlarmsStand
    /\ CapHeld

\* At first no run has begun.
LEMMA RunInvInit == AutonomyInit => RunInv
<1>1. SUFFICES ASSUME AutonomyInit PROVE RunInv
  OBVIOUS
<1>2. AutonomyTypeOK
  BY <1>1, AutonomyTypesInit
<1>3. \A m \in Requests : request[m].pc = "new" /\ request[m].severity = "none" /\ reply[m].status = "none"
  BY <1>1, RowFacts DEF AutonomyInit
<1>4. \A c \in RatedCases : classified[c].severity = 0
  BY <1>1 DEF AutonomyInit, NoRows
<1>5. \A m \in Requests : m # 0
  BY AutonomyAssumption DEF Requests
<1>6. RunsInOrder /\ OneRunPerCase /\ RatedRuns /\ RatedSources
  BY <1>3, <1>4, <1>5 DEF RunsInOrder, OneRunPerCase, RatedRuns, RatedSources, Held
<1>7. OnePending /\ SetOut /\ AlarmsStand
  BY <1>1, <1>3 DEF OnePending, SetOut, AlarmsStand, AutonomyInit
<1>8. CapHeld
  <2>1. \A c \in RatedCases : {m \in today : CaseOf[m] = c} = {}
    BY <1>1 DEF AutonomyInit
  <2>2. Cardinality({}) = 0 /\ 0 <= Cap
    BY FS_EmptySet, AutonomyAssumption
  <2>3. QED
    BY <2>1, <2>2 DEF CapHeld
<1>9. QED
  BY <1>2, <1>6, <1>7, <1>8 DEF RunInv

\* What a step does to the runs: nothing, or one begins, or one that holds the
\* lock of its case goes on or ends.
LEMMA RunMoves ==
    ASSUME RunInv, [AutonomyNext]_trustVars
    PROVE  \/ request' = request
           \/ \E m \in Requests :
                 /\ request[m].pc = "new" /\ CaseLockFree(m)
                 /\ \A earlier \in 1..(m - 1) : request[earlier].pc # "new"
                 /\ request' = [request EXCEPT ![m].pc = "rate"]
           \/ \E m \in Requests :
                 /\ request[m].pc \in Held
                 /\ \E r \in RequestRow :
                       r.pc \in Held \cup {"done"} /\ request' = [request EXCEPT ![m] = r]
<1>1. request \in [Requests -> RequestRow]
  BY AutonomyTypeParts DEF RunInv
<1>2. request' \in [Requests -> RequestRow]
  BY AutonomyTypesStep, AutonomyTypePartsNext DEF RunInv
<1>3. ASSUME NEW m \in Requests, ClassifyIntent(m)
      PROVE  /\ request[m].pc = "new" /\ CaseLockFree(m)
             /\ \A earlier \in 1..(m - 1) : request[earlier].pc # "new"
             /\ request' = [request EXCEPT ![m].pc = "rate"]
  BY <1>3 DEF ClassifyIntent
<1>4. ASSUME NEW m \in Requests,
             Classify(m) \/ DraftResponse(m) \/ RouteAfterDraft(m) \/ AutoSendDraft(m) \/ RequestDies(m)
      PROVE  /\ request[m].pc \in Held
             /\ \E r \in RequestRow :
                   r.pc \in Held \cup {"done"} /\ request' = [request EXCEPT ![m] = r]
  <2>1. request[m].pc \in Held
    BY <1>4 DEF Classify, DraftResponse, RouteAfterDraft, AutoSendDraft, RequestDies, Held
  <2>2. request' = [request EXCEPT ![m] = request'[m]] /\ request'[m].pc \in Held \cup {"done"}
    <3>1. CASE Classify(m)
      BY <1>1, <3>1 DEF Classify, Held, RequestRow
    <3>2. CASE DraftResponse(m) \/ RouteAfterDraft(m) \/ AutoSendDraft(m) \/ RequestDies(m)
      BY <1>1, <3>2 DEF DraftResponse, RouteAfterDraft, AutoSendDraft, RequestDies, Held, RequestRow
    <3>3. QED
      BY <1>4, <3>1, <3>2
  <2>3. QED
    BY <1>2, <2>1, <2>2
<1>5. ASSUME NEW m \in Requests,
             ApproveReply(m) \/ WithdrawReply(m) \/ ClaimReply(m) \/ RecordReply(m) \/ SendingFails(m)
      PROVE  request' = request
  BY <1>5 DEF ApproveReply, WithdrawReply, ClaimReply, RecordReply, SendingFails, ReplyOnly
<1>6. ASSUME NEW P, Revoke(P) PROVE request' = request
  BY <1>6 DEF Revoke
<1>7. QED
  BY <1>3, <1>4, <1>5, <1>6 DEF AutonomyNext, HoursPass, trustVars

\* Runs go on beginning in order, one at a time on a case: who begins is the
\* first that has not, and its case is free.
LEMMA OneRunStep == RunInv /\ [AutonomyNext]_trustVars => RunsInOrder' /\ OneRunPerCase'
<1>1. SUFFICES ASSUME RunInv, [AutonomyNext]_trustVars PROVE RunsInOrder' /\ OneRunPerCase'
  OBVIOUS
<1>2. /\ request \in [Requests -> RequestRow] /\ RunsInOrder /\ OneRunPerCase
      /\ \A m \in Requests : m \in Nat /\ m >= 1
  BY <1>1, AutonomyTypeParts, AutonomyAssumption DEF RunInv, Requests
<1>3. CASE request' = request
  BY <1>2, <1>3 DEF RunsInOrder, OneRunPerCase
<1>4. ASSUME NEW m \in Requests, request[m].pc = "new", CaseLockFree(m),
             \A earlier \in 1..(m - 1) : request[earlier].pc # "new",
             request' = [request EXCEPT ![m].pc = "rate"]
      PROVE  RunsInOrder' /\ OneRunPerCase'
  <2>1. \A n \in Requests : request'[n].pc = IF n = m THEN "rate" ELSE request[n].pc
    BY <1>2, <1>4 DEF RequestRow
  <2>2. \A n \in Requests : n < m => n \in 1..(m - 1)
    BY <1>2
  <2>3. RunsInOrder'
    BY <1>2, <1>4, <2>1, <2>2 DEF RunsInOrder
  <2>4. \A n \in Requests : n > m => request[n].pc = "new"
    BY <1>2, <1>4 DEF RunsInOrder
  <2>5. \A n \in Requests : CaseOf[n] = CaseOf[m] /\ n # m => request[n].pc \notin Held
    BY <1>4 DEF CaseLockFree, Siblings, Held
  <2>6. OneRunPerCase'
    BY <1>2, <2>1, <2>4, <2>5 DEF OneRunPerCase, Held
  <2>7. QED
    BY <2>3, <2>6
<1>5. ASSUME NEW m \in Requests, request[m].pc \in Held,
             NEW r \in RequestRow, r.pc \in Held \cup {"done"}, request' = [request EXCEPT ![m] = r]
      PROVE  RunsInOrder' /\ OneRunPerCase'
  <2>1. \A n \in Requests : request'[n].pc = IF n = m THEN r.pc ELSE request[n].pc
    BY <1>2, <1>5
  <2>2. request[m].pc # "new" /\ r.pc # "new"
    BY <1>5 DEF Held
  <2>3. RunsInOrder'
    BY <1>2, <2>1, <2>2 DEF RunsInOrder
  <2>4. OneRunPerCase'
    BY <1>2, <1>5, <2>1, <2>2 DEF OneRunPerCase, Held
  <2>5. QED
    BY <2>3, <2>4
<1>6. QED
  BY <1>1, <1>3, <1>4, <1>5, RunMoves

\* Of two runs of a case only one holds the lock.
LEMMA OneHolder ==
    ASSUME RunInv, NEW m \in Requests, NEW n \in Requests,
           request[m].pc \in Held, request[n].pc \in Held, CaseOf[m] = CaseOf[n]
    PROVE  m = n
<1>1. m \in Nat /\ n \in Nat
  BY AutonomyAssumption DEF Requests
<1>2. QED
  BY <1>1 DEF RunInv, OneRunPerCase, Held
-----------------------------------------------------------------------------
(* The landlord and the sender change one draft, which was written before; *)
(* one that is pending only while no run of its case holds the lock; and a *)
(* draft is pending again only when the case has no other.                 *)

DraftStep(m) ==
    \/ ApproveReply(m) \/ WithdrawReply(m)
    \/ ClaimReply(m) \/ RecordReply(m) \/ SendingFails(m)

\* What such a step does.
LEMMA DraftMoves ==
    ASSUME RunInv, NEW m \in Requests, DraftStep(m)
    PROVE  /\ UNCHANGED <<request, rated, today, alarmed, classified>>
           /\ reply[m].status # "none"
           /\ reply[m].status = "pending" => CaseLockFree(m)
           /\ reply'[m].status = "pending" => Waiting(m) = {}
           /\ \A n \in Requests \ {m} : reply'[n] = reply[n]
<1>1. reply \in [Requests -> ReplyRow]
  BY AutonomyTypeParts DEF RunInv
<1>2. Gone.status = "gone"
  BY RowFacts
<1>3. CASE ApproveReply(m)
  BY <1>1, <1>3 DEF ApproveReply, ReplyOnly, ReplyRow
<1>4. CASE WithdrawReply(m)
  BY <1>1, <1>2, <1>4 DEF WithdrawReply, ReplyOnly, ReplyRow
<1>5. CASE ClaimReply(m)
  BY <1>1, <1>5 DEF ClaimReply, ReplyOnly, ReplyRow
<1>6. CASE RecordReply(m)
  BY <1>1, <1>2, <1>6 DEF RecordReply
<1>7. CASE SendingFails(m)
  BY <1>1, <1>2, <1>7 DEF SendingFails, ReplyOnly
<1>8. QED
  BY <1>3, <1>4, <1>5, <1>6, <1>7 DEF DraftStep

\* A step, by what it changes of the runs and the drafts.
LEMMA StepKinds ==
    ASSUME [AutonomyNext]_trustVars
    PROVE  \/ \E m \in Requests : ClassifyIntent(m)
           \/ \E m \in Requests : Classify(m)
           \/ \E m \in Requests : DraftResponse(m)
           \/ \E m \in Requests : RouteAfterDraft(m)
           \/ \E m \in Requests : AutoSendDraft(m)
           \/ \E m \in Requests : RequestDies(m)
           \/ \E m \in Requests : DraftStep(m)
           \/ HoursPass
           \/ UNCHANGED <<request, reply, rated, today, alarmed, classified>>
<1>1. ASSUME NEW P, Revoke(P) PROVE UNCHANGED <<request, reply, rated, today, alarmed, classified>>
  BY <1>1 DEF Revoke
<1>2. QED
  BY <1>1 DEF AutonomyNext, DraftStep, trustVars

\* What DraftResponse leaves of the drafts.
LEMMA DraftWritten ==
    ASSUME RunInv, NEW m \in Requests, DraftResponse(m)
    PROVE  /\ reply'[m].status = "pending"
           /\ \A n \in Requests : CaseOf[n] = CaseOf[m] /\ n # m => reply'[n].status # "pending"
           /\ \A n \in Requests : CaseOf[n] # CaseOf[m] => reply'[n] = reply[n]
           /\ \A n \in Requests : n # m /\ reply'[n].status # "none" => reply[n].status # "none"
<1>1. reply \in [Requests -> ReplyRow] /\ Gone.status = "gone"
  BY AutonomyTypeParts, RowFacts DEF RunInv
<1>2. PICK words \in {Acknowledgment(tries) : tries \in Attempts({"clean"}, Retried)} :
         reply' = [d \in Requests |->
             CASE d = m -> [NoReply EXCEPT !.status = "pending", !.text = words]
               [] d \in Waiting(m) \ {m} -> Gone
               [] d \in Siblings(m) \ {m} /\ reply[d].status = "approved" /\ reply[d].auto -> Gone
               [] OTHER -> reply[d]]
  BY DEF DraftResponse
<1>3. [NoReply EXCEPT !.status = "pending", !.text = words].status = "pending"
  BY DEF NoReply
<1>4. reply'[m] = [NoReply EXCEPT !.status = "pending", !.text = words]
  BY <1>2
<1>5. \A d \in Requests \ {m} : reply'[d] = CASE d \in Waiting(m) \ {m} -> Gone
               [] d \in Siblings(m) \ {m} /\ reply[d].status = "approved" /\ reply[d].auto -> Gone
               [] OTHER -> reply[d]
  BY <1>2
<1>6. \A d \in Requests \ {m} : d \in Waiting(m) => reply'[d] = Gone
  BY <1>5
<1>7. \A d \in Requests \ {m} : d \notin Waiting(m) => 
          reply'[d] = reply[d] \/ (reply'[d] = Gone /\ reply[d].status = "approved")
  BY <1>5
<1>8. \A n \in Requests : CaseOf[n] = CaseOf[m] /\ n # m => reply'[n].status # "pending"
  BY <1>1, <1>6, <1>7 DEF Waiting, Siblings
<1>9. \A n \in Requests : CaseOf[n] # CaseOf[m] => reply'[n] = reply[n]
  BY <1>5 DEF Waiting, Siblings
<1>10. \A n \in Requests : n # m /\ reply'[n].status # "none" => reply[n].status # "none"
  BY <1>1, <1>6, <1>7, <1>9 DEF Waiting, Siblings
<1>11. QED
  BY <1>3, <1>4, <1>8, <1>9, <1>10
-----------------------------------------------------------------------------
(* Ratings, pending drafts, alarms and the cap, step by step.              *)

\* A run that rates its message is of the newest that began on the case, so the
\* row of its rating is the newest too.
LEMMA RatedStep == RunInv /\ [AutonomyNext]_trustVars => RatedRuns' /\ RatedSources'
<1>1. SUFFICES ASSUME RunInv, [AutonomyNext]_trustVars PROVE RatedRuns' /\ RatedSources'
  OBVIOUS
<1>2. /\ request \in [Requests -> RequestRow] /\ reply \in [Requests -> ReplyRow]
      /\ classified \in [RatedCases -> SourceRow] /\ RatedRuns /\ RatedSources
  BY <1>1, AutonomyTypeParts DEF RunInv
<1>3. \A m \in Requests : CaseOf[m] \in RatedCases /\ m \in Nat
  BY WhoseItIs
<1>4. CASE UNCHANGED <<request, reply, rated, today, alarmed, classified>>
  BY <1>2, <1>4 DEF RatedRuns, RatedSources
<1>5. CASE HoursPass
  BY <1>2, <1>5 DEF RatedRuns, RatedSources, HoursPass
<1>6. ASSUME NEW m \in Requests, DraftStep(m) PROVE RatedRuns' /\ RatedSources'
  <2>1. /\ UNCHANGED <<request, classified>> /\ reply[m].status # "none"
        /\ \A n \in Requests \ {m} : reply'[n] = reply[n]
    BY <1>1, <1>6, DraftMoves
  <2>2. QED
    BY <1>2, <2>1 DEF RatedRuns, RatedSources
<1>7. ASSUME NEW m \in Requests, ClassifyIntent(m) PROVE RatedRuns' /\ RatedSources'
  <2>1. /\ request[m].pc = "new" /\ reply' = reply
        /\ \A n \in Requests : /\ request'[n].severity = request[n].severity
                               /\ request'[n].pc = IF n = m THEN "rate" ELSE request[n].pc
    BY <1>2, <1>7 DEF ClassifyIntent, RequestRow
  <2>2. \A c \in RatedCases : classified'[c].severity = classified[c].severity
    BY <1>2, <1>3, <1>7 DEF ClassifyIntent, SourceRow
  <2>3. QED
    BY <1>2, <1>3, <2>1, <2>2 DEF RatedRuns, RatedSources
<1>8. ASSUME NEW m \in Requests, Classify(m) PROVE RatedRuns' /\ RatedSources'
  <2>1. PICK answer \in {Outcome(tries) : tries \in Attempts(Severities, {"error"})} :
          LET severity == Clamp(request[m].hard, answer) IN
          IF answer = "error"
          THEN /\ request' = [request EXCEPT ![m].pc = "done"]
               /\ UNCHANGED <<rated, alarmed, classified>>
          ELSE /\ request' = [request EXCEPT ![m].pc = "draft", ![m].severity = severity]
               /\ Recorded(m, severity)
               /\ alarmed' = IF severity = "emergency" \/ request[m].hard
                             THEN alarmed \cup {CaseOf[m]} ELSE alarmed
    BY <1>8 DEF Classify
  <2>2. reply' = reply /\ request[m].pc = "rate"
    BY <1>8 DEF Classify
  <2>3. CASE answer = "error"
    <3>1. /\ \A n \in Requests : /\ request'[n].severity = request[n].severity
                                 /\ request'[n].pc = IF n = m THEN "done" ELSE request[n].pc
          /\ classified' = classified
      BY <1>2, <2>1, <2>3 DEF RequestRow
    <3>2. QED
      BY <1>2, <2>2, <3>1 DEF RatedRuns, RatedSources
  <2>4. CASE answer # "error"
    <3>1. answer \in Severities /\ request[m].hard \in BOOLEAN
      BY <1>2, <2>4, OutcomeIs DEF RequestRow
    <3>2. Clamp(request[m].hard, answer) # "none"
      BY <3>1 DEF Clamp, Severities
    <3>3. /\ \A n \in Requests \ {m} : request'[n] = request[n]
          /\ request'[m].pc = "draft" /\ request'[m].severity # "none"
      BY <1>2, <2>1, <2>4, <3>2 DEF RequestRow
    <3>4. /\ classified'[CaseOf[m]].severity = m
          /\ \A c \in RatedCases \ {CaseOf[m]} : classified'[c] = classified[c]
      BY <1>2, <1>3, <2>1, <2>4 DEF Recorded
    <3>5. \A n \in Requests : CaseOf[n] = CaseOf[m] /\ n > m => request[n].pc = "new"
      BY <1>1, <2>2 DEF RunInv, OneRunPerCase, Held
    <3>6. \A n \in Requests : CaseOf[n] = CaseOf[m] /\ request[n].severity # "none" => m >= n
      BY <1>2, <1>3, <3>5 DEF RatedRuns
    <3>7. RatedRuns'
      BY <1>2, <1>3, <2>2, <3>3, <3>4, <3>6 DEF RatedRuns
    <3>8. RatedSources'
      BY <1>2, <1>3, <3>3, <3>4 DEF RatedSources
    <3>9. QED
      BY <3>7, <3>8
  <2>5. QED
    BY <2>3, <2>4
<1>9. ASSUME NEW m \in Requests, DraftResponse(m) PROVE RatedRuns' /\ RatedSources'
  <2>1. /\ request[m].pc = "draft" /\ classified' = classified
        /\ \A n \in Requests : /\ request'[n].severity = request[n].severity
                               /\ request'[n].pc = IF n = m THEN "route" ELSE request[n].pc
    BY <1>2, <1>9 DEF DraftResponse, RequestRow
  <2>2. \A n \in Requests : n # m /\ reply'[n].status # "none" => reply[n].status # "none"
    BY <1>1, <1>9, DraftWritten
  <2>3. QED
    BY <1>2, <2>1, <2>2 DEF RatedRuns, RatedSources
<1>10. ASSUME NEW m \in Requests, RouteAfterDraft(m) PROVE RatedRuns' /\ RatedSources'
  <2>1. /\ request[m].pc = "route" /\ UNCHANGED <<classified, reply>>
        /\ \A n \in Requests : /\ request'[n].severity = request[n].severity
                               /\ n # m => request'[n].pc = request[n].pc
        /\ request'[m].pc \in {"auto", "done"}
    BY <1>2, <1>10 DEF RouteAfterDraft, RequestRow
  <2>2. QED
    BY <1>2, <2>1 DEF RatedRuns, RatedSources
<1>11. ASSUME NEW m \in Requests, AutoSendDraft(m) PROVE RatedRuns' /\ RatedSources'
  <2>1. /\ request[m].pc = "auto" /\ UNCHANGED classified
        /\ \A n \in Requests : /\ request'[n].severity = request[n].severity
                               /\ n # m => request'[n].pc = request[n].pc
        /\ request'[m].pc = "done"
    BY <1>2, <1>11 DEF AutoSendDraft, RequestRow
  <2>2. \A n \in Requests : reply'[n].status # "none" => reply[n].status # "none"
    <3>1. CASE Waiting(m) # {} /\ StillEarned(m)
      <4>1. PICK d \in Waiting(m) :
              /\ reply' = [reply EXCEPT ![d].status = "approved", ![d].auto = TRUE,
                                        ![d].edited = FALSE]
              /\ today' = today \cup {d}
        BY <1>11, <3>1 DEF AutoSendDraft
      <4>2. d \in Requests /\ reply[d].status = "pending"
        BY DEF Waiting, Siblings
      <4>3. QED
        BY <1>2, <4>1, <4>2
    <3>2. CASE ~(Waiting(m) # {} /\ StillEarned(m))
      BY <1>11, <3>2 DEF AutoSendDraft
    <3>3. QED
      BY <3>1, <3>2
  <2>3. QED
    BY <1>2, <2>1, <2>2 DEF RatedRuns, RatedSources
<1>12. ASSUME NEW m \in Requests, RequestDies(m) PROVE RatedRuns' /\ RatedSources'
  <2>1. /\ UNCHANGED <<classified, reply>>
        /\ request[m].pc # "new"
        /\ \A n \in Requests : /\ request'[n].severity = request[n].severity
                               /\ n # m => request'[n].pc = request[n].pc
        /\ request'[m].pc = "done"
    BY <1>2, <1>12 DEF RequestDies, RequestRow
  <2>2. QED
    BY <1>2, <2>1 DEF RatedRuns, RatedSources
<1>13. QED
  BY <1>1, <1>4, <1>5, <1>6, <1>7, <1>8, <1>9, <1>10, <1>11, <1>12, StepKinds

\* The draft that a run sends by itself is its own.
LEMMA OwnDraft ==
    ASSUME RunInv, NEW m \in Requests, request[m].pc \in {"route", "auto"}
    PROVE  Waiting(m) = {m}
<1>1. \A n \in Requests : CaseOf[n] = CaseOf[m] /\ reply[n].status = "pending" => n = m
  BY DEF RunInv, OnePending
<1>2. reply[m].status = "pending"
  BY DEF RunInv, OnePending
<1>3. QED
  BY <1>1, <1>2 DEF Waiting, Siblings

\* What an unattended send does: it approves the draft of its own run, if that is
\* still earned.
LEMMA AutoSends ==
    ASSUME RunInv, NEW m \in Requests, AutoSendDraft(m)
    PROVE  /\ \A n \in Requests \ {m} : reply'[n] = reply[n] /\ request'[n] = request[n]
           /\ request[m].pc = "auto" /\ request'[m].pc = "done"
           /\ UNCHANGED <<rated, alarmed, classified>>
           /\ \/ today' = today /\ reply' = reply
              \/ /\ today' = today \cup {m} /\ StillEarned(m)
                 /\ reply'[m].status = "approved"
<1>1. request \in [Requests -> RequestRow] /\ reply \in [Requests -> ReplyRow]
  BY AutonomyTypeParts DEF RunInv
<1>2. /\ request[m].pc = "auto" /\ request'[m].pc = "done"
      /\ \A n \in Requests \ {m} : request'[n] = request[n]
      /\ UNCHANGED <<rated, alarmed, classified>>
  BY <1>1 DEF AutoSendDraft, RequestRow
<1>3. Waiting(m) = {m}
  BY <1>2, OwnDraft
<1>4. CASE StillEarned(m)
  <2>1. /\ reply' = [reply EXCEPT ![m].status = "approved", ![m].auto = TRUE, ![m].edited = FALSE]
        /\ today' = today \cup {m}
    BY <1>3, <1>4 DEF AutoSendDraft
  <2>2. (\A n \in Requests \ {m} : reply'[n] = reply[n]) /\ reply'[m].status = "approved"
    BY <1>1, <2>1 DEF ReplyRow
  <2>3. QED
    BY <1>2, <1>4, <2>1, <2>2
<1>5. CASE ~StillEarned(m)
  BY <1>2, <1>5 DEF AutoSendDraft
<1>6. QED
  BY <1>4, <1>5

\* A draft leaves or becomes the pending one of its case alone.
LEMMA OnePendingStep == RunInv /\ [AutonomyNext]_trustVars => OnePending'
<1>1. SUFFICES ASSUME RunInv, [AutonomyNext]_trustVars PROVE OnePending'
  OBVIOUS
<1>2. /\ request \in [Requests -> RequestRow] /\ reply \in [Requests -> ReplyRow] /\ OnePending
  BY <1>1, AutonomyTypeParts DEF RunInv
<1>3. CASE UNCHANGED <<request, reply, rated, today, alarmed, classified>>
  BY <1>2, <1>3 DEF OnePending
<1>4. CASE HoursPass
  BY <1>2, <1>4 DEF OnePending, HoursPass
<1>5. ASSUME NEW m \in Requests, ClassifyIntent(m) PROVE OnePending'
  <2>1. reply' = reply /\ \A n \in Requests : request'[n].pc = IF n = m THEN "rate" ELSE request[n].pc
    BY <1>2, <1>5 DEF ClassifyIntent, RequestRow
  <2>2. QED
    BY <1>2, <2>1 DEF OnePending
<1>6. ASSUME NEW m \in Requests, Classify(m) PROVE OnePending'
  <2>1. /\ reply' = reply
        /\ \A n \in Requests : request'[n].pc = request[n].pc \/ request'[n].pc \in {"draft", "done"}
    BY <1>2, <1>6 DEF Classify, RequestRow
  <2>2. QED
    BY <1>2, <2>1 DEF OnePending
<1>7. ASSUME NEW m \in Requests, DraftResponse(m) PROVE OnePending'
  <2>1. /\ reply'[m].status = "pending"
        /\ \A n \in Requests : CaseOf[n] = CaseOf[m] /\ n # m => reply'[n].status # "pending"
        /\ \A n \in Requests : CaseOf[n] # CaseOf[m] => reply'[n] = reply[n]
    BY <1>1, <1>7, DraftWritten
  <2>2. request[m].pc = "draft" /\ \A n \in Requests \ {m} : request'[n] = request[n]
    BY <1>2, <1>7 DEF DraftResponse
  <2>3. \A n \in Requests \ {m} : request[n].pc \in {"route", "auto"} => CaseOf[n] # CaseOf[m]
    BY <1>1, <2>2, OneHolder DEF Held
  <2>4. QED
    BY <1>2, <2>1, <2>2, <2>3 DEF OnePending
<1>8. ASSUME NEW m \in Requests, RouteAfterDraft(m) PROVE OnePending'
  <2>1. reply' = reply /\ request[m].pc = "route" /\ \A n \in Requests \ {m} : request'[n] = request[n]
    BY <1>2, <1>8 DEF RouteAfterDraft
  <2>2. QED
    BY <1>2, <2>1 DEF OnePending
<1>9. ASSUME NEW m \in Requests, AutoSendDraft(m) PROVE OnePending'
  BY <1>1, <1>2, <1>9, AutoSends DEF OnePending
<1>10. ASSUME NEW m \in Requests, RequestDies(m) PROVE OnePending'
  <2>1. reply' = reply /\ request'[m].pc = "done" /\ \A n \in Requests \ {m} : request'[n] = request[n]
    BY <1>2, <1>10 DEF RequestDies, RequestRow
  <2>2. QED
    BY <1>2, <2>1 DEF OnePending
<1>11. ASSUME NEW m \in Requests, DraftStep(m) PROVE OnePending'
  <2>1. /\ request' = request
        /\ reply[m].status = "pending" => CaseLockFree(m)
        /\ reply'[m].status = "pending" => Waiting(m) = {}
        /\ \A n \in Requests \ {m} : reply'[n] = reply[n]
    BY <1>1, <1>11, DraftMoves
  <2>2. request[m].pc \in {"route", "auto"} => reply[m].status # "pending"
    BY <2>1 DEF CaseLockFree, Siblings
  <2>3. request[m].pc \notin {"route", "auto"}
    BY <1>2, <2>2 DEF OnePending
  <2>4. reply'[m].status = "pending" =>
            \A n \in Requests \ {m} : CaseOf[n] = CaseOf[m] => reply'[n].status # "pending"
    BY <2>1 DEF Waiting, Siblings
  <2>5. QED
    BY <1>2, <2>1, <2>3, <2>4 DEF OnePending
<1>12. QED
  BY <1>1, <1>3, <1>4, <1>5, <1>6, <1>7, <1>8, <1>9, <1>10, <1>11, StepKinds

\* A set of messages is finite, and counting fewer gives no more.
LEMMA CountingMessages ==
    ASSUME NEW S, NEW T, S \subseteq T, T \subseteq Requests
    PROVE  /\ IsFiniteSet(S) /\ Cardinality(S) \in Nat /\ Cardinality(T) \in Nat
           /\ Cardinality(S) <= Cardinality(T)
<1>1. IsFiniteSet(Requests)
  BY FS_Interval, AutonomyAssumption DEF Requests
<1>2. IsFiniteSet(T)
  BY <1>1, FS_Subset
<1>3. IsFiniteSet(S) /\ Cardinality(S) <= Cardinality(T)
  BY <1>2, FS_Subset
<1>4. QED
  BY <1>2, <1>3, FS_CardinalityType

\* The message that alarms a case rates it an emergency, and no later rating
\* takes that back.
LEMMA AlarmsStep == RunInv /\ [AutonomyNext]_trustVars => AlarmsStand'
<1>1. SUFFICES ASSUME RunInv, [AutonomyNext]_trustVars PROVE AlarmsStand'
  OBVIOUS
<1>2. /\ request \in [Requests -> RequestRow] /\ rated \in [RatedCases -> Ratings]
      /\ alarmed \subseteq RatedCases /\ AlarmsStand
  BY <1>1, AutonomyTypeParts DEF RunInv
<1>3. ASSUME NEW m \in Requests, Classify(m) PROVE AlarmsStand'
  <2>1. PICK answer \in {Outcome(tries) : tries \in Attempts(Severities, {"error"})} :
          LET severity == Clamp(request[m].hard, answer) IN
          IF answer = "error"
          THEN /\ request' = [request EXCEPT ![m].pc = "done"]
               /\ UNCHANGED <<rated, alarmed, classified>>
          ELSE /\ request' = [request EXCEPT ![m].pc = "draft", ![m].severity = severity]
               /\ Recorded(m, severity)
               /\ alarmed' = IF severity = "emergency" \/ request[m].hard
                             THEN alarmed \cup {CaseOf[m]} ELSE alarmed
    BY <1>3 DEF Classify
  <2>2. CASE answer = "error"
    BY <1>2, <2>1, <2>2 DEF AlarmsStand
  <2>3. CASE answer # "error"
    <3> DEFINE severity == Clamp(request[m].hard, answer)
    <3>1. /\ rated' = [rated EXCEPT ![CaseOf[m]] = Rate(rated[CaseOf[m]], severity)]
          /\ alarmed' = IF severity = "emergency" \/ request[m].hard
                        THEN alarmed \cup {CaseOf[m]} ELSE alarmed
      BY <2>1, <2>3 DEF Recorded
    <3>2. request[m].hard => severity = "emergency"
      BY DEF Clamp
    <3>3. severity = "emergency" => Rate(rated[CaseOf[m]], severity) = "emergency"
      BY DEF Rate
    <3>4. rated[CaseOf[m]] = "emergency" => Rate(rated[CaseOf[m]], severity) = "emergency"
      BY DEF Rate
    <3>5. CaseOf[m] \in RatedCases
      BY WhoseItIs
    <3> HIDE DEF severity
    <3>6. rated'[CaseOf[m]] = Rate(rated[CaseOf[m]], severity)
      BY <1>2, <3>1, <3>5
    <3>7. \A c \in RatedCases \ {CaseOf[m]} : rated'[c] = rated[c]
      BY <1>2, <3>1
    <3>8. /\ alarmed' \subseteq alarmed \cup {CaseOf[m]}
          /\ CaseOf[m] \in alarmed' => severity = "emergency" \/ CaseOf[m] \in alarmed
      BY <3>1, <3>2
    <3>9. CaseOf[m] \in alarmed' => rated'[CaseOf[m]] = "emergency"
      BY <1>2, <3>3, <3>4, <3>6, <3>8 DEF AlarmsStand
    <3>10. QED
      BY <1>2, <3>7, <3>8, <3>9 DEF AlarmsStand
  <2>4. QED
    BY <2>2, <2>3
<1>4. ASSUME NEW m \in Requests, DraftStep(m) PROVE AlarmsStand'
  BY <1>1, <1>2, <1>4, DraftMoves DEF AlarmsStand
<1>5. ASSUME NEW m \in Requests,
             \/ ClassifyIntent(m) \/ DraftResponse(m)
             \/ RouteAfterDraft(m) \/ AutoSendDraft(m) \/ RequestDies(m)
      PROVE  AlarmsStand'
  BY <1>2, <1>5 DEF AlarmsStand, ClassifyIntent, DraftResponse, RouteAfterDraft, AutoSendDraft, RequestDies
<1>6. CASE HoursPass \/ UNCHANGED <<request, reply, rated, today, alarmed, classified>>
  BY <1>2, <1>6 DEF AlarmsStand, HoursPass
<1>7. QED
  BY <1>1, <1>3, <1>4, <1>5, <1>6, StepKinds

\* The cap as what is counted.
LEMMA CapCounted == CapHeld <=> \A c \in RatedCases : Cardinality(Counted(c)) <= Cap
BY DEF CapHeld, Counted
\* The same of the next state.
LEMMA CapCountedNext == CapHeld' <=> \A c \in RatedCases : Cardinality(Counted(c)') <= Cap
BY DEF CapHeld, Counted

\* Only the run that holds the lock of a case adds to what is counted of it.
LEMMA CapStep == RunInv /\ [AutonomyNext]_trustVars => SetOut' /\ CapHeld'
<1>1. SUFFICES ASSUME RunInv, [AutonomyNext]_trustVars PROVE SetOut' /\ CapHeld'
  OBVIOUS
<1>2. /\ request \in [Requests -> RequestRow] /\ reply \in [Requests -> ReplyRow]
      /\ today \subseteq Requests /\ SetOut
      /\ \A c \in RatedCases : Cardinality(Counted(c)) <= Cap
      /\ today' \subseteq Requests /\ Cap \in Nat
      /\ \A m \in Requests : CaseOf[m] \in RatedCases
  BY <1>1, AutonomyTypeParts, AutonomyTypesStep, AutonomyTypePartsNext, CapCounted,
     AutonomyAssumption, WhoseItIs DEF RunInv
\* Where nothing more is counted, and the runs that set out keep their drafts.
<1>3. ASSUME today' \subseteq today,
             \A m \in Requests : request'[m].pc = "auto" =>
                 /\ reply'[m].text = "own" /\ request'[m].severity = "routine"
                 /\ Cardinality(Counted(CaseOf[m])) < Cap
      PROVE  SetOut' /\ CapHeld'
  <2>1. \A c \in RatedCases : Counted(c)' \subseteq Counted(c) /\ Counted(c) \subseteq Requests
    BY <1>2, <1>3 DEF Counted
  <2>2. \A c \in RatedCases : /\ Cardinality(Counted(c)') <= Cardinality(Counted(c))
                              /\ Cardinality(Counted(c)') \in Nat /\ Cardinality(Counted(c)) \in Nat
    <3> SUFFICES ASSUME NEW c \in RatedCases
                 PROVE  /\ Cardinality(Counted(c)') <= Cardinality(Counted(c))
                        /\ Cardinality(Counted(c)') \in Nat /\ Cardinality(Counted(c)) \in Nat
      OBVIOUS
    <3> DEFINE S == Counted(c)'
               T == Counted(c)
    <3>1. S \subseteq T /\ T \subseteq Requests
      BY <2>1
    <3> HIDE DEF S, T
    <3>2. Cardinality(S) <= Cardinality(T) /\ Cardinality(S) \in Nat /\ Cardinality(T) \in Nat
      BY <3>1, CountingMessages
    <3>3. QED
      BY <3>2 DEF S, T
  <2>3. CapHeld'
    BY <1>2, <2>2, CapCountedNext
  <2>4. \A m \in Requests : request'[m].pc = "auto" => Cardinality(Counted(CaseOf[m])') < Cap
    BY <1>2, <1>3, <2>2
  <2>5. SetOut'
    BY <1>3, <2>4 DEF SetOut, MayAutoSend, Counted
  <2>6. QED
    BY <2>3, <2>5
<1>4. CASE UNCHANGED <<request, reply, rated, today, alarmed, classified>>
  BY <1>2, <1>3, <1>4 DEF SetOut, MayAutoSend
<1>5. CASE HoursPass
  BY <1>2, <1>3, <1>5 DEF SetOut, MayAutoSend, HoursPass
<1>6. ASSUME NEW m \in Requests, ClassifyIntent(m) PROVE SetOut' /\ CapHeld'
  <2>1. /\ today' = today /\ reply' = reply /\ request'[m].pc = "rate"
        /\ \A n \in Requests \ {m} : request'[n] = request[n]
    BY <1>2, <1>6 DEF ClassifyIntent, RequestRow
  <2>2. QED
    BY <1>2, <1>3, <2>1 DEF SetOut, MayAutoSend
<1>7. ASSUME NEW m \in Requests, Classify(m) PROVE SetOut' /\ CapHeld'
  <2>1. /\ today' = today /\ reply' = reply /\ request'[m].pc # "auto"
        /\ \A n \in Requests \ {m} : request'[n] = request[n]
    BY <1>2, <1>7 DEF Classify, RequestRow
  <2>2. QED
    BY <1>2, <1>3, <2>1 DEF SetOut, MayAutoSend
<1>8. ASSUME NEW m \in Requests, DraftResponse(m) PROVE SetOut' /\ CapHeld'
  <2>1. /\ today' = today /\ request[m].pc = "draft" /\ request'[m].pc = "route"
        /\ \A n \in Requests \ {m} : request'[n] = request[n]
    BY <1>2, <1>8 DEF DraftResponse, RequestRow
  <2>2. \A n \in Requests : CaseOf[n] # CaseOf[m] => reply'[n] = reply[n]
    BY <1>1, <1>8, DraftWritten
  <2>3. \A n \in Requests \ {m} : request[n].pc = "auto" => CaseOf[n] # CaseOf[m]
    BY <1>1, <2>1, OneHolder DEF Held
  <2>4. QED
    BY <1>2, <1>3, <2>1, <2>2, <2>3 DEF SetOut, MayAutoSend
<1>9. ASSUME NEW m \in Requests, RouteAfterDraft(m) PROVE SetOut' /\ CapHeld'
  <2>1. /\ today' = today /\ reply' = reply
        /\ \A n \in Requests \ {m} : request'[n] = request[n]
        /\ request'[m].severity = request[m].severity
        /\ request'[m].pc = "auto" => MayAutoSend(m) /\ Cardinality(Counted(CaseOf[m])) < Cap
    BY <1>2, <1>9 DEF RouteAfterDraft, RequestRow
  <2>2. QED
    BY <1>2, <1>3, <2>1 DEF SetOut, MayAutoSend
<1>10. ASSUME NEW m \in Requests, RequestDies(m) PROVE SetOut' /\ CapHeld'
  <2>1. /\ today' = today /\ reply' = reply /\ request'[m].pc = "done"
        /\ \A n \in Requests \ {m} : request'[n] = request[n]
    BY <1>2, <1>10 DEF RequestDies, RequestRow
  <2>2. QED
    BY <1>2, <1>3, <2>1 DEF SetOut, MayAutoSend
<1>11. ASSUME NEW m \in Requests, DraftStep(m) PROVE SetOut' /\ CapHeld'
  <2>1. /\ request' = request /\ today' = today
        /\ reply[m].status = "pending" => CaseLockFree(m)
        /\ \A n \in Requests \ {m} : reply'[n] = reply[n]
    BY <1>1, <1>11, DraftMoves
  <2>2. request[m].pc # "auto"
    BY <1>1, <2>1 DEF CaseLockFree, Siblings, RunInv, OnePending
  <2>3. QED
    BY <1>2, <1>3, <2>1, <2>2 DEF SetOut, MayAutoSend
<1>12. ASSUME NEW m \in Requests, AutoSendDraft(m) PROVE SetOut' /\ CapHeld'
  <2>1. /\ \A n \in Requests \ {m} : reply'[n] = reply[n] /\ request'[n] = request[n]
        /\ request[m].pc = "auto" /\ request'[m].pc = "done"
        /\ today' = today \/ today' = today \cup {m}
    BY <1>1, <1>12, AutoSends
  <2>2. CASE today' = today
    BY <1>2, <1>3, <2>1, <2>2 DEF SetOut, MayAutoSend
  <2>3. CASE today' = today \cup {m}
    <3>1. \A n \in Requests \ {m} : request[n].pc = "auto" => CaseOf[n] # CaseOf[m]
      BY <1>1, <2>1, OneHolder DEF Held
    <3>2. \A c \in RatedCases : c # CaseOf[m] => Counted(c)' = Counted(c)
      BY <2>3 DEF Counted
    <3>3. SetOut'
      <4>1. ASSUME NEW n \in Requests, request'[n].pc = "auto"
            PROVE  /\ reply'[n].text = "own" /\ request'[n].severity = "routine"
                   /\ Cardinality(Counted(CaseOf[n])') < Cap
        <5>1. n # m /\ CaseOf[n] # CaseOf[m] /\ request[n].pc = "auto"
          BY <2>1, <3>1, <4>1
        <5>2. Counted(CaseOf[n])' = Counted(CaseOf[n])
          BY <1>2, <3>2, <5>1
        <5>3. QED
          BY <1>2, <2>1, <5>1, <5>2 DEF SetOut, MayAutoSend
      <4>2. QED
        BY <4>1 DEF SetOut, MayAutoSend, Counted
    <3>4. Cardinality(Counted(CaseOf[m])') <= Cap
      <4> DEFINE S == Counted(CaseOf[m])
      <4>1. Counted(CaseOf[m])' = S \cup {m}
        BY <2>3 DEF Counted
      <4>2. S \subseteq Requests /\ Cardinality(S) < Cap
        BY <1>2, <2>1 DEF Counted, SetOut
      <4> HIDE DEF S
      <4>3. IsFiniteSet(S) /\ Cardinality(S) \in Nat
        BY <4>2, CountingMessages
      <4>4. Cardinality(S \cup {m}) = IF m \in S THEN Cardinality(S) ELSE Cardinality(S) + 1
        BY <4>3, FS_AddElement
      <4>5. Cardinality(S \cup {m}) <= Cap
        BY <1>2, <4>2, <4>3, <4>4
      <4>6. QED
        BY <4>1, <4>5
    <3>5. \A c \in RatedCases : Cardinality(Counted(c)') <= Cap
      BY <1>2, <3>2, <3>4
    <3>6. QED
      BY <3>3, <3>5, CapCountedNext
  <2>4. QED
    BY <2>1, <2>2, <2>3
<1>13. QED
  BY <1>1, <1>4, <1>5, <1>6, <1>7, <1>8, <1>9, <1>10, <1>11, <1>12, StepKinds

\* Each part is kept,
LEMMA RunInvStep == RunInv /\ [AutonomyNext]_trustVars => RunInv'
BY AutonomyTypesStep, OneRunStep, RatedStep, OnePendingStep, CapStep, AlarmsStep DEF RunInv

\* and so the invariant holds throughout.
LEMMA RunsKept == AutonomySpec => []RunInv
BY RunInvInit, RunInvStep, PTL DEF AutonomySpec

\* Every variable keeps its type.
THEOREM AutonomyTypesKept == AutonomySpec => []AutonomyTypeOK
<1>1. RunInv => AutonomyTypeOK
  BY DEF RunInv
<1>2. QED
  BY <1>1, RunsKept, PTL

\* No case gets more than its cap of unattended replies in 24 hours, for any
\* number of messages, decisions, undos and sends in any order: the count that
\* _route_after_draft_response reads (auto_sent_count_last_24h) is still below
\* the cap when _AUTO_SEND_DRAFT_SQL runs, because the case lock is held between.
THEOREM CapIsHeld == AutonomySpec => []CapHeld
<1>1. RunInv => CapHeld
  BY DEF RunInv
<1>2. QED
  BY <1>1, RunsKept, PTL

\* Who is approved without the landlord: the message of the run that set out to,
\* on a case and a property that still are what they have to be.
LEMMA WhoIsApproved ==
    ASSUME RunInv, AutonomyNext, NEW n \in AutoApproved
    PROVE  \E m \in Requests : n = m /\ request[m].pc = "auto" /\ StillEarned(m)
<1>1. today' # today /\ ~(today' \subseteq today)
  BY DEF AutoApproved
<1>2. ASSUME NEW m \in Requests, DraftStep(m) PROVE today' = today
  BY <1>2, DraftMoves
<1>3. ASSUME NEW m \in Requests,
             ClassifyIntent(m) \/ Classify(m) \/ DraftResponse(m) \/ RouteAfterDraft(m) \/ RequestDies(m)
      PROVE  today' = today
  BY <1>3 DEF ClassifyIntent, Classify, DraftResponse, RouteAfterDraft, RequestDies
<1>4. HoursPass => today' \subseteq today
  BY DEF HoursPass
<1>5. PICK m \in Requests : AutoSendDraft(m)
  BY <1>1, <1>2, <1>3, <1>4, StepKinds
<1>6. n = m /\ request[m].pc = "auto" /\ StillEarned(m)
  BY <1>5, AutoSends DEF AutoApproved
<1>7. QED
  BY <1>6

\* From what the run decided when it set out, and from what the send reads again.
LEMMA RoutineStep ==
    RunInv /\ [AutonomyNext]_trustVars =>
        [\A m \in AutoApproved :
          /\ request[m].severity = "routine"
          /\ reply[m].text = "own"
          /\ CaseOf[m] \notin alarmed]_trustVars
<1>1. SUFFICES ASSUME RunInv, AutonomyNext, NEW n \in AutoApproved
               PROVE  request[n].severity = "routine" /\ reply[n].text = "own" /\ CaseOf[n] \notin alarmed
  BY DEF trustVars
<1>2. PICK m \in Requests : n = m /\ request[m].pc = "auto" /\ StillEarned(m)
  BY <1>1, WhoIsApproved
<1>3. MayAutoSend(m)
  BY <1>1, <1>2 DEF RunInv, SetOut
<1>4. CaseOf[m] \notin alarmed
  BY <1>1, <1>2 DEF StillEarned, RunInv, AlarmsStand
<1>5. QED
  BY <1>2, <1>3, <1>4 DEF MayAutoSend

\* What goes out unattended (nodes/auto_send.py) answers a message rated routine,
\* in words that passed the guards, on a case that was never an emergency, for
\* any number of messages on the case.
THEOREM AutoIsRoutine == AutonomySpec => AutoMeansRoutine
BY RunsKept, RoutineStep, PTL DEF AutonomySpec, AutoMeansRoutine

\* A card of the queue (routers/queue.py) shows the rating of the newest message
\* of its case that has one, and never none, for any number of messages and cases.
THEOREM CardsShowNewest == AutonomySpec => []CardShowsNewest
<1>1. RunInv => CardShowsNewest
  <2>1. SUFFICES ASSUME RunInv, NEW m \in Requests, Carded(m)
                 PROVE  LET shown == CardSource(CaseOf[m]) IN
                        /\ shown \in Siblings(m) /\ request[shown].severity # "none"
                        /\ \A n \in Siblings(m) : request[n].severity # "none" => n <= shown
    BY DEF CardShowsNewest
  <2> DEFINE shown == classified[CaseOf[m]].severity
  <2>2. /\ classified \in [RatedCases -> SourceRow] /\ RatedRuns /\ RatedSources
        /\ CaseOf[m] \in RatedCases
    BY <2>1, AutonomyTypeParts, WhoseItIs DEF RunInv
  <2>3. shown >= m
    BY <2>1, <2>2 DEF Carded, RatedRuns
  <2>4. shown \in Requests
    BY <2>2, <2>3, AutonomyAssumption DEF SourceRow, Requests
  <2>5. request[shown].severity # "none" /\ shown \in Siblings(m)
    BY <2>2, <2>4 DEF RatedSources, Siblings
  <2>6. \A n \in Siblings(m) : request[n].severity # "none" => n <= shown
    BY <2>2, <2>4 DEF RatedRuns, Siblings, Requests
  <2>7. QED
    BY <2>5, <2>6 DEF CardSource
<1>2. QED
  BY <1>1, RunsKept, PTL

Sends == Seq({"clean", "edited"})
\* The last k of the sends were left as they were.
EndsClean(sends, k) ==
    k <= Len(sends) /\ \A i \in 1..Len(sends) : i > Len(sends) - k => sends[i] = "clean"
\* Threshold of them in a row were.
Earned(sends) ==
    \E first \in 1..Len(sends) :
        /\ first + Threshold - 1 <= Len(sends)
        /\ \A i \in first..(first + Threshold - 1) : sends[i] = "clean"

\* The streak is no more than what the ledger shows, and autonomy was earned
\* within it.
LadderInv ==
    \A p \in RatedProperties :
        /\ EndsClean(ledger[p], trust[p].streak)
        /\ trust[p].unlocked => Earned(ledger[p])

\* A streak of Threshold earns autonomy,
LEMMA EarnedBy ==
    ASSUME NEW sends \in Sends, NEW k \in Nat, k >= Threshold, EndsClean(sends, k)
    PROVE  Earned(sends)
<1>1. Threshold \in Nat /\ Threshold > 0 /\ Len(sends) \in Nat /\ k <= Len(sends)
  BY AutonomyAssumption DEF Sends, EndsClean
<1> DEFINE first == Len(sends) - Threshold + 1
<1>2. first \in 1..Len(sends) /\ first + Threshold - 1 <= Len(sends)
  BY <1>1
<1>3. \A i \in first..(first + Threshold - 1) : i \in 1..Len(sends) /\ i > Len(sends) - k
  BY <1>1
<1>4. \A i \in first..(first + Threshold - 1) : sends[i] = "clean"
  BY <1>3 DEF EndsClean
<1>5. QED
  BY <1>2, <1>4 DEF Earned

\* which later sends do not take away.
LEMMA EarnedStays ==
    ASSUME NEW sends \in Sends, NEW send \in {"clean", "edited"}, Earned(sends)
    PROVE  Earned(Append(sends, send))
<1>1. Threshold \in Nat /\ Threshold > 0 /\ Len(sends) \in Nat
  BY AutonomyAssumption DEF Sends
<1>2. PICK first \in 1..Len(sends) :
        /\ first + Threshold - 1 <= Len(sends)
        /\ \A i \in first..(first + Threshold - 1) : sends[i] = "clean"
  BY DEF Earned
<1>3. /\ Len(Append(sends, send)) = Len(sends) + 1
      /\ \A i \in 1..Len(sends) : Append(sends, send)[i] = sends[i]
  BY DEF Sends
<1>4. \A i \in first..(first + Threshold - 1) : i \in 1..Len(sends)
  BY <1>1, <1>2
<1>5. QED
  BY <1>1, <1>2, <1>3, <1>4 DEF Earned

\* A clean send makes the streak one longer.
LEMMA StreakGrows ==
    ASSUME NEW sends \in Sends, NEW k \in Nat, EndsClean(sends, k)
    PROVE  EndsClean(Append(sends, "clean"), k + 1)
<1>1. /\ Len(Append(sends, "clean")) = Len(sends) + 1 /\ Len(sends) \in Nat
      /\ \A i \in 1..Len(sends) : Append(sends, "clean")[i] = sends[i]
      /\ Append(sends, "clean")[Len(sends) + 1] = "clean"
  BY DEF Sends
<1>2. QED
  BY <1>1 DEF EndsClean

\* The streak of nothing is always there.
LEMMA NoStreak == ASSUME NEW sends \in Sends PROVE EndsClean(sends, 0)
BY DEF Sends, EndsClean

\* A ladder starts where its ledger says.
LEMMA LadderInit == AutonomyInit => LadderInv
<1>1. SUFFICES ASSUME AutonomyInit, NEW p \in RatedProperties
               PROVE  EndsClean(ledger[p], trust[p].streak) /\ (trust[p].unlocked => Earned(ledger[p]))
  BY DEF LadderInv
<1>2. PICK start \in [RatedProperties -> 0..Threshold] :
         /\ trust = [q \in RatedProperties |-> Climbed(start[q])]
         /\ ledger = [q \in RatedProperties |-> [i \in 1..start[q] |-> "clean"]]
  BY <1>1 DEF AutonomyInit
<1> DEFINE k == start[p]
<1>3. k \in Nat /\ Threshold \in Nat
  BY <1>2, AutonomyAssumption
<1>4. ledger[p] = [i \in 1..k |-> "clean"] /\ trust[p] = Climbed(k)
  BY <1>2
<1> HIDE DEF k
<1>5. ledger[p] \in Sends /\ Len(ledger[p]) = k /\ \A i \in 1..k : ledger[p][i] = "clean"
  BY <1>3, <1>4 DEF Sends
<1>6. trust[p].streak = k /\ trust[p].unlocked = (k = Threshold)
  BY <1>4 DEF Climbed
<1>7. EndsClean(ledger[p], k)
  BY <1>3, <1>5 DEF EndsClean
<1>8. k = Threshold => Earned(ledger[p])
  BY <1>3, <1>5, <1>7, EarnedBy
<1>9. QED
  BY <1>6, <1>7, <1>8

\* Bookkeeping writes the row and the ledger together, and a revocation empties
\* both of what was earned.
LEMMA LadderStep == AutonomyTypeOK /\ LadderInv /\ [AutonomyNext]_trustVars => LadderInv'
<1>1. SUFFICES ASSUME AutonomyTypeOK, LadderInv, [AutonomyNext]_trustVars PROVE LadderInv'
  OBVIOUS
<1>2. trust \in [RatedProperties -> TrustRow] /\ ledger \in [RatedProperties -> Sends]
  BY <1>1, AutonomyTypeParts DEF Sends
<1>3. CASE UNCHANGED <<trust, ledger>>
  BY <1>1, <1>3 DEF LadderInv
<1>4. ASSUME NEW m \in Requests, RecordReply(m) PROVE LadderInv'
  <2>1. CASE UNCHANGED <<trust, ledger>>
    BY <1>3, <2>1
  <2>2. CASE ~UNCHANGED <<trust, ledger>>
    <3> DEFINE p == Landlady(m)
               row == Credited(trust[p], reply[m].edited)
    <3>1. p \in RatedProperties
      BY WhoseItIs
    <3>2. /\ trust' = [trust EXCEPT ![p] = Graduated(row, reply[m].edited)]
          /\ ledger' = [ledger EXCEPT ![p] = Append(ledger[p], IF reply[m].edited THEN "edited" ELSE "clean")]
      BY <1>4, <2>2 DEF RecordReply
    <3>3. \A q \in RatedProperties \ {p} : trust'[q] = trust[q] /\ ledger'[q] = ledger[q]
      BY <1>2, <3>2
    <3>4. trust'[p] = Graduated(row, reply[m].edited)
      BY <1>2, <3>1, <3>2
    <3>5. ledger'[p] = Append(ledger[p], IF reply[m].edited THEN "edited" ELSE "clean")
      BY <1>2, <3>1, <3>2
    <3> HIDE DEF p
    <3>6. /\ trust[p] \in TrustRow /\ ledger[p] \in Sends /\ trust[p].streak \in Nat
          /\ EndsClean(ledger[p], trust[p].streak) /\ (trust[p].unlocked => Earned(ledger[p]))
      BY <1>1, <1>2, <3>1 DEF LadderInv, TrustRow
    <3>7. CASE reply[m].edited
      <4>1. trust'[p].streak = 0 /\ trust'[p].unlocked = trust[p].unlocked
        BY <3>4, <3>6, <3>7 DEF Graduated, Credited, TrustRow
      <4>2. ledger'[p] = Append(ledger[p], "edited") /\ ledger'[p] \in Sends
        BY <3>5, <3>6, <3>7 DEF Sends
      <4>3. EndsClean(ledger'[p], trust'[p].streak)
        BY <4>1, <4>2, NoStreak
      <4>4. trust'[p].unlocked => Earned(ledger'[p])
        BY <3>6, <4>1, <4>2, EarnedStays
      <4>5. QED
        BY <1>1, <3>3, <4>3, <4>4 DEF LadderInv
    <3>8. CASE ~reply[m].edited
      <4>1. trust'[p].streak = trust[p].streak + 1
        BY <3>4, <3>6, <3>8 DEF Graduated, Credited, TrustRow
      <4>2. ledger'[p] = Append(ledger[p], "clean") /\ ledger'[p] \in Sends
        BY <3>5, <3>6, <3>8 DEF Sends
      <4>3. EndsClean(ledger'[p], trust[p].streak + 1)
        BY <3>6, <4>2, StreakGrows
      <4>4. trust'[p].unlocked => trust[p].unlocked \/ trust[p].streak + 1 >= Threshold
        <5>1. row.streak = trust[p].streak + 1 /\ row.unlocked = trust[p].unlocked
          BY <3>6, <3>8 DEF Credited, TrustRow
        <5> HIDE DEF row
        <5>2. CASE row.streak >= Threshold
          BY <5>1, <5>2
        <5>3. CASE ~(row.streak >= Threshold)
          BY <3>4, <5>1, <5>3 DEF Graduated
        <5>4. QED
          BY <5>2, <5>3
      <4>5. trust[p].unlocked => Earned(ledger'[p])
        BY <3>6, <4>2, EarnedStays
      <4>6. trust[p].streak + 1 >= Threshold => Earned(ledger'[p])
        BY <3>6, <4>2, <4>3, EarnedBy
      <4>7. QED
        BY <1>1, <3>3, <4>1, <4>3, <4>4, <4>5, <4>6 DEF LadderInv
    <3>9. QED
      BY <3>7, <3>8
  <2>3. QED
    BY <2>1, <2>2
<1>5. ASSUME NEW P, Revoke(P) PROVE LadderInv'
  <2>1. ASSUME NEW p \in RatedProperties
        PROVE  EndsClean(ledger'[p], trust'[p].streak) /\ (trust'[p].unlocked => Earned(ledger'[p]))
    <3>1. CASE p \in P /\ trust[p].unlocked
      <4>1. trust'[p] = RevokedRow(trust[p]) /\ ledger'[p] = <<>>
        BY <1>5, <2>1, <3>1 DEF Revoke
      <4>2. trust'[p].streak = 0 /\ ~trust'[p].unlocked
        BY <1>2, <2>1, <4>1 DEF RevokedRow, TrustRow
      <4>3. <<>> \in Sends
        BY DEF Sends
      <4>4. QED
        BY <4>1, <4>2, <4>3, NoStreak
    <3>2. CASE ~(p \in P /\ trust[p].unlocked)
      <4>1. trust'[p] = trust[p] /\ ledger'[p] = ledger[p]
        BY <1>5, <2>1, <3>2 DEF Revoke
      <4>2. QED
        BY <1>1, <2>1, <4>1 DEF LadderInv
    <3>3. QED
      BY <3>1, <3>2
  <2>2. QED
    BY <2>1 DEF LadderInv
<1>6. ASSUME NEW m \in Requests,
             \/ ClassifyIntent(m) \/ Classify(m) \/ DraftResponse(m) \/ RouteAfterDraft(m) \/ AutoSendDraft(m)
             \/ RequestDies(m) \/ ApproveReply(m) \/ WithdrawReply(m) \/ ClaimReply(m) \/ SendingFails(m)
      PROVE  UNCHANGED <<trust, ledger>>
  BY <1>6 DEF ClassifyIntent, Classify, DraftResponse, RouteAfterDraft, AutoSendDraft, RequestDies,
              ApproveReply, WithdrawReply, ClaimReply, SendingFails, ReplyOnly
<1>7. HoursPass \/ UNCHANGED trustVars => UNCHANGED <<trust, ledger>>
  BY DEF HoursPass, trustVars
<1>8. QED
  BY <1>1, <1>3, <1>4, <1>5, <1>6, <1>7 DEF AutonomyNext

\* Whoever is answered unattended lives where autonomy was earned.
LEMMA EarnedStep ==
    RunInv /\ LadderInv /\ [AutonomyNext]_trustVars =>
        [\A m \in AutoApproved :
          LET sends == ledger[Landlady(m)] IN
          \E first \in 1..Len(sends) :
             /\ first + Threshold - 1 <= Len(sends)
             /\ \A i \in first..(first + Threshold - 1) : sends[i] = "clean"]_trustVars
<1>1. SUFFICES ASSUME RunInv, LadderInv, AutonomyNext, NEW n \in AutoApproved
               PROVE  Earned(ledger[Landlady(n)])
  BY DEF trustVars, Earned
<1>2. PICK m \in Requests : n = m /\ StillEarned(m)
  BY <1>1, WhoIsApproved
<1>3. Landlady(m) \in RatedProperties /\ trust[Landlady(m)].unlocked
  BY <1>2, WhoseItIs DEF StillEarned, Unlocked
<1>4. QED
  BY <1>1, <1>2, <1>3 DEF LadderInv

\* Nothing goes out unattended before Threshold sends in a row that the landlord
\* left as they were, all since the last revocation (draft_sender.py, trust.py),
\* for every threshold, any properties and any races of sends and revocations.
THEOREM AutoIsEarned == AutonomySpec => AutoMeansEarned
<1>1. LadderInv /\ RunInv /\ [AutonomyNext]_trustVars => LadderInv'
  BY LadderStep DEF RunInv
<1>2. AutonomySpec => []LadderInv
  BY <1>1, LadderInit, RunsKept, PTL DEF AutonomySpec
<1>3. QED
  BY <1>2, RunsKept, EarnedStep, PTL DEF AutonomySpec, AutoMeansEarned
-----------------------------------------------------------------------------
(* Lists: the order of the rows and the newest of them.                    *)

CursorRow == [at : 0..(MaxStamp + 1), id : 0..MaxRow]

\* The types, with the pages as a sequence.
ListTypes ==
    /\ list \in Lists
    /\ stamp \in [Rows -> 0..MaxStamp] /\ now \in 1..MaxStamp
    /\ cursor \in CursorRow
    /\ pages \in Seq(SUBSET Rows)
    /\ \A i \in 1..Len(pages) : Cardinality(pages[i]) <= PageSize
    /\ disturbed \subseteq Rows

\* Rows are numbered from 1, and there are finitely many.
LEMMA ListConstants ==
    /\ MaxRow \in Nat /\ PageSize \in Nat /\ PageSize > 0 /\ MaxStamp \in Nat /\ MaxStamp > 0
    /\ \A r \in Rows : r \in Nat /\ r >= 1 /\ r <= MaxRow
    /\ IsFiniteSet(Rows)
<1>1. MaxRow \in Nat /\ PageSize \in Nat /\ PageSize > 0 /\ MaxStamp \in Nat /\ MaxStamp > 0
  BY ListingAssumption
<1>2. IsFiniteSet(Rows)
  BY <1>1, FS_Interval DEF Rows
<1>3. QED
  BY <1>1, <1>2 DEF Rows

\* Newer is a linear order of the rows.
LEMMA NewerOrder ==
    ASSUME stamp \in [Rows -> 0..MaxStamp]
    PROVE  /\ \A r \in Rows : ~Newer(r, r)
           /\ \A r, s \in Rows : r # s => Newer(r, s) \/ Newer(s, r)
           /\ \A r, s \in Rows : ~(Newer(r, s) /\ Newer(s, r))
           /\ \A r, s, t \in Rows : Newer(r, s) /\ Newer(s, t) => Newer(r, t)
<1>1. \A r \in Rows : stamp[r] \in Nat /\ r \in Nat
  BY ListConstants
<1>2. QED
  BY <1>1 DEF Newer

\* A set of natural numbers has a least one.
LEMMA LeastNumber ==
    ASSUME NEW S \in SUBSET Nat, S # {}
    PROVE  \E x \in S : \A y \in S : x <= y
<1> DEFINE R == OpToRel(<, Nat)
<1>1. IsWellFoundedOn(R, Nat)
  BY NatLessThanWellFounded, Zenon
<1>2. \A x, y \in Nat : y < x => <<y, x>> \in R
  BY Zenon DEF OpToRel
<1> HIDE DEF R
<1>3. PICK x \in S : \A y \in S : ~(<<y, x>> \in R)
  BY <1>1, WFMin
<1>4. \A y \in S : ~(y < x)
  BY <1>2, <1>3
<1>5. QED
  BY <1>4

\* Among rows one is the oldest, and one the newest.
LEMMA OldestRow ==
    ASSUME stamp \in [Rows -> 0..MaxStamp], NEW S \in SUBSET Rows, S # {}
    PROVE  \E o \in S : \A s \in S : o = s \/ Newer(s, o)
<1>1. \A r \in Rows : stamp[r] \in Nat /\ r \in Nat
  BY ListConstants
<1> DEFINE Stamps == {stamp[r] : r \in S}
<1>2. Stamps \in SUBSET Nat /\ Stamps # {}
  BY <1>1
<1>3. PICK x \in Stamps : \A y \in Stamps : x <= y
  BY <1>2, LeastNumber
<1> DEFINE Last == {r \in S : stamp[r] = x}
<1>4. Last \in SUBSET Nat /\ Last # {}
  BY <1>1, <1>3
<1>5. PICK o \in Last : \A s \in Last : o <= s
  BY <1>4, LeastNumber
<1>6. ASSUME NEW s \in S PROVE o = s \/ Newer(s, o)
  <2>1. stamp[o] = x /\ x <= stamp[s] /\ o \in S
    BY <1>3, <1>5, <1>6
  <2>2. stamp[s] = x => o <= s
    BY <1>5, <1>6
  <2> HIDE DEF Last, Stamps
  <2>3. QED
    BY <1>1, <1>6, <2>1, <2>2 DEF Newer
<1>7. QED
  BY <1>5, <1>6

\* The same at the other end.
LEMMA NewestRow ==
    ASSUME stamp \in [Rows -> 0..MaxStamp], NEW S \in SUBSET Rows, S # {}
    PROVE  \E n \in S : \A s \in S : n = s \/ Newer(n, s)
<1>1. \A r \in Rows : stamp[r] \in Nat /\ r \in Nat /\ stamp[r] <= MaxStamp /\ r <= MaxRow
  BY ListConstants
<1> DEFINE Remaining == {MaxStamp - stamp[r] : r \in S}
<1>2. Remaining \in SUBSET Nat /\ Remaining # {}
  BY <1>1, ListConstants
<1>3. PICK x \in Remaining : \A y \in Remaining : x <= y
  BY <1>2, LeastNumber
<1> DEFINE Young == {r \in S : MaxStamp - stamp[r] = x}
           Numbers == {MaxRow - r : r \in Young}
<1>4. Numbers \in SUBSET Nat /\ Numbers # {}
  BY <1>1, <1>3, ListConstants
<1>5. PICK k \in Numbers : \A j \in Numbers : k <= j
  BY <1>4, LeastNumber
<1>6. PICK n \in Young : k = MaxRow - n
  BY <1>5
<1>7. ASSUME NEW s \in S PROVE n = s \/ Newer(n, s)
  <2>1. MaxStamp - stamp[n] = x /\ x <= MaxStamp - stamp[s] /\ n \in S
    BY <1>3, <1>6, <1>7
  <2>2. MaxStamp - stamp[s] = x => MaxRow - n <= MaxRow - s
    BY <1>5, <1>6, <1>7
  <2> HIDE DEF Young, Remaining, Numbers
  <2>3. QED
    BY <1>1, <1>7, <2>1, <2>2, ListConstants DEF Newer
<1>8. QED
  BY <1>6, <1>7

\* Sets of rows can be counted.
LEMMA CountingRows ==
    ASSUME NEW S, NEW T, S \subseteq T, T \subseteq Rows
    PROVE  /\ IsFiniteSet(S) /\ IsFiniteSet(T)
           /\ Cardinality(S) \in Nat /\ Cardinality(T) \in Nat
           /\ Cardinality(S) <= Cardinality(T)
<1>1. IsFiniteSet(T)
  BY ListConstants, FS_Subset
<1>2. IsFiniteSet(S) /\ Cardinality(S) <= Cardinality(T)
  BY <1>1, FS_Subset
<1>3. QED
  BY <1>1, <1>2, FS_CardinalityType

\* With a row, the n newest contain whatever is newer.
LEMMA NewestIsUpward ==
    ASSUME stamp \in [Rows -> 0..MaxStamp], NEW S \in SUBSET Rows, NEW n \in Nat,
           NEW r \in Newest(S, n), NEW s \in S, Newer(s, r)
    PROVE  s \in Newest(S, n)
<1> DEFINE A == {t \in S : Newer(t, s)}
           B == {t \in S : Newer(t, r)}
<1>1. r \in S /\ Cardinality(B) < n
  BY DEF Newest
<1>2. A \subseteq B
  BY <1>1, NewerOrder
<1>3. B \subseteq Rows
  OBVIOUS
<1> HIDE DEF A, B
<1>4. Cardinality(A) <= Cardinality(B) /\ Cardinality(A) \in Nat /\ Cardinality(B) \in Nat
  BY <1>2, <1>3, CountingRows
<1>5. Cardinality(A) < n
  BY <1>1, <1>4
<1>6. QED
  BY <1>5 DEF A, Newest

\* Where a row is left out there are n newest.
LEMMA NewestAreAllOrEnough ==
    ASSUME stamp \in [Rows -> 0..MaxStamp], NEW S \in SUBSET Rows, NEW n \in Nat,
           Newest(S, n) # S
    PROVE  Cardinality(Newest(S, n)) >= n
<1> DEFINE N == Newest(S, n)
           Out == S \ N
<1>1. N \subseteq S /\ Out # {} /\ Out \in SUBSET Rows
  BY DEF Newest
<1> HIDE DEF Out
<1>2. PICK r \in Out : \A s \in Out : r = s \/ Newer(r, s)
  BY <1>1, NewestRow
<1> DEFINE A == {t \in S : Newer(t, r)}
<1>3. r \in S /\ ~(Cardinality(A) < n)
  BY <1>2 DEF Newest, Out
<1>4. A \subseteq N
  <2>1. ASSUME NEW t \in S, Newer(t, r), t \notin N PROVE FALSE
    <3>1. t \in Out
      BY <2>1 DEF Out
    <3>2. QED
      BY <1>2, <1>3, <2>1, <3>1, NewerOrder
  <2>2. QED
    BY <2>1
<1>5. N \subseteq Rows
  BY <1>1
<1> HIDE DEF A, N
<1>6. Cardinality(A) <= Cardinality(N) /\ Cardinality(A) \in Nat /\ Cardinality(N) \in Nat
  BY <1>4, <1>5, CountingRows
<1>7. QED
  BY <1>3, <1>6 DEF N

\* The n newest are no more than n.
LEMMA NewestAreFew ==
    ASSUME stamp \in [Rows -> 0..MaxStamp], NEW S \in SUBSET Rows, NEW n \in Nat
    PROVE  Cardinality(Newest(S, n)) <= n
<1> DEFINE N == Newest(S, n)
<1>1. N \in SUBSET Rows /\ N \subseteq S
  BY DEF Newest
<1>2. CASE N = {}
  BY <1>2, FS_EmptySet
<1>3. CASE N # {}
  <2>1. PICK o \in N : \A s \in N : o = s \/ Newer(s, o)
    BY <1>1, <1>3, OldestRow
  <2> DEFINE A == {t \in S : Newer(t, o)}
  <2>2. Cardinality(A) < n
    BY <2>1 DEF Newest
  <2>3. N \subseteq A \cup {o}
    BY <1>1, <2>1
  <2>4. A \subseteq Rows /\ A \cup {o} \subseteq Rows /\ o \notin A
    BY <1>1, <2>1, NewerOrder
  <2> HIDE DEF A, N
  <2>5. IsFiniteSet(A) /\ Cardinality(A) \in Nat
    BY <2>4, CountingRows
  <2>6. Cardinality(A \cup {o}) = Cardinality(A) + 1
    BY <2>4, <2>5, FS_AddElement
  <2>7. Cardinality(N) <= Cardinality(A \cup {o}) /\ Cardinality(N) \in Nat
    BY <2>3, <2>4, CountingRows
  <2>8. QED
    BY <2>2, <2>5, <2>6, <2>7 DEF N
<1>4. QED
  BY <1>2, <1>3

\* Of no more than n rows the n newest are all.
LEMMA NewestOfFew ==
    ASSUME stamp \in [Rows -> 0..MaxStamp], NEW S \in SUBSET Rows, NEW n \in Nat,
           Cardinality(S) <= n
    PROVE  Newest(S, n) = S
<1>1. ASSUME NEW r \in S PROVE Cardinality({t \in S : Newer(t, r)}) < n
  <2> DEFINE A == {t \in S : Newer(t, r)}
  <2>1. A \subseteq S /\ r \notin A /\ A \cup {r} \subseteq S
    BY <1>1, NewerOrder
  <2> HIDE DEF A
  <2>2. IsFiniteSet(A) /\ Cardinality(A) \in Nat
    BY <2>1, CountingRows
  <2>3. Cardinality(A \cup {r}) = Cardinality(A) + 1
    BY <2>1, <2>2, FS_AddElement
  <2>4. Cardinality(A \cup {r}) <= Cardinality(S) /\ Cardinality(S) \in Nat
    BY <2>1, CountingRows
  <2>5. QED
    BY <2>2, <2>3, <2>4 DEF A
<1>2. QED
  BY <1>1 DEF Newest
-----------------------------------------------------------------------------
(* One page.                                                               *)

\* What a cursor has not passed, and the page it gets.
StillToRead(c) == {r \in Listed : Before(r, c)}
Page(c) == Newest(Fetched(c), PageSize)

\* The page of a cursor is the newest of what is ahead of it, and what is ahead
\* of the next cursor is the rest.
LEMMA PageOf ==
    ASSUME stamp \in [Rows -> 0..MaxStamp], NEW c \in CursorRow
    PROVE  /\ Page(c) \subseteq StillToRead(c) /\ StillToRead(c) \subseteq Rows
           /\ Cardinality(Page(c)) <= PageSize
           /\ ~(Cardinality(Fetched(c)) > PageSize) => Page(c) = StillToRead(c)
           /\ Cardinality(Fetched(c)) > PageSize =>
                 /\ Oldest(Page(c)) \in Page(c)
                 /\ \A r \in StillToRead(c) : r \in Page(c) <=> ~Newer(Oldest(Page(c)), r)
<1> DEFINE S == StillToRead(c)
           F == Fetched(c)
           P == Page(c)
<1>1. /\ F = Newest(S, PageSize + 1) /\ P = Newest(F, PageSize)
      /\ PageSize \in Nat /\ PageSize > 0 /\ PageSize + 1 \in Nat
  BY ListConstants DEF StillToRead, Fetched, Page
<1>2. P \subseteq F /\ F \subseteq S /\ S \subseteq Rows
  BY <1>1 DEF Newest, StillToRead, Listed
<1> HIDE DEF S, F, P
<1>3. Cardinality(P) <= PageSize
  BY <1>1, <1>2, NewestAreFew
<1>4. Cardinality(F) \in Nat /\ Cardinality(P) \in Nat
  BY <1>2, CountingRows
<1>5. ASSUME ~(Cardinality(F) > PageSize) PROVE P = S
  <2>1. F = S
    <3>1. SUFFICES ASSUME F # S PROVE FALSE
      OBVIOUS
    <3>2. Cardinality(F) >= PageSize + 1
      BY <1>1, <1>2, <3>1, NewestAreAllOrEnough
    <3>3. QED
      BY <1>1, <1>4, <1>5, <3>2
  <2>2. Cardinality(F) <= PageSize
    BY <1>1, <1>4, <1>5
  <2>3. P = F
    BY <1>1, <1>2, <2>2, NewestOfFew
  <2>4. QED
    BY <2>1, <2>3
<1>6. ASSUME Cardinality(F) > PageSize
      PROVE  Oldest(P) \in P /\ \A r \in S : r \in P <=> ~Newer(Oldest(P), r)
  <2>1. P # F
    BY <1>1, <1>3, <1>4, <1>6
  <2>2. Cardinality(P) >= PageSize
    BY <1>1, <1>2, <2>1, NewestAreAllOrEnough
  <2>3. P # {}
    BY <1>1, <2>2, FS_EmptySet
  <2>4. \E o \in P : \A s \in P : o = s \/ Newer(s, o)
    BY <1>2, <2>3, OldestRow
  <2> DEFINE o == Oldest(P)
  <2>5. o \in P /\ \A s \in P : o = s \/ Newer(s, o)
    BY <2>4 DEF Oldest
  <2> HIDE DEF o
  <2>6. ASSUME NEW r \in S, r \in P PROVE ~Newer(o, r)
    BY <1>2, <2>5, <2>6, NewerOrder
  <2>7. ASSUME NEW r \in S, r \notin P PROVE Newer(o, r)
    <3>1. SUFFICES ASSUME Newer(r, o) PROVE FALSE
      BY <1>2, <2>5, <2>7, NewerOrder
    <3>2. o \in F
      BY <1>2, <2>5
    <3>3. r \in F
      BY <1>1, <1>2, <2>7, <3>1, <3>2, NewestIsUpward
    <3>4. r \in P
      BY <1>1, <1>2, <2>5, <3>1, <3>3, NewestIsUpward
    <3>5. QED
      BY <2>7, <3>4
  <2>8. QED
    BY <2>5, <2>6, <2>7 DEF o
<1>7. QED
  BY <1>2, <1>3, <1>5, <1>6 DEF S, F, P

\* The rows that stayed where they were since the first page.
Quiet == Listed \ disturbed

\* Of the rows that stayed where they were, those before the cursor are still
\* to be shown and the others were.
ShownUpToCursor ==
    \A r \in Quiet : (\E i \in 1..Len(pages) : r \in pages[i]) <=> ~Before(r, cursor)

\* A page shows what is no newer than what the pages before it showed; taken
\* both ways for one row, it is shown once.
ShownInOrder ==
    \A r, s \in Quiet : \A i, j \in 1..Len(pages) :
        /\ r \in pages[i]
        /\ s \in pages[j]
        /\ r = s \/ Newer(r, s)
        => i <= j

\* Together they carry the reading of a list.
ListInv == ListTypes /\ ShownUpToCursor /\ ShownInOrder

\* At first all is still to be shown.
LEMMA ListInvInit == ListInit => ListInv
<1>1. SUFFICES ASSUME ListInit PROVE ListInv
  OBVIOUS
<1>2. First \in CursorRow
  BY ListConstants DEF First, CursorRow
<1>3. stamp \in [Rows -> 0..MaxStamp] /\ now \in 1..MaxStamp
  BY <1>1, ListConstants DEF ListInit
<1>4. Len(pages) = 0 /\ pages \in Seq(SUBSET Rows)
  BY <1>1 DEF ListInit
<1>5. \A r \in Rows : Before(r, First)
  BY <1>3, ListConstants DEF Before, First
<1>6. ShownUpToCursor
  BY <1>1, <1>4, <1>5 DEF ListInit, ShownUpToCursor, Quiet, Listed
<1>7. QED
  BY <1>1, <1>2, <1>3, <1>4, <1>6 DEF ListInit, ListInv, ListTypes, ShownInOrder

\* A row of the list that is read changes its stamp, comes or goes: the others
\* stay as they were.
LEMMA RowStep ==
    ASSUME ListInv, NEW r \in Rows, NEW t \in 0..MaxStamp,
           stamp' = [stamp EXCEPT ![r] = t], disturbed' = disturbed \cup {r},
           UNCHANGED <<list, now, cursor, pages>>
    PROVE  ListInv'
<1>1. ListTypes /\ ShownUpToCursor /\ ShownInOrder
  BY DEF ListInv
<1>2. ListTypes'
  BY <1>1 DEF ListTypes
<1>3. Quiet' \subseteq Quiet /\ \A s \in Quiet' : stamp'[s] = stamp[s]
  BY <1>1 DEF Quiet, Listed, ListTypes
<1>4. ShownUpToCursor'
  BY <1>1, <1>3 DEF ShownUpToCursor, Before
<1>5. ShownInOrder'
  BY <1>1, <1>3 DEF ShownInOrder, Newer
<1>6. QED
  BY <1>2, <1>4, <1>5 DEF ListInv

\* A page moves what it shows from one side of the cursor to the other.
LEMMA PageStep == ASSUME ListInv, NextPage PROVE ListInv'
<1> DEFINE page == Page(cursor)
           next == IF Cardinality(Fetched(cursor)) > PageSize THEN CursorAt(Oldest(page)) ELSE NoCursor
<1>1. /\ list \in Lists /\ stamp \in [Rows -> 0..MaxStamp] /\ now \in 1..MaxStamp
      /\ cursor \in CursorRow /\ pages \in Seq(SUBSET Rows) /\ disturbed \subseteq Rows
      /\ \A i \in 1..Len(pages) : Cardinality(pages[i]) <= PageSize
      /\ ShownUpToCursor /\ ShownInOrder
  BY DEF ListInv, ListTypes
<1>2. /\ pages' = Append(pages, page) /\ cursor' = next
      /\ UNCHANGED <<list, stamp, now, disturbed>>
  BY DEF NextPage, Page
<1>3. /\ page \subseteq StillToRead(cursor) /\ StillToRead(cursor) \subseteq Rows
      /\ Cardinality(page) <= PageSize
      /\ ~(Cardinality(Fetched(cursor)) > PageSize) => page = StillToRead(cursor)
      /\ Cardinality(Fetched(cursor)) > PageSize =>
            /\ Oldest(page) \in page
            /\ \A r \in StillToRead(cursor) : r \in page <=> ~Newer(Oldest(page), r)
  BY <1>1, PageOf
<1> HIDE DEF page
<1>4. \A r \in Rows : stamp[r] \in Nat /\ r \in Nat /\ r >= 1
  BY <1>1, ListConstants
<1>5. \A o, r \in Rows : Before(r, CursorAt(o)) <=> Newer(o, r)
  BY <1>4 DEF Before, CursorAt, Newer
<1>6. \A r \in Rows : ~Before(r, NoCursor)
  BY <1>4 DEF Before, NoCursor
\* What is newer than something at or past the cursor is past it too.
<1>7. \A r, s \in Rows : Before(r, cursor) /\ (r = s \/ Newer(r, s)) => Before(s, cursor)
  <2>1. cursor.at \in Int /\ cursor.id \in Int
    BY <1>1 DEF CursorRow
  <2>2. QED
    BY <1>4, <2>1 DEF Before, Newer
<1>8. Quiet' = Quiet /\ Quiet \subseteq Listed /\ Listed \subseteq Rows
  BY <1>2 DEF Quiet, Listed
\* The next cursor splits what is still to read into this page and the rest.
<1>9. \A r \in Quiet : ~Before(r, next) <=> ~Before(r, cursor) \/ r \in page
  <2>1. CASE Cardinality(Fetched(cursor)) > PageSize
    <3> DEFINE o == Oldest(page)
    <3>1. o \in Rows /\ next = CursorAt(o) /\ Before(o, cursor)
      BY <1>3, <2>1 DEF StillToRead
    <3>2. \A r \in StillToRead(cursor) : r \in page <=> ~Newer(o, r)
      BY <1>3, <2>1
    <3> HIDE DEF o, next
    <3>3. ASSUME NEW r \in Quiet, Before(r, cursor) PROVE ~Before(r, next) <=> r \in page
      <4>1. r \in StillToRead(cursor) /\ r \in Rows
        BY <1>8, <3>3 DEF StillToRead
      <4>2. QED
        BY <1>5, <3>1, <3>2, <4>1
    <3>4. ASSUME NEW r \in Quiet, ~Before(r, cursor) PROVE ~Before(r, next)
      BY <1>5, <1>7, <1>8, <3>1, <3>4
    <3>5. QED
      BY <3>3, <3>4
  <2>2. CASE ~(Cardinality(Fetched(cursor)) > PageSize)
    <3>1. next = NoCursor /\ page = StillToRead(cursor)
      BY <1>3, <2>2
    <3> HIDE DEF next
    <3>2. QED
      BY <1>6, <1>8, <3>1 DEF StillToRead
  <2>3. QED
    BY <2>1, <2>2
<1>10. next \in CursorRow
  <2>1. CASE Cardinality(Fetched(cursor)) > PageSize
    <3> DEFINE o == Oldest(page)
    <3>1. o \in Rows /\ next = [at |-> stamp[o], id |-> o]
      BY <1>3, <2>1 DEF StillToRead, CursorAt
    <3> HIDE DEF o, next
    <3>2. QED
      BY <1>1, <3>1, ListConstants DEF CursorRow
  <2>2. CASE ~(Cardinality(Fetched(cursor)) > PageSize)
    BY <2>2, ListConstants DEF NoCursor, CursorRow
  <2>3. QED
    BY <2>1, <2>2
<1> HIDE DEF next
<1>11. /\ Len(pages) \in Nat /\ Len(pages') = Len(pages) + 1
       /\ \A i \in 1..Len(pages) : pages'[i] = pages[i]
       /\ pages'[Len(pages) + 1] = page
       /\ pages' \in Seq(SUBSET Rows)
  BY <1>1, <1>2, <1>3
<1>12. ListTypes'
  <2>1. \A i \in 1..Len(pages') : Cardinality(pages'[i]) <= PageSize
    BY <1>1, <1>3, <1>11
  <2>2. QED
    BY <1>1, <1>2, <1>10, <1>11, <2>1 DEF ListTypes
<1>13. ShownUpToCursor'
  <2>1. \A r \in Quiet : (\E i \in 1..Len(pages') : r \in pages'[i])
                         <=> (\E i \in 1..Len(pages) : r \in pages[i]) \/ r \in page
    BY <1>11
  <2>2. \A r \in Quiet : Before(r, cursor)' <=> Before(r, next)
    BY <1>2 DEF Before
  <2>3. QED
    BY <1>1, <1>8, <1>9, <2>1, <2>2 DEF ShownUpToCursor
<1>14. ShownInOrder'
  <2>1. SUFFICES ASSUME NEW r \in Quiet, NEW s \in Quiet, NEW i \in 1..Len(pages'), NEW j \in 1..Len(pages'),
                        r \in pages'[i], s \in pages'[j], r = s \/ Newer(r, s)
                 PROVE  i <= j
    BY <1>2, <1>8 DEF ShownInOrder, Newer
  <2>2. CASE i \in 1..Len(pages) /\ j \in 1..Len(pages)
    BY <1>1, <1>11, <2>1, <2>2 DEF ShownInOrder
  <2>3. CASE j = Len(pages) + 1
    BY <1>11, <2>1, <2>3
  <2>4. CASE i = Len(pages) + 1 /\ j \in 1..Len(pages)
    <3>1. Before(r, cursor)
      BY <1>3, <1>11, <2>1, <2>4 DEF StillToRead
    <3>2. ~Before(s, cursor)
      BY <1>1, <1>11, <2>1, <2>4 DEF ShownUpToCursor
    <3>3. QED
      BY <1>7, <1>8, <2>1, <3>1, <3>2
  <2>5. QED
    BY <1>11, <2>1, <2>2, <2>3, <2>4
<1>15. QED
  BY <1>12, <1>13, <1>14 DEF ListInv

\* Every step keeps the invariant,
LEMMA ListInvStep == ListInv /\ [ListNext]_listVars => ListInv'
<1>1. SUFFICES ASSUME ListInv, [ListNext]_listVars PROVE ListInv'
  OBVIOUS
<1>2. CASE UNCHANGED listVars
  BY <1>1, <1>2 DEF ListInv, ListTypes, ShownUpToCursor, ShownInOrder, Quiet, Listed, Before, Newer, listVars
<1>3. CASE ListCases \/ ListVendors \/ ListProperties
  BY <1>1, <1>3, PageStep DEF ListCases, ListVendors, ListProperties
<1>4. ASSUME NEW r \in Rows, Stamped(r) PROVE ListInv'
  <2>1. PICK t \in {now - 1, now} \ {0} : t # stamp[r] /\ stamp' = [stamp EXCEPT ![r] = t]
    BY <1>4 DEF Stamped
  <2>2. t \in 0..MaxStamp
    BY <1>1, <2>1, ListConstants DEF ListInv, ListTypes
  <2>3. QED
    BY <1>1, <1>4, <2>1, <2>2, RowStep DEF Stamped
<1>5. ASSUME NEW r \in Rows, RowLeaves(r) PROVE ListInv'
  <2>1. 0 \in 0..MaxStamp
    BY ListConstants
  <2>2. QED
    BY <1>1, <1>5, <2>1, RowStep DEF RowLeaves
<1>6. CASE TimePasses
  <2>1. /\ UNCHANGED <<list, stamp, cursor, pages, disturbed>> /\ now' = now + 1 /\ now < MaxStamp
    BY <1>6 DEF TimePasses
  <2>2. now' \in 1..MaxStamp
    BY <1>1, <2>1, ListConstants DEF ListInv, ListTypes
  <2>3. QED
    BY <1>1, <2>1, <2>2 DEF ListInv, ListTypes, ShownUpToCursor, ShownInOrder, Quiet, Listed, Before, Newer
<1>7. QED
  BY <1>1, <1>2, <1>3, <1>4, <1>5, <1>6 DEF ListNext, RowAppears, RowMoves

\* which therefore holds throughout.
LEMMA ListKept == ListSpec => []ListInv
BY ListInvInit, ListInvStep, PTL DEF ListSpec

\* The variables of the lists keep their types, and no page is longer than the
\* caller asked for (app/pagination.py).
THEOREM ListTypesKept == ListSpec => []ListTypeOK
<1>1. ListInv => ListTypeOK
  <2>1. SUFFICES ASSUME ListInv PROVE ListTypeOK
    OBVIOUS
  <2>2. DOMAIN pages = 1..Len(pages) /\ \A i \in 1..Len(pages) : pages[i] \subseteq Rows
    BY <2>1 DEF ListInv, ListTypes
  <2>3. QED
    BY <2>1, <2>2 DEF ListInv, ListTypes, ListTypeOK, CursorRow
<1>2. QED
  BY <1>1, ListKept, PTL

\* Reading a list to its end shows every row that stayed where it was exactly
\* once and in order, whatever comes, goes and moves between the pages, for any
\* number of rows, page size and time stamps that coincide.
THEOREM QuietRowsShownOnce == ListSpec => []QuietRowsOnce
<1>1. ListInv => QuietRowsOnce
  <2>1. SUFFICES ASSUME ListInv PROVE QuietRowsOnce
    OBVIOUS
  <2>2. /\ stamp \in [Rows -> 0..MaxStamp] /\ pages \in Seq(SUBSET Rows) /\ DOMAIN pages = 1..Len(pages)
        /\ Len(pages) \in Nat /\ ShownUpToCursor /\ ShownInOrder
    BY <2>1 DEF ListInv, ListTypes
  <2> DEFINE ShownOn(r) == {i \in DOMAIN pages : r \in pages[i]}
  <2>3. ASSUME cursor = NoCursor, NEW r \in Quiet PROVE Cardinality(ShownOn(r)) = 1
    <3>1. ~Before(r, cursor)
      <4>1. stamp[r] \in Nat /\ r \in Nat
        BY <2>2, <2>3, ListConstants DEF Quiet, Listed
      <4>2. QED
        BY <2>3, <4>1 DEF Before, NoCursor
    <3>2. PICK i \in 1..Len(pages) : r \in pages[i]
      BY <2>2, <2>3, <3>1 DEF ShownUpToCursor
    <3>3. \A j \in 1..Len(pages) : r \in pages[j] => i <= j /\ j <= i
      BY <2>2, <2>3, <3>2 DEF ShownInOrder
    <3>4. ShownOn(r) = {i}
      BY <2>2, <3>2, <3>3
    <3>5. QED
      BY <3>4, FS_Singleton
  <2>4. \A r, s \in Quiet : \A i \in ShownOn(r), j \in ShownOn(s) : Newer(r, s) => i <= j
    BY <2>2 DEF ShownInOrder
  <2>5. QED
    BY <2>3, <2>4 DEF QuietRowsOnce, Quiet
<1>2. QED
  BY <1>1, ListKept, PTL
-----------------------------------------------------------------------------
(* The four modules together.                                              *)

\* Of each module a behaviour of all is a behaviour.
LEMMA ServicesParts == ServicesSpec => Spec /\ AutonomySpec /\ ListSpec /\ PrefilterSpec
<1>1. ServicesInit => Init /\ AutonomyInit /\ ListInit /\ PrefilterInit
  BY DEF ServicesInit
<1>2. [ServicesNext]_<<work, vars, trustVars, listVars, text>> =>
          /\ [Next]_vars /\ [AutonomyNext]_trustVars /\ [ListNext]_listVars /\ [PrefilterNext]_text
  BY DEF ServicesNext
<1>3. QED
  BY <1>1, <1>2, PTL DEF ServicesSpec, Spec, AutonomySpec, ListSpec, PrefilterSpec

\* Every variable of the four modules keeps its type: in particular no reply is
\* written in words that failed the guards (nodes/draft_response.py).
THEOREM ServicesTypes == ServicesSpec => []ServicesTypeOK
<1>1. TypeOK /\ AutonomyTypeOK /\ ListTypeOK /\ PrefilterTypeOK => ServicesTypeOK
  BY DEF ServicesTypeOK
<1>2. QED
  BY <1>1, ServicesParts, TypeCorrect, AutonomyTypesKept, ListTypesKept, PrefilterTypes, PTL

==============================================================================
