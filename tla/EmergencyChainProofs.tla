------------------------ MODULE EmergencyChainProofs ------------------------
(***************************************************************************)
(* Safety of the escalation chain for any number of tickers, any contact   *)
(* configuration and any bounds.                                           *)
(***************************************************************************)
EXTENDS EmergencyChain, TLAPS

Sending == {"smssend", "drainsend"}

\* Why a step cannot be done twice: a step at or past the row's attempt is
\* untouched, and a step being worked on belongs to one process, which has
\* not yet requested the actions from its position on.
StepOwnership ==
    /\ \A s \in Steps : s >= attempt =>
          audit[s] = 0 /\ \A k \in 1..MaxActions : placed[s][k] = 0
    /\ \A p \in Procs : pc[p] \in Working =>
          /\ old[p] < attempt
          /\ audit[old[p]] = 0
          /\ \A k \in 1..MaxActions : k >= pos[p] => placed[old[p]][k] = 0
    /\ \A p, q \in Procs :
          p # q /\ pc[p] \in Working /\ pc[q] \in Working => old[p] # old[q]

\* Why no step is early: whoever is about to claim has seen its step due; the
\* webhook's own step is step 0, and nothing is claimed before the row exists.
ClaimsAreDue ==
    /\ \A p \in Procs : pc[p] = "claim" => call # "none" /\ NextOffset(old[p]) <= now
    /\ old[Inline] = 0
    /\ call = "none" => attempt = 0

\* Why a claim of the text is used once: senders hold different claims, all
\* already counted by the row, and none of them has been used.
SlotOwnership ==
    /\ \A k \in 1..MaxSlot : k > slot => sends[k] = 0
    /\ \A p \in Procs : pc[p] \in Sending =>
          mine[p] \in 1..slot /\ sends[mine[p]] = 0
    /\ \A p, q \in Procs :
          p # q /\ pc[p] \in Sending /\ pc[q] \in Sending => mine[p] # mine[q]

\* Why 'sent' is true: every process about to write it saw Twilio accept.
OutcomesAreTrue ==
    /\ \A p \in Procs : out[p] = "sent" \/ pc[p] = "drainsent" => Delivered
    /\ \A p \in Procs : pc[p] = "drainexhaust" => ~CanContact("tenant_safety_sms")

\* A process inside the safety text is at an action of its step.
TextPosition ==
    \A p \in Procs : pc[p] \in {"smsread", "smscas", "smssend"} => pos[p] <= MaxActions

TypeInv == TypeOK /\ TextPosition

-----------------------------------------------------------------------------
(* Facts about the operators.                                              *)

\* Every step has between one and three actions.
LEMMA ActionCount ==
    ASSUME NEW s \in Nat
    PROVE  Len(ActionsForStep(s)) \in 1..MaxActions
BY DEF ActionsForStep, MaxActions

\* The schedule is a function of the attempt into the naturals and starts at
\* T+0.
LEMMA OffsetNat ==
    /\ NextOffset(0) = 0
    /\ \A a \in Nat : NextOffset(a) \in Nat
<1>1. NextOffset(0) = 0
  BY DEF NextOffset, Offsets
<1>2. ASSUME NEW a \in Nat PROVE NextOffset(a) \in Nat
  <2>1. CASE a < 6
    <3>1. a \in 0..5
      BY <2>1
    <3>2. a = 0 \/ a = 1 \/ a = 2 \/ a = 3 \/ a = 4 \/ a = 5
      BY <3>1
    <3>. QED
      BY <3>2 DEF NextOffset, Offsets
  <2>2. CASE ~(a < 6)
    <3>1. NextOffset(a) = 20 + (a - 6 + 1) * 15
      BY <2>2 DEF NextOffset, Offsets, RepeatInterval
    <3>. QED
      BY <3>1, <2>2
  <2>. QED
    BY <2>1, <2>2
<1>. QED
  BY <1>1, <1>2

\* The chain never goes silent for long: each attempt is due after the one
\* before it and at most fifteen minutes later.
THEOREM ScheduleGaps ==
    \A a \in Nat : NextOffset(a) < NextOffset(a + 1) /\ NextOffset(a + 1) <= NextOffset(a) + 15
<1> SUFFICES ASSUME NEW a \in Nat
             PROVE  NextOffset(a) < NextOffset(a + 1) /\ NextOffset(a + 1) <= NextOffset(a) + 15
  OBVIOUS
<1>1. CASE a < 6
  <2>1. a = 0 \/ a = 1 \/ a = 2 \/ a = 3 \/ a = 4 \/ a = 5
    BY <1>1
  <2>. QED
    BY <2>1 DEF NextOffset, Offsets, RepeatInterval
<1>2. CASE ~(a < 6)
  <2>1. /\ NextOffset(a) = 20 + (a - 6 + 1) * 15
        /\ NextOffset(a + 1) = 20 + (a + 1 - 6 + 1) * 15
    BY <1>2 DEF NextOffset, Offsets, RepeatInterval
  <2>. QED
    BY <2>1, <1>2
<1>. QED
  BY <1>1, <1>2

-----------------------------------------------------------------------------
(* Types.                                                                  *)

LEMMA TypeInit == Init => TypeInv
BY ChainAssumption DEF Init, TypeInv, TypeOK, TextPosition, Working, Steps, Procs, MaxActions

LEMMA ProcKinds == Inline \in Procs /\ Tickers \subseteq Procs
BY DEF Procs

LEMMA TypeCreate == TypeInv /\ CreateEmergency => TypeInv'
BY ProcKinds DEF CreateEmergency, TypeInv, TypeOK, TextPosition, rowVars, envVars, obsVars, Goto

\* Whichever way it is given, an acknowledgment is one.
LEMMA Surfaces == Answered => Acknowledge
BY DEF Answered, AckOnDashboard, PressKey, OpenLink

LEMMA TypeAck == TypeInv /\ Acknowledge => TypeInv'
BY DEF Acknowledge, TypeInv, TypeOK, TextPosition, rowVars, envVars, obsVars

LEMMA TypeMinute == TypeInv /\ Minute => TypeInv'
BY ChainAssumption DEF Minute, TypeInv, TypeOK, TextPosition, rowVars, envVars, obsVars

LEMMA TypeClaim ==
    ASSUME NEW p \in Procs, TypeInv, ClaimStep(p)
    PROVE  TypeInv'
<1>1. old[p] \in Nat /\ old[p] + 1 \in Steps
  BY ChainAssumption DEF Steps, ClaimStep, WinsStep, TypeInv, TypeOK
<1>2. NextOffset(old[p] + 1) \in Nat
  BY <1>1, OffsetNat
<1>3. next' \in Nat /\ attempt' \in Steps
  BY <1>1, <1>2 DEF ClaimStep
<1>4. pos' \in [Procs -> 1..(MaxActions + 1)]
  BY DEF ClaimStep, TypeInv, TypeOK, MaxActions
<1>5. TypeOK'
  BY <1>3, <1>4 DEF ClaimStep, TypeInv, TypeOK, rowVars, envVars, obsVars, Goto, Working
<1>6. TextPosition'
  BY DEF ClaimStep, TypeInv, TypeOK, TextPosition, Goto
<1>. QED
  BY <1>5, <1>6 DEF TypeInv

LEMMA TypeLost ==
    ASSUME NEW p \in Procs, TypeInv, LostRace(p)
    PROVE  TypeInv'
BY DEF LostRace, TypeInv, TypeOK, TextPosition, rowVars, envVars, obsVars, Goto, AfterStep

\* A process with an action left has room to move past it.
LEMMA RoomToMove ==
    ASSUME NEW p \in Procs, TypeOK, HasAction(p)
    PROVE  pos[p] <= MaxActions
<1>0. old[p] \in Steps /\ pos[p] \in 1..(MaxActions + 1)
  BY DEF TypeOK
<1>1. old[p] \in Nat /\ pos[p] \in Nat
  BY <1>0, ChainAssumption DEF Steps, MaxActions
<1>2. Len(ActionsForStep(old[p])) \in 1..MaxActions
  BY <1>1, ActionCount
<1>3. pos[p] <= Len(ActionsForStep(old[p]))
  BY DEF HasAction
<1>4. \A a, b, c \in Nat : a <= b /\ b \in 1..c => a <= c
  OBVIOUS
<1>5. MaxActions \in Nat
  BY DEF MaxActions
<1>6. Len(ActionsForStep(old[p])) \in Nat
  BY <1>2, <1>5
<1>. QED
  BY <1>1, <1>2, <1>3, <1>4, <1>5, <1>6

\* Moving to the next action keeps the position in range.
LEMMA MoveOn ==
    ASSUME NEW p \in Procs, TypeOK, pos[p] <= MaxActions
    PROVE  [pos EXCEPT ![p] = @ + 1] \in [Procs -> 1..(MaxActions + 1)]
<1>0. pos[p] \in 1..(MaxActions + 1)
  BY DEF TypeOK
<1>1. pos[p] + 1 \in 1..(MaxActions + 1)
  BY <1>0 DEF MaxActions
<1>. QED
  BY <1>1 DEF TypeOK

\* Counting one more of something keeps a family of counters in type.
LEMMA Bump ==
    ASSUME NEW S, NEW f \in [S -> Nat], NEW x
    PROVE  [f EXCEPT ![x] = @ + 1] \in [S -> Nat]
<1>1. ASSUME NEW y \in S PROVE [f EXCEPT ![x] = @ + 1][y] \in Nat
  <2>1. f[y] \in Nat /\ f[y] + 1 \in Nat
    OBVIOUS
  <2>2. CASE x = y
    BY <2>1, <2>2
  <2>3. CASE x # y
    BY <2>1, <2>3
  <2>. QED
    BY <2>2, <2>3
<1>. QED
  BY <1>1

LEMMA TypePlace ==
    ASSUME NEW p \in Procs, TypeInv, PlaceContact(p)
    PROVE  TypeInv'
<1>1. pos[p] <= MaxActions
  BY RoomToMove DEF PlaceContact, TypeInv
<1>2. pos' \in [Procs -> 1..(MaxActions + 1)]
  BY <1>1, MoveOn DEF PlaceContact, TypeInv
<1>3. pos[p] \in 1..MaxActions /\ old[p] \in Steps
  BY <1>1 DEF TypeInv, TypeOK, MaxActions
<1>4. placed' \in [Steps -> [1..MaxActions -> Nat]]
  <2>0. placed \in [Steps -> [1..MaxActions -> Nat]]
    BY DEF TypeInv, TypeOK
  <2>1. placed[old[p]] \in [1..MaxActions -> Nat]
    BY <1>3, <2>0
  <2>2. [placed EXCEPT ![old[p]][pos[p]] = @ + 1] \in [Steps -> [1..MaxActions -> Nat]]
    <3> DEFINE row == [placed[old[p]] EXCEPT ![pos[p]] = @ + 1]
    <3>1. row \in [1..MaxActions -> Nat]
      BY <2>1, Bump
    <3>2. [placed EXCEPT ![old[p]] = row] \in [Steps -> [1..MaxActions -> Nat]]
      <4> HIDE DEF row
      <4>. QED
        BY <1>3, <2>0, <3>1
    <3>. QED
      BY <3>2 DEF row
  <2>. QED
    BY <2>2 DEF PlaceContact, TypeInv, TypeOK
<1>5. TypeOK'
  BY <1>2, <1>4 DEF PlaceContact, TypeInv, TypeOK, rowVars, envVars
<1>6. TextPosition'
  BY DEF PlaceContact, TypeInv, TypeOK, TextPosition
<1>. QED
  BY <1>5, <1>6 DEF TypeInv

LEMMA TypeSafety ==
    ASSUME NEW p \in Procs, TypeInv, SafetySms(p)
    PROVE  TypeInv'
<1>1. pos[p] <= MaxActions
  BY RoomToMove DEF SafetySms, TypeInv
<1>2. pos' \in [Procs -> 1..(MaxActions + 1)]
  BY <1>1, MoveOn DEF SafetySms, TypeInv, TypeOK
<1>3. TypeOK'
  BY <1>2 DEF SafetySms, TypeInv, TypeOK, rowVars, envVars, obsVars, Goto, Working
<1>4. TextPosition'
  BY <1>1 DEF SafetySms, TypeInv, TypeOK, TextPosition, Goto
<1>. QED
  BY <1>3, <1>4 DEF TypeInv

\* Recording an outcome of the safety text keeps the process in type.
LEMMA OutcomeType ==
    ASSUME NEW p \in Procs, NEW r \in {"skipped", "sent", "failed"}, TypeInv,
           pc[p] \in {"smsread", "smscas", "smssend"}, SmsOutcome(p, r)
    PROVE  /\ pc' \in [Procs -> {"idle", "claim", "done", "drain", "drainclaim", "drainsend",
                         "drainsent", "drainfailed", "drainexhaust"} \cup Working]
           /\ pos' \in [Procs -> 1..(MaxActions + 1)]
           /\ out' \in [Procs -> {"skipped", "sent", "failed"}]
           /\ TextPosition'
<1>1. pos[p] <= MaxActions
  BY DEF TypeInv, TextPosition
<1>2. pos' \in [Procs -> 1..(MaxActions + 1)]
  BY <1>1, MoveOn DEF SmsOutcome, TypeInv
<1>3. TextPosition'
  BY DEF SmsOutcome, TypeInv, TypeOK, TextPosition, Goto
<1>. QED
  BY <1>2, <1>3 DEF SmsOutcome, TypeInv, TypeOK, Goto, Working

LEMMA TypeRead ==
    ASSUME NEW p \in Procs, TypeInv, SmsRead(p)
    PROVE  TypeInv'
<1>1. CASE sms \in SmsOpen
  BY <1>1 DEF SmsRead, TypeInv, TypeOK, TextPosition, rowVars, envVars, obsVars, Goto, Working
<1>2. CASE sms \notin SmsOpen
  BY <1>2, OutcomeType DEF SmsRead, TypeInv, TypeOK, rowVars, envVars, obsVars
<1>. QED
  BY <1>1, <1>2

\* Winning a claim keeps the counters in range.
LEMMA SlotType ==
    ASSUME NEW p \in Procs, TypeInv, WinsSlot(p), TakeSlot(p)
    PROVE  slot' \in 1..MaxSlot /\ mine' \in [Procs -> 0..MaxSlot] /\ mine'[p] = slot'
<1>1. mine[p] + 1 \in 1..MaxSlot
  BY ChainAssumption DEF WinsSlot, TypeInv, TypeOK
<1>. QED
  BY <1>1 DEF TakeSlot, TypeInv, TypeOK

LEMMA TypeCas ==
    ASSUME NEW p \in Procs, TypeInv, SmsCas(p)
    PROVE  TypeInv'
<1>1. CASE WinsSlot(p)
  <2>1. slot' \in 0..MaxSlot /\ mine' \in [Procs -> 0..MaxSlot]
    BY <1>1, SlotType DEF SmsCas
  <2>2. TextPosition'
    BY <1>1 DEF SmsCas, TypeInv, TypeOK, TextPosition, Goto
  <2>. QED
    BY <1>1, <2>1, <2>2 DEF SmsCas, TypeInv, TypeOK, rowVars, envVars, obsVars, Goto, Working
<1>2. CASE ~WinsSlot(p)
  BY <1>2, OutcomeType DEF SmsCas, TypeInv, TypeOK, rowVars, envVars, obsVars
<1>. QED
  BY <1>1, <1>2

\* Counting an accepted text keeps the observation in type, at any index.
LEMMA AcceptedType ==
    ASSUME NEW p \in Procs, TypeInv, Accepted(p)
    PROVE  sends' \in [1..MaxSlot -> Nat]
<1>1. sends \in [1..MaxSlot -> Nat]
  BY DEF TypeInv, TypeOK
<1>2. sends' = [sends EXCEPT ![mine[p]] = @ + 1]
  BY DEF Accepted
<1>. QED
  BY <1>1, <1>2, Bump

LEMMA TypeSendOk ==
    ASSUME NEW p \in Procs, TypeInv, SmsSendOk(p)
    PROVE  TypeInv'
<1>1. sends' \in [1..MaxSlot -> Nat]
  BY AcceptedType DEF SmsSendOk
<1>. QED
  BY <1>1, OutcomeType DEF SmsSendOk, TypeInv, TypeOK, rowVars, envVars

LEMMA TypeFails ==
    ASSUME NEW p \in Procs, TypeInv, SmsFails(p)
    PROVE  TypeInv'
<1>1. sends' \in [1..MaxSlot -> Nat]
  BY AcceptedType DEF SmsFails, TypeInv, TypeOK
<1>2. faults' \in 0..MaxFault
  BY ChainAssumption DEF SmsFails, Fault, TypeInv, TypeOK
<1>. QED
  BY <1>1, <1>2, OutcomeType DEF SmsFails, TypeInv, TypeOK, rowVars

LEMMA TypeFinish ==
    ASSUME NEW p \in Procs, TypeInv, FinishStep(p)
    PROVE  TypeInv'
BY DEF FinishStep, TypeInv, TypeOK, TextPosition, rowVars, envVars, obsVars, Goto, AfterStep

LEMMA FaultType == TypeOK /\ Fault => faults' \in 0..MaxFault
BY ChainAssumption DEF Fault, TypeOK

LEMMA TypeGone ==
    ASSUME NEW p \in Procs, TypeInv, StepError(p) \/ Crash(p)
    PROVE  TypeInv'
<1>1. faults' \in 0..MaxFault
  BY FaultType DEF StepError, Crash, TypeInv
<1>. QED
  BY <1>1 DEF StepError, Crash, TypeInv, TypeOK, TextPosition, rowVars, obsVars, Goto, AfterStep

LEMMA TypeSweep ==
    ASSUME NEW t \in Procs, TypeInv, SweepSelect(t)
    PROVE  TypeInv'
BY DEF SweepSelect, TypeInv, TypeOK, TextPosition, rowVars, envVars, obsVars, Goto

LEMMA TypeDrain ==
    ASSUME NEW t \in Procs, TypeInv, DrainSelect(t) \/ DrainMark(t)
    PROVE  TypeInv'
BY DEF DrainSelect, DrainMark, DrainResult, TypeInv, TypeOK, TextPosition, rowVars, envVars, obsVars, Goto

LEMMA TypeDrainClaim ==
    ASSUME NEW t \in Procs, TypeInv, DrainClaim(t)
    PROVE  TypeInv'
<1>1. slot' \in 0..MaxSlot /\ mine' \in [Procs -> 0..MaxSlot]
  <2>1. CASE WinsSlot(t)
    BY <2>1, SlotType DEF DrainClaim
  <2>2. CASE ~WinsSlot(t)
    BY <2>2 DEF DrainClaim, TypeInv, TypeOK
  <2>. QED
    BY <2>1, <2>2
<1>2. TextPosition'
  BY DEF DrainClaim, TypeInv, TypeOK, TextPosition, Goto
<1>. QED
  BY <1>1, <1>2 DEF DrainClaim, TypeInv, TypeOK, rowVars, envVars, obsVars, Goto

LEMMA TypeDrainSend ==
    ASSUME NEW t \in Procs, TypeInv, DrainSendOk(t) \/ DrainSendFails(t) \/ DrainError(t)
    PROVE  TypeInv'
<1>1. sends' \in [1..MaxSlot -> Nat]
  BY AcceptedType DEF DrainSendOk, DrainSendFails, DrainError, obsVars, TypeInv, TypeOK
<1>2. faults' \in 0..MaxFault
  BY FaultType DEF DrainSendOk, DrainSendFails, DrainError, envVars, TypeInv, TypeOK
<1>3. TextPosition'
  BY DEF DrainSendOk, DrainSendFails, DrainError, TypeInv, TypeOK, TextPosition, Goto
<1>. QED
  BY <1>1, <1>2, <1>3
  DEF DrainSendOk, DrainSendFails, DrainError, TypeInv, TypeOK, rowVars, envVars, obsVars, Goto

LEMMA TypeStep == TypeInv /\ [Next]_vars => TypeInv'
<1>1. TypeInv /\ UNCHANGED vars => TypeInv'
  BY DEF vars, TypeInv, TypeOK, TextPosition
<1>2. ASSUME NEW p \in Procs, TypeInv, Handle(p) PROVE TypeInv'
  BY <1>2, TypeClaim, TypeLost, TypePlace, TypeSafety, TypeRead, TypeCas, TypeSendOk,
     TypeFinish DEF Handle
<1>3. ASSUME NEW t \in Tickers, TypeInv, Tick(t) PROVE TypeInv'
  BY <1>3, ProcKinds, TypeSweep, TypeDrain, TypeDrainClaim, TypeDrainSend DEF Tick
<1>. QED
  BY <1>1, <1>2, <1>3, ProcKinds, Surfaces, TypeCreate, TypeAck, TypeMinute, TypeFails, TypeGone,
     TypeDrainSend DEF Next

\* The rows and the control state keep their types in every run.
THEOREM TypeCorrect == Spec => []TypeOK
<1>1. TypeInv => TypeOK
  BY DEF TypeInv
<1>. QED
  BY <1>1, TypeInit, TypeStep, PTL DEF Spec

-----------------------------------------------------------------------------
(* One text per claim.                                                     *)

TextInv == TypeInv /\ OneTextPerClaim /\ SlotOwnership

\* Steps that neither claim nor use a claim.
LEMMA TextQuiet ==
    ASSUME TextInv, TypeInv', UNCHANGED <<sends, slot>>,
           \A p \in Procs : pc'[p] \in Sending => pc[p] \in Sending /\ mine'[p] = mine[p]
    PROVE  TextInv'
BY DEF TextInv, OneTextPerClaim, SlotOwnership

\* A new claim is larger than every claim in use.
LEMMA TextClaim ==
    ASSUME NEW p \in Procs, NEW label, TextInv, TypeInv', WinsSlot(p), TakeSlot(p), Goto(p, label),
           UNCHANGED sends
    PROVE  TextInv'
<1>0. TypeInv
  BY DEF TextInv
<1>1. slot \in Nat /\ slot' = slot + 1 /\ slot' \in 1..MaxSlot
  BY <1>0, SlotType, ChainAssumption DEF WinsSlot, TakeSlot, TypeInv, TypeOK
<1>2. mine'[p] = slot' /\ \A q \in Procs : q # p => mine'[q] = mine[q]
  BY <1>0, SlotType DEF TakeSlot, TypeInv, TypeOK
<1>3. \A q \in Procs : q # p => pc'[q] = pc[q]
  BY <1>0 DEF Goto, TypeInv, TypeOK
<1>4. \A k \in 1..MaxSlot : k > slot => sends[k] = 0
  BY DEF TextInv, SlotOwnership
<1>5. sends'[slot'] = 0
  BY <1>1, <1>4
<1>6. \A q \in Procs : q # p /\ pc'[q] \in Sending =>
         mine'[q] \in 1..slot /\ sends'[mine'[q]] = 0
  BY <1>2, <1>3 DEF TextInv, SlotOwnership
<1>7. \A q \in Procs : pc'[q] \in Sending => mine'[q] \in 1..slot' /\ sends'[mine'[q]] = 0
  BY <1>1, <1>2, <1>5, <1>6
<1>8. \A q, r \in Procs :
         q # r /\ pc'[q] \in Sending /\ pc'[r] \in Sending => mine'[q] # mine'[r]
  <2> SUFFICES ASSUME NEW q \in Procs, NEW r \in Procs, q # r,
                      pc'[q] \in Sending, pc'[r] \in Sending
               PROVE  mine'[q] # mine'[r]
    OBVIOUS
  <2>1. CASE q # p /\ r # p
    BY <2>1, <1>2, <1>3 DEF TextInv, SlotOwnership
  <2>2. CASE q = p
    BY <2>2, <1>1, <1>2, <1>6
  <2>3. CASE r = p
    BY <2>3, <1>1, <1>2, <1>6
  <2>. QED
    BY <2>1, <2>2, <2>3
<1>9. \A k \in 1..MaxSlot : k > slot' => sends'[k] = 0
  BY <1>1, <1>4
<1>10. OneTextPerClaim'
  BY DEF TextInv, OneTextPerClaim
<1>. QED
  BY <1>7, <1>8, <1>9, <1>10 DEF TextInv, SlotOwnership

\* A claim is used by the one process that holds it, which then stops sending.
LEMMA TextUse ==
    ASSUME NEW p \in Procs, NEW label, TextInv, TypeInv', pc[p] \in Sending, Accepted(p),
           Goto(p, label), label \notin Sending, UNCHANGED <<slot, mine>>
    PROVE  TextInv'
<1>0. TypeInv
  BY DEF TextInv
<1>1. slot \in 0..MaxSlot /\ sends \in [1..MaxSlot -> Nat] /\ pc[p] \in Sending
  BY <1>0 DEF TypeInv, TypeOK
<1>2. mine[p] \in 1..slot /\ sends[mine[p]] = 0
  BY DEF TextInv, SlotOwnership
<1>3. mine[p] \in 1..MaxSlot
  BY <1>1, <1>2, ChainAssumption
<1>4. sends'[mine[p]] = 1 /\ \A k \in 1..MaxSlot : k # mine[p] => sends'[k] = sends[k]
  BY <1>1, <1>2, <1>3 DEF Accepted
<1>5. pc'[p] \notin Sending /\ \A q \in Procs : q # p => pc'[q] = pc[q]
  BY <1>0 DEF Goto, TypeInv, TypeOK
<1>6. OneTextPerClaim'
  BY <1>4 DEF TextInv, OneTextPerClaim
<1>7. \A k \in 1..MaxSlot : k > slot' => sends'[k] = 0
  BY <1>1, <1>2, <1>4 DEF TextInv, SlotOwnership
<1>8. ASSUME NEW q \in Procs, pc'[q] \in Sending
      PROVE  mine'[q] \in 1..slot' /\ sends'[mine'[q]] = 0
  <2>1. q # p /\ pc[q] \in Sending
    BY <1>5, <1>8
  <2>2. mine[q] \in 1..slot /\ sends[mine[q]] = 0 /\ mine[q] # mine[p]
    BY <2>1 DEF TextInv, SlotOwnership
  <2>3. mine[q] \in 1..MaxSlot
    BY <1>1, <2>2, ChainAssumption
  <2>. QED
    BY <2>2, <2>3, <1>4
<1>9. \A q, r \in Procs :
         q # r /\ pc'[q] \in Sending /\ pc'[r] \in Sending => mine'[q] # mine'[r]
  BY <1>5 DEF TextInv, SlotOwnership
<1>. QED
  BY <1>6, <1>7, <1>8, <1>9 DEF TextInv, SlotOwnership

LEMMA TextInit == Init => TextInv
<1>1. Init => OneTextPerClaim /\ SlotOwnership
  BY DEF Init, OneTextPerClaim, SlotOwnership, Sending
<1>. QED
  BY <1>1, TypeInit DEF TextInv

LEMMA TextHandle ==
    ASSUME NEW p \in Procs, TextInv, TypeInv', Handle(p)
    PROVE  TextInv'
<1>0. TypeInv
  BY DEF TextInv
<1>1. CASE ClaimStep(p) \/ LostRace(p) \/ PlaceContact(p) \/ SafetySms(p) \/ FinishStep(p)
  <2>1. UNCHANGED <<sends, slot, mine>>
    BY <1>1 DEF ClaimStep, LostRace, PlaceContact, SafetySms, FinishStep, rowVars, obsVars
  <2>2. \A q \in Procs : pc'[q] \in Sending => pc[q] \in Sending
    BY <1>0, <1>1 DEF ClaimStep, LostRace, PlaceContact, SafetySms, FinishStep, Goto, AfterStep,
       Sending, TypeInv, TypeOK
  <2>. QED
    BY <2>1, <2>2, TextQuiet
<1>2. CASE SmsRead(p)
  <2>1. UNCHANGED <<sends, slot>> /\ mine' = [mine EXCEPT ![p] = slot]
    BY <1>2 DEF SmsRead, rowVars, obsVars
  <2>2. \A q \in Procs : pc'[q] \in Sending => pc[q] \in Sending /\ q # p
    BY <1>0, <1>2 DEF SmsRead, SmsOutcome, Goto, Sending, TypeInv, TypeOK
  <2>3. \A q \in Procs : q # p => mine'[q] = mine[q]
    BY <1>0, <2>1 DEF TypeInv, TypeOK
  <2>. QED
    BY <2>1, <2>2, <2>3, TextQuiet
<1>3. CASE SmsCas(p)
  <2>1. CASE WinsSlot(p)
    BY <1>3, <2>1, TextClaim DEF SmsCas, obsVars
  <2>2. CASE ~WinsSlot(p)
    <3>1. UNCHANGED <<sends, slot, mine>>
      BY <1>3, <2>2 DEF SmsCas, obsVars
    <3>2. \A q \in Procs : pc'[q] \in Sending => pc[q] \in Sending
      BY <1>0, <1>3, <2>2 DEF SmsCas, SmsOutcome, Goto, Sending, TypeInv, TypeOK
    <3>. QED
      BY <3>1, <3>2, TextQuiet
  <2>. QED
    BY <2>1, <2>2
<1>4. CASE SmsSendOk(p)
  <2>1. pc[p] \in Sending /\ Accepted(p) /\ Goto(p, "act") /\ UNCHANGED <<slot, mine>>
    BY <1>4 DEF SmsSendOk, SmsOutcome, Sending, rowVars
  <2>2. "act" \notin Sending
    BY DEF Sending
  <2>. QED
    BY <2>1, <2>2, TextUse
<1>. QED
  BY <1>1, <1>2, <1>3, <1>4 DEF Handle

LEMMA TextFails ==
    ASSUME NEW p \in Procs, TextInv, TypeInv', SmsFails(p) \/ StepError(p) \/ Crash(p)
    PROVE  TextInv'
<1>0. TypeInv
  BY DEF TextInv
<1>1. \A q \in Procs : pc'[q] \in Sending => pc[q] \in Sending
  BY <1>0 DEF SmsFails, SmsOutcome, StepError, Crash, Goto, AfterStep, Sending, TypeInv, TypeOK
<1>2. UNCHANGED <<slot, mine>>
  BY DEF SmsFails, StepError, Crash, rowVars
<1>3. CASE UNCHANGED sends
  BY <1>1, <1>2, <1>3, TextQuiet
<1>4. CASE ~ UNCHANGED sends
  <2>1. pc[p] \in Sending /\ Accepted(p) /\ Goto(p, "act")
    BY <1>4 DEF SmsFails, SmsOutcome, StepError, Crash, Sending, obsVars
  <2>2. "act" \notin Sending
    BY DEF Sending
  <2>. QED
    BY <1>2, <2>1, <2>2, TextUse
<1>. QED
  BY <1>3, <1>4

LEMMA TextTick ==
    ASSUME NEW t \in Procs, TextInv, TypeInv', Tick(t) \/ DrainSendFails(t) \/ DrainError(t)
    PROVE  TextInv'
<1>0. TypeInv
  BY DEF TextInv
<1>1. CASE SweepSelect(t) \/ DrainMark(t) \/ DrainError(t)
  <2>1. UNCHANGED <<sends, slot, mine>>
    BY <1>1 DEF SweepSelect, DrainMark, DrainError, rowVars, obsVars
  <2>2. \A q \in Procs : pc'[q] \in Sending => pc[q] \in Sending
    BY <1>0, <1>1 DEF SweepSelect, DrainMark, DrainError, Goto, Sending, TypeInv, TypeOK
  <2>. QED
    BY <2>1, <2>2, TextQuiet
<1>2. CASE DrainSelect(t)
  <2>1. UNCHANGED <<sends, slot>> /\ mine' = [mine EXCEPT ![t] = slot]
    BY <1>2 DEF DrainSelect, rowVars, obsVars
  <2>2. \A q \in Procs : pc'[q] \in Sending => pc[q] \in Sending /\ q # t
    BY <1>0, <1>2 DEF DrainSelect, Goto, Sending, TypeInv, TypeOK
  <2>3. \A q \in Procs : q # t => mine'[q] = mine[q]
    BY <1>0, <2>1 DEF TypeInv, TypeOK
  <2>. QED
    BY <2>1, <2>2, <2>3, TextQuiet
<1>3. CASE DrainClaim(t)
  <2>1. CASE WinsSlot(t)
    <3>1. TakeSlot(t) /\ UNCHANGED sends
      BY <1>3, <2>1 DEF DrainClaim, obsVars
    <3>2. PICK label : Goto(t, label)
      BY <1>3, <2>1 DEF DrainClaim
    <3>. QED
      BY <2>1, <3>1, <3>2, TextClaim
  <2>2. CASE ~WinsSlot(t)
    <3>1. UNCHANGED <<sends, slot, mine>>
      BY <1>3, <2>2 DEF DrainClaim, obsVars
    <3>2. \A q \in Procs : pc'[q] \in Sending => pc[q] \in Sending
      BY <1>0, <1>3, <2>2 DEF DrainClaim, Goto, Sending, TypeInv, TypeOK
    <3>. QED
      BY <3>1, <3>2, TextQuiet
  <2>. QED
    BY <2>1, <2>2
<1>4. CASE DrainSendOk(t) \/ DrainSendFails(t)
  <2>1. pc[t] \in Sending /\ UNCHANGED <<slot, mine>>
    BY <1>4 DEF DrainSendOk, DrainSendFails, Sending, rowVars
  <2>2. PICK label \in {"drainsent", "drainfailed"} : Goto(t, label)
    BY <1>4 DEF DrainSendOk, DrainSendFails
  <2>3. label \notin Sending
    BY <2>2 DEF Sending
  <2>4. CASE UNCHANGED sends
    <3>1. \A q \in Procs : pc'[q] \in Sending => pc[q] \in Sending
      BY <1>0, <2>2, <2>3 DEF Goto, TypeInv, TypeOK
    <3>. QED
      BY <2>1, <2>4, <3>1, TextQuiet
  <2>5. CASE Accepted(t)
    BY <2>1, <2>2, <2>3, <2>5, TextUse
  <2>. QED
    BY <1>4, <2>4, <2>5 DEF DrainSendOk, DrainSendFails
<1>. QED
  BY <1>1, <1>2, <1>3, <1>4 DEF Tick

LEMMA TextStep == TextInv /\ [Next]_vars => TextInv'
<1> SUFFICES ASSUME TextInv, [Next]_vars PROVE TextInv'
  OBVIOUS
<1>1. TypeInv'
  BY TypeStep DEF TextInv
<1>2. CASE CreateEmergency
  <2>1. UNCHANGED <<sends, slot, mine>>
    BY <1>2 DEF CreateEmergency, obsVars
  <2>2. \A q \in Procs : pc'[q] \in Sending => pc[q] \in Sending
    BY <1>2 DEF CreateEmergency, Goto, Sending, TextInv, TypeInv, TypeOK
  <2>. QED
    BY <1>1, <2>1, <2>2, TextQuiet
<1>3. CASE Acknowledge \/ Minute \/ UNCHANGED vars
  <2>1. UNCHANGED <<sends, slot, mine, pc>>
    BY <1>3 DEF Acknowledge, Minute, vars, rowVars, obsVars
  <2>. QED
    BY <1>1, <2>1, TextQuiet
<1>. QED
  BY <1>1, <1>2, <1>3, ProcKinds, Surfaces, TextHandle, TextFails, TextTick DEF Next

\* Each claim of the emergency_sms row pays for at most one text, whatever the
\* number of tickers, crashes and failed requests.
THEOREM TextOnce == Spec => []OneTextPerClaim
<1>1. TextInv => OneTextPerClaim
  BY DEF TextInv
<1>. QED
  BY <1>1, TextInit, TextStep, PTL DEF Spec

-----------------------------------------------------------------------------
(* Each step once.                                                         *)

StepInv == TypeInv /\ EachStepOnce /\ StepOwnership

\* Positions are numbers, before and after a step.
LEMMA PosNat ==
    /\ TypeOK => \A q \in Procs : pos[q] \in Nat
    /\ TypeOK' => \A q \in Procs : pos'[q] \in Nat
<1>1. 1..(MaxActions + 1) \subseteq Nat
  BY DEF MaxActions
<1>2. TypeOK => pos \in [Procs -> 1..(MaxActions + 1)]
  BY DEF TypeOK
<1>3. TypeOK' => pos' \in [Procs -> 1..(MaxActions + 1)]
  BY DEF TypeOK
<1>. QED
  BY <1>1, <1>2, <1>3

\* Steps that leave the row's attempt and the observations alone: whoever
\* works on a step worked on it before and has not moved back.
LEMMA StepQuiet ==
    ASSUME StepInv, TypeInv', UNCHANGED <<placed, audit, attempt>>,
           \A p \in Procs : pc'[p] \in Working =>
               pc[p] \in Working /\ old'[p] = old[p] /\ pos'[p] >= pos[p]
    PROVE  StepInv'
<1>1. \A p \in Procs : pos[p] \in Nat /\ pos'[p] \in Nat
  <2>1. TypeOK /\ TypeOK'
    BY DEF StepInv, TypeInv
  <2>. QED
    BY <2>1, PosNat
<1>2. ASSUME NEW p \in Procs, pc'[p] \in Working
      PROVE  /\ old'[p] < attempt' /\ audit'[old'[p]] = 0
             /\ \A k \in 1..MaxActions : k >= pos'[p] => placed'[old'[p]][k] = 0
  <2>1. /\ old[p] < attempt /\ audit[old[p]] = 0
        /\ \A k \in 1..MaxActions : k >= pos[p] => placed[old[p]][k] = 0
    BY <1>2 DEF StepInv, StepOwnership
  <2>2. \A k \in 1..MaxActions : k >= pos'[p] => k >= pos[p]
    BY <1>1, <1>2
  <2>. QED
    BY <1>2, <2>1, <2>2
<1>3. \A p, q \in Procs :
          p # q /\ pc'[p] \in Working /\ pc'[q] \in Working => old'[p] # old'[q]
  BY DEF StepInv, StepOwnership
<1>4. EachStepOnce' /\ \A s \in Steps : s >= attempt' =>
          audit'[s] = 0 /\ \A k \in 1..MaxActions : placed'[s][k] = 0
  BY DEF StepInv, EachStepOnce, StepOwnership
<1>. QED
  BY <1>2, <1>3, <1>4 DEF StepInv, StepOwnership

\* A claim starts a step nobody has touched and nobody works on.
LEMMA StepClaim ==
    ASSUME NEW p \in Procs, StepInv, TypeInv', ClaimStep(p)
    PROVE  StepInv'
<1>0. TypeInv
  BY DEF StepInv
<1>1. attempt \in Nat /\ old[p] = attempt /\ attempt' = attempt + 1 /\ old' = old
      /\ UNCHANGED <<placed, audit>>
  BY <1>0, ChainAssumption DEF ClaimStep, WinsStep, TypeInv, TypeOK, Steps, obsVars
<1>2. \A q \in Procs : q # p => pc'[q] = pc[q] /\ pos'[q] = pos[q]
  BY <1>0 DEF ClaimStep, Goto, TypeInv, TypeOK
<1>3. old[p] \in Steps
  BY <1>0 DEF TypeInv, TypeOK
<1>4. audit[old[p]] = 0 /\ \A k \in 1..MaxActions : placed[old[p]][k] = 0
  BY <1>1, <1>3 DEF StepInv, StepOwnership
<1>5. ASSUME NEW q \in Procs, pc'[q] \in Working, q # p
      PROVE  /\ old[q] < attempt /\ audit[old[q]] = 0
             /\ \A k \in 1..MaxActions : k >= pos'[q] => placed[old[q]][k] = 0
  BY <1>2, <1>5 DEF StepInv, StepOwnership
<1>6. \A q \in Procs : old[q] \in Nat
  BY <1>0, ChainAssumption DEF TypeInv, TypeOK, Steps
<1>7. \A q \in Procs : pc'[q] \in Working =>
          /\ old'[q] < attempt' /\ audit'[old'[q]] = 0
          /\ \A k \in 1..MaxActions : k >= pos'[q] => placed'[old'[q]][k] = 0
  BY <1>1, <1>4, <1>5, <1>6
<1>8. \A q, r \in Procs :
          q # r /\ pc'[q] \in Working /\ pc'[r] \in Working => old'[q] # old'[r]
  <2> SUFFICES ASSUME NEW q \in Procs, NEW r \in Procs, q # r,
                      pc'[q] \in Working, pc'[r] \in Working
               PROVE  old[q] # old[r]
    BY <1>1
  <2>1. CASE q # p /\ r # p
    BY <2>1, <1>2 DEF StepInv, StepOwnership
  <2>2. CASE q = p
    BY <2>2, <1>1, <1>5, <1>6
  <2>3. CASE r = p
    BY <2>3, <1>1, <1>5, <1>6
  <2>. QED
    BY <2>1, <2>2, <2>3
<1>9. \A s \in Steps : s >= attempt' =>
          audit'[s] = 0 /\ \A k \in 1..MaxActions : placed'[s][k] = 0
  <2>1. \A s \in Steps : s >= attempt' => s >= attempt
    BY <1>1, ChainAssumption DEF Steps
  <2>. QED
    BY <1>1, <2>1 DEF StepInv, StepOwnership
<1>10. EachStepOnce'
  BY <1>1 DEF StepInv, EachStepOnce
<1>. QED
  BY <1>7, <1>8, <1>9, <1>10 DEF StepInv, StepOwnership

\* A contact is requested from the position of the step's owner, once.
LEMMA StepPlace ==
    ASSUME NEW p \in Procs, StepInv, TypeInv', PlaceContact(p)
    PROVE  StepInv'
<1>0. TypeInv
  BY DEF StepInv
<1>1. UNCHANGED <<pc, old, audit, attempt>> /\ pc[p] \in Working
  BY DEF PlaceContact, rowVars, Working
<1>2. pos[p] \in 1..MaxActions /\ old[p] \in Steps
  <2>1. pos[p] <= MaxActions
    BY <1>0, RoomToMove DEF PlaceContact, TypeInv
  <2>2. pos[p] \in 1..(MaxActions + 1) /\ old[p] \in Steps
    BY <1>0 DEF TypeInv, TypeOK
  <2>. QED
    BY <2>1, <2>2 DEF MaxActions
<1>3. pos'[p] = pos[p] + 1 /\ \A q \in Procs : q # p => pos'[q] = pos[q]
  BY <1>0 DEF PlaceContact, TypeInv, TypeOK
<1>4. CASE placed' = placed
  <2>1. \A q \in Procs : pos'[q] >= pos[q]
    <3>1. \A q \in Procs : pos[q] \in Nat
      BY <1>0, PosNat DEF TypeInv
    <3>. QED
      BY <1>3, <3>1
  <2>. QED
    BY <1>1, <1>4, <2>1, StepQuiet
<1>5. CASE placed' = [placed EXCEPT ![old[p]][pos[p]] = @ + 1]
  <2>0. placed \in [Steps -> [1..MaxActions -> Nat]]
    BY <1>0 DEF TypeInv, TypeOK
  <2>1. \A s \in Steps : s # old[p] => placed'[s] = placed[s]
    BY <1>2, <1>5, <2>0
  <2>2. placed'[old[p]] = [placed[old[p]] EXCEPT ![pos[p]] = @ + 1]
    BY <1>2, <1>5, <2>0
  <2>3. \A k \in 1..MaxActions : k # pos[p] => placed'[old[p]][k] = placed[old[p]][k]
    BY <1>2, <2>0, <2>2
  <2>4. placed[old[p]][pos[p]] = 0 /\ old[p] < attempt /\ audit[old[p]] = 0
        /\ \A k \in 1..MaxActions : k >= pos[p] => placed[old[p]][k] = 0
    <3>1. pos[p] >= pos[p]
      BY <1>2 DEF MaxActions
    <3>. QED
      BY <1>1, <1>2, <3>1 DEF StepInv, StepOwnership
  <2>5. placed'[old[p]][pos[p]] = 1
    <3>1. placed[old[p]] \in [1..MaxActions -> Nat]
      BY <1>2, <2>0
    <3>2. placed'[old[p]][pos[p]] = placed[old[p]][pos[p]] + 1
      BY <1>2, <2>2, <3>1
    <3>. QED
      BY <2>4, <3>2
  <2>6. EachStepOnce'
    <3> SUFFICES ASSUME NEW s \in Steps, NEW k \in 1..MaxActions
                 PROVE  audit[s] <= 1 /\ placed'[s][k] <= 1
      BY <1>1, <1>2 DEF EachStepOnce
    <3>1. audit[s] <= 1 /\ placed[s][k] <= 1
      BY DEF StepInv, EachStepOnce
    <3>. QED
      BY <3>1, <2>1, <2>3, <2>5
  <2>7. \A s \in Steps : s >= attempt' =>
          audit'[s] = 0 /\ \A k \in 1..MaxActions : placed'[s][k] = 0
    <3>1. \A s \in Steps : s >= attempt => s # old[p]
      <4>1. attempt \in Nat /\ old[p] \in Nat /\ Steps \subseteq Nat
        BY <1>0, <1>2, ChainAssumption DEF Steps, TypeInv, TypeOK
      <4>. QED
        BY <4>1, <2>4
    <3>. QED
      BY <1>1, <2>1, <3>1 DEF StepInv, StepOwnership
  <2>8. ASSUME NEW q \in Procs, pc'[q] \in Working
        PROVE  /\ old'[q] < attempt' /\ audit'[old'[q]] = 0
               /\ \A k \in 1..MaxActions : k >= pos'[q] => placed'[old'[q]][k] = 0
    <3>1. CASE q = p
      <4>1. \A k \in 1..MaxActions : k >= pos'[p] => k >= pos[p] /\ k # pos[p]
        BY <1>2, <1>3 DEF MaxActions
      <4>. QED
        BY <3>1, <4>1, <1>1, <2>3, <2>4
    <3>2. CASE q # p
      <4>1. old[q] # old[p] /\ old[q] \in Steps
        BY <1>0, <1>1, <2>8, <3>2 DEF StepInv, StepOwnership, TypeInv, TypeOK
      <4>2. /\ old[q] < attempt /\ audit[old[q]] = 0
            /\ \A k \in 1..MaxActions : k >= pos[q] => placed[old[q]][k] = 0
        BY <1>1, <2>8 DEF StepInv, StepOwnership
      <4>. QED
        BY <1>1, <1>3, <3>2, <2>1, <4>1, <4>2
    <3>. QED
      BY <3>1, <3>2
  <2>9. \A q, r \in Procs :
          q # r /\ pc'[q] \in Working /\ pc'[r] \in Working => old'[q] # old'[r]
    BY <1>1 DEF StepInv, StepOwnership
  <2>. QED
    BY <2>6, <2>7, <2>8, <2>9 DEF StepInv, StepOwnership
<1>. QED
  BY <1>4, <1>5 DEF PlaceContact

\* The owner writes the audit row and lets go of the step.
LEMMA StepFinish ==
    ASSUME NEW p \in Procs, StepInv, TypeInv', FinishStep(p)
    PROVE  StepInv'
<1>0. TypeInv
  BY DEF StepInv
<1>1. UNCHANGED <<old, pos, placed, attempt>> /\ pc[p] \in Working
  BY DEF FinishStep, obsVars, Working
<1>2. old[p] \in Steps /\ audit \in [Steps -> Nat]
  BY <1>0 DEF TypeInv, TypeOK
<1>3. audit'[old[p]] = audit[old[p]] + 1 /\ \A s \in Steps : s # old[p] => audit'[s] = audit[s]
  BY <1>2 DEF FinishStep
<1>4. old[p] < attempt /\ audit[old[p]] = 0
  BY <1>1 DEF StepInv, StepOwnership
<1>5. \A q \in Procs : pc'[q] \in Working => q # p /\ pc[q] \in Working
  BY <1>0 DEF FinishStep, Goto, AfterStep, Working, TypeInv, TypeOK
<1>6. EachStepOnce'
  <2>1. \A s \in Steps : audit'[s] <= 1
    BY <1>2, <1>3, <1>4 DEF StepInv, EachStepOnce
  <2>. QED
    BY <1>1, <2>1 DEF StepInv, EachStepOnce
<1>7. \A s \in Steps : s >= attempt' =>
          audit'[s] = 0 /\ \A k \in 1..MaxActions : placed'[s][k] = 0
  <2>1. \A s \in Steps : s >= attempt => s # old[p]
    <3>1. attempt \in Nat /\ old[p] \in Nat /\ Steps \subseteq Nat
      BY <1>0, <1>2, ChainAssumption DEF Steps, TypeInv, TypeOK
    <3>. QED
      BY <3>1, <1>4
  <2>. QED
    BY <1>1, <1>3, <2>1 DEF StepInv, StepOwnership
<1>8. ASSUME NEW q \in Procs, pc'[q] \in Working
      PROVE  /\ old'[q] < attempt' /\ audit'[old'[q]] = 0
             /\ \A k \in 1..MaxActions : k >= pos'[q] => placed'[old'[q]][k] = 0
  <2>1. q # p /\ pc[q] \in Working
    BY <1>5, <1>8
  <2>2. old[q] # old[p] /\ old[q] \in Steps
    BY <1>0, <1>1, <2>1 DEF StepInv, StepOwnership, TypeInv, TypeOK
  <2>. QED
    BY <1>1, <1>3, <2>1, <2>2 DEF StepInv, StepOwnership
<1>9. \A q, r \in Procs :
          q # r /\ pc'[q] \in Working /\ pc'[r] \in Working => old'[q] # old'[r]
  BY <1>1, <1>5 DEF StepInv, StepOwnership
<1>. QED
  BY <1>6, <1>7, <1>8, <1>9 DEF StepInv, StepOwnership

LEMMA StepInit == Init => StepInv
<1>1. ASSUME Init PROVE EachStepOnce /\ StepOwnership
  <2>1. \A s \in Steps : audit[s] = 0 /\ \A k \in 1..MaxActions : placed[s][k] = 0
    BY <1>1 DEF Init
  <2>2. \A p \in Procs : pc[p] \notin Working
    BY <1>1 DEF Init, Working
  <2>. QED
    BY <2>1, <2>2 DEF EachStepOnce, StepOwnership
<1>. QED
  BY <1>1, TypeInit DEF StepInv

\* Any other step of a process inside a step keeps or leaves it.
LEMMA StepOther ==
    ASSUME NEW p \in Procs, StepInv, TypeInv',
           \/ LostRace(p) \/ SafetySms(p) \/ SmsRead(p) \/ SmsCas(p) \/ SmsSendOk(p)
           \/ SmsFails(p) \/ StepError(p) \/ Crash(p)
    PROVE  StepInv'
<1>0. TypeInv
  BY DEF StepInv
<1>1. UNCHANGED <<placed, audit, attempt, old>>
  BY DEF LostRace, SafetySms, SmsRead, SmsCas, SmsSendOk, SmsFails, StepError, Crash, rowVars, obsVars
<1>2. \A q \in Procs : pc'[q] \in Working => pc[q] \in Working
  BY <1>0 DEF LostRace, SafetySms, SmsRead, SmsCas, SmsSendOk, SmsFails, StepError, Crash,
     SmsOutcome, Goto, AfterStep, Working, TypeInv, TypeOK
<1>3. pos' = pos \/ pos' = [pos EXCEPT ![p] = @ + 1]
  BY DEF LostRace, SafetySms, SmsRead, SmsCas, SmsSendOk, SmsFails, StepError, Crash, SmsOutcome
<1>4. \A q \in Procs : pos[q] \in Nat
  BY <1>0, PosNat DEF TypeInv
<1>5. \A q \in Procs : pos'[q] = pos[q] \/ pos'[q] = pos[q] + 1
  BY <1>0, <1>3 DEF TypeInv, TypeOK
<1>6. \A q \in Procs : pos'[q] >= pos[q]
  BY <1>4, <1>5
<1>. QED
  BY <1>1, <1>2, <1>6, StepQuiet

\* The sweep's SELECT and the drain pass never touch a step.
LEMMA StepTick ==
    ASSUME NEW t \in Procs, StepInv, TypeInv', Tick(t) \/ DrainSendFails(t) \/ DrainError(t)
    PROVE  StepInv'
<1>0. TypeInv
  BY DEF StepInv
<1>1. UNCHANGED <<placed, audit, attempt, pos>>
  BY DEF Tick, SweepSelect, DrainSelect, DrainClaim, DrainSendOk, DrainMark, DrainSendFails,
     DrainError, rowVars, obsVars
<1>2. \A q \in Procs : pc'[q] \in Working => q # t /\ pc[q] \in Working
  BY <1>0 DEF Tick, SweepSelect, DrainSelect, DrainClaim, DrainSendOk, DrainMark, DrainSendFails,
     DrainError, Goto, Working, TypeInv, TypeOK
<1>3. \A q \in Procs : q # t => old'[q] = old[q]
  BY <1>0 DEF Tick, SweepSelect, DrainSelect, DrainClaim, DrainSendOk, DrainMark, DrainSendFails,
     DrainError, TypeInv, TypeOK
<1>4. \A q \in Procs : pos[q] \in Nat
  BY <1>0, PosNat DEF TypeInv
<1>. QED
  BY <1>1, <1>2, <1>3, <1>4, StepQuiet

LEMMA StepStep == StepInv /\ [Next]_vars => StepInv'
<1> SUFFICES ASSUME StepInv, [Next]_vars PROVE StepInv'
  OBVIOUS
<1>0. TypeInv /\ TypeInv'
  BY TypeStep DEF StepInv
<1>1. \A q \in Procs : pos[q] \in Nat
  BY <1>0, PosNat DEF TypeInv
<1>2. CASE CreateEmergency \/ Acknowledge \/ Minute \/ UNCHANGED vars
  <2>1. UNCHANGED <<placed, audit, attempt, old, pos>>
    BY <1>2 DEF CreateEmergency, Acknowledge, Minute, vars, rowVars, obsVars
  <2>2. \A q \in Procs : pc'[q] \in Working => pc[q] \in Working
    BY <1>0, <1>2 DEF CreateEmergency, Acknowledge, Minute, vars, Goto, Working, TypeInv, TypeOK
  <2>. QED
    BY <1>0, <1>1, <2>1, <2>2, StepQuiet
<1>3. ASSUME NEW p \in Procs, Handle(p) PROVE StepInv'
  BY <1>0, <1>3, StepClaim, StepPlace, StepFinish, StepOther DEF Handle
<1>4. ASSUME NEW p \in Procs, SmsFails(p) \/ StepError(p) \/ Crash(p) PROVE StepInv'
  BY <1>0, <1>4, StepOther
<1>. QED
  BY <1>0, <1>2, <1>3, <1>4, ProcKinds, Surfaces, StepTick DEF Next

\* No contact of any step is requested twice and no step is audited twice,
\* for any number of overlapping tickers, any crashes and any bounds.
THEOREM StepsOnce == Spec => []EachStepOnce
<1>1. StepInv => EachStepOnce
  BY DEF StepInv
<1>. QED
  BY <1>1, StepInit, StepStep, PTL DEF Spec

-----------------------------------------------------------------------------
(* The schedule.                                                           *)

ScheduleInv == TypeInv /\ OnSchedule /\ ClaimsAreDue

LEMMA ScheduleInit == Init => ScheduleInv
<1>1. ASSUME Init PROVE OnSchedule
  <2>1. attempt = 0 /\ call = "none" /\ \A s \in Steps : ~(s < attempt)
    BY <1>1, ChainAssumption DEF Init, Steps
  <2>. QED
    BY <2>1 DEF OnSchedule
<1>2. Init => ClaimsAreDue
  BY ProcKinds DEF Init, ClaimsAreDue
<1>. QED
  BY <1>1, <1>2, TypeInit DEF ScheduleInv

\* The numbers the schedule compares.
LEMMA ScheduleTypes ==
    ASSUME TypeOK
    PROVE  /\ now \in Nat /\ attempt \in Nat /\ attempt \in Steps /\ next \in Nat
           /\ \A q \in Procs : old[q] \in Nat /\ NextOffset(old[q]) \in Nat
           /\ \A s \in Steps : s \in Nat /\ NextOffset(s) \in Nat
<1>1. \A s \in Steps : s \in Nat /\ NextOffset(s) \in Nat
  BY ChainAssumption, OffsetNat DEF Steps
<1>2. now \in Nat /\ attempt \in Steps /\ next \in Nat /\ old \in [Procs -> Steps]
  BY ChainAssumption DEF TypeOK
<1>. QED
  BY <1>1, <1>2

\* Steps that do not move the row, with the clock standing or running.
LEMMA ScheduleQuiet ==
    ASSUME ScheduleInv, TypeInv', UNCHANGED <<next, attempt>>, old'[Inline] = old[Inline],
           call' = "none" <=> call = "none", now' \in Nat, now' >= now,
           \A p \in Procs : pc'[p] = "claim" => pc[p] = "claim" /\ old'[p] = old[p]
    PROVE  ScheduleInv'
<1>1. TypeOK
  BY DEF ScheduleInv, TypeInv
<1>2. \A p \in Procs : pc'[p] = "claim" => call' # "none" /\ NextOffset(old'[p]) <= now'
  BY <1>1, ScheduleTypes DEF ScheduleInv, ClaimsAreDue
<1>3. \A s \in Steps : s < attempt' => NextOffset(s) <= now'
  BY <1>1, ScheduleTypes DEF ScheduleInv, OnSchedule
<1>. QED
  BY <1>2, <1>3 DEF ScheduleInv, ClaimsAreDue, OnSchedule

\* The row is born due at once, with its step 0 in the webhook's hands.
LEMMA ScheduleCreate ==
    ASSUME ScheduleInv, TypeInv', CreateEmergency
    PROVE  ScheduleInv'
<1>1. call = "none" /\ call' = "pending" /\ next' = 0 /\ UNCHANGED <<attempt, old, now>>
  BY DEF CreateEmergency, envVars
<1>2. attempt = 0 /\ old[Inline] = 0 /\ \A q \in Procs : pc[q] # "claim"
  BY <1>1 DEF ScheduleInv, ClaimsAreDue
<1>3. now \in Nat /\ \A s \in Steps : ~(s < 0)
  BY ScheduleTypes DEF ScheduleInv, TypeInv
<1>4. \A q \in Procs : pc'[q] = "claim" => q = Inline
  BY <1>2 DEF CreateEmergency, Goto, ScheduleInv, TypeInv, TypeOK
<1>5. ClaimsAreDue'
  BY <1>1, <1>2, <1>3, <1>4, OffsetNat DEF ClaimsAreDue
<1>6. OnSchedule'
  BY <1>1, <1>2, <1>3, OffsetNat DEF OnSchedule
<1>. QED
  BY <1>5, <1>6 DEF ScheduleInv

\* A sweep only picks up a row it has seen due.
LEMMA ScheduleSweep ==
    ASSUME NEW t \in Tickers, ScheduleInv, TypeInv', SweepSelect(t)
    PROVE  ScheduleInv'
<1>0. TypeOK /\ t \in Procs /\ t # Inline /\ Inline \in Procs
  BY ChainAssumption DEF ScheduleInv, TypeInv, Procs
<1>1. UNCHANGED <<call, attempt, next, now>>
  BY DEF SweepSelect, rowVars, envVars
<1>2. old'[t] = attempt /\ \A q \in Procs : q # t => old'[q] = old[q] /\ pc'[q] = pc[q]
  BY <1>0 DEF SweepSelect, Goto, TypeOK
<1>3. pc'[t] = "claim" => call = "pending" /\ next <= now
  BY <1>0 DEF SweepSelect, Goto, Due, TypeOK
<1>4. pc'[t] = "claim" => call # "none" /\ NextOffset(attempt) <= now
  BY <1>3 DEF ScheduleInv, OnSchedule
<1>5. ClaimsAreDue'
  BY <1>0, <1>1, <1>2, <1>4 DEF ScheduleInv, ClaimsAreDue
<1>6. OnSchedule'
  BY <1>1 DEF ScheduleInv, OnSchedule
<1>. QED
  BY <1>5, <1>6 DEF ScheduleInv

\* The claim moves the row to the due time of its next attempt.
LEMMA ScheduleClaim ==
    ASSUME NEW p \in Procs, ScheduleInv, TypeInv', ClaimStep(p)
    PROVE  ScheduleInv'
<1>0. TypeOK
  BY DEF ScheduleInv, TypeInv
<1>1. /\ pc[p] = "claim" /\ call = "pending" /\ old[p] = attempt
      /\ attempt' = attempt + 1 /\ next' = NextOffset(attempt + 1)
      /\ UNCHANGED <<call, old, now>>
  BY DEF ClaimStep, WinsStep, envVars
<1>2. NextOffset(attempt) <= now
  BY <1>1 DEF ScheduleInv, ClaimsAreDue
<1>3. \A s \in Steps : s < attempt' => s < attempt \/ s = attempt
  BY <1>0, <1>1, ScheduleTypes
<1>4. \A s \in Steps : s < attempt' => NextOffset(s) <= now'
  BY <1>1, <1>2, <1>3 DEF ScheduleInv, OnSchedule
<1>5. \A q \in Procs : pc'[q] = "claim" => pc[q] = "claim"
  BY <1>0 DEF ClaimStep, Goto, TypeOK
<1>6. OnSchedule'
  BY <1>1, <1>4 DEF OnSchedule
<1>7. ClaimsAreDue'
  BY <1>1, <1>5 DEF ScheduleInv, ClaimsAreDue
<1>. QED
  BY <1>6, <1>7 DEF ScheduleInv

\* Every other step of a process leaves the row and the clock alone.
LEMMA ScheduleOther ==
    ASSUME NEW p \in Procs, ScheduleInv, TypeInv',
           \/ LostRace(p) \/ PlaceContact(p) \/ SafetySms(p) \/ SmsRead(p) \/ SmsCas(p)
           \/ SmsSendOk(p) \/ FinishStep(p) \/ SmsFails(p) \/ StepError(p) \/ Crash(p)
           \/ DrainSelect(p) \/ DrainClaim(p) \/ DrainSendOk(p) \/ DrainMark(p)
           \/ DrainSendFails(p) \/ DrainError(p)
    PROVE  ScheduleInv'
<1>0. TypeOK
  BY DEF ScheduleInv, TypeInv
<1>1. UNCHANGED <<call, attempt, next, old, now>>
  BY DEF LostRace, PlaceContact, SafetySms, SmsRead, SmsCas, SmsSendOk, FinishStep, SmsFails,
     StepError, Crash, DrainSelect, DrainClaim, DrainSendOk, DrainMark, DrainSendFails,
     DrainError, rowVars, envVars
<1>2. \A q \in Procs : pc'[q] = "claim" => pc[q] = "claim"
  BY <1>0 DEF LostRace, PlaceContact, SafetySms, SmsRead, SmsCas, SmsSendOk, FinishStep,
     SmsFails, StepError, Crash, DrainSelect, DrainClaim, DrainSendOk, DrainMark,
     DrainSendFails, DrainError, SmsOutcome, Goto, AfterStep, TypeOK
<1>3. now \in Nat
  BY <1>0, ScheduleTypes
<1>. QED
  BY <1>1, <1>2, <1>3, ScheduleQuiet

LEMMA ScheduleStep == ScheduleInv /\ [Next]_vars => ScheduleInv'
<1> SUFFICES ASSUME ScheduleInv, [Next]_vars PROVE ScheduleInv'
  OBVIOUS
<1>0. TypeInv' /\ now \in Nat
  BY TypeStep, ScheduleTypes DEF ScheduleInv, TypeInv
<1>1. CASE Acknowledge \/ Minute \/ UNCHANGED vars
  <2>1. UNCHANGED <<attempt, next, old, pc>> /\ (call' = "none" <=> call = "none")
    BY <1>1 DEF Acknowledge, Minute, vars, rowVars
  <2>2. now' = now \/ now' = now + 1
    BY <1>1 DEF Acknowledge, Minute, vars, envVars
  <2>3. now' \in Nat /\ now' >= now
    BY <1>0, <2>2
  <2>. QED
    BY <1>0, <2>1, <2>3, ScheduleQuiet
<1>2. CASE CreateEmergency
  BY <1>0, <1>2, ScheduleCreate
<1>3. ASSUME NEW p \in Procs, Handle(p) \/ SmsFails(p) \/ StepError(p) \/ Crash(p)
      PROVE  ScheduleInv'
  BY <1>0, <1>3, ScheduleClaim, ScheduleOther DEF Handle
<1>4. ASSUME NEW t \in Tickers, Tick(t) \/ DrainSendFails(t) \/ DrainError(t)
      PROVE  ScheduleInv'
  BY <1>0, <1>4, ProcKinds, ScheduleSweep, ScheduleOther DEF Tick
<1>. QED
  BY <1>1, <1>2, <1>3, <1>4, Surfaces DEF Next

\* No step runs before its minute, and a late tick never shifts the steps
\* after it, in every run of the chain.
THEOREM StepsOnSchedule == Spec => []OnSchedule
<1>1. ScheduleInv => OnSchedule
  BY DEF ScheduleInv
<1>. QED
  BY <1>1, ScheduleInit, ScheduleStep, PTL DEF Spec

-----------------------------------------------------------------------------
(* What the row says about the text is true.                               *)


OutcomeInv == TextInv /\ SentMeansDelivered /\ ExhaustedMeansUnreachable /\ OutcomesAreTrue

\* A text that was accepted stays accepted.
LEMMA DeliveredStays ==
    ASSUME TypeOK, NEW p \in Procs, sends' = sends \/ Accepted(p), Delivered
    PROVE  Delivered'
<1>1. PICK k \in 1..MaxSlot : sends[k] > 0
  BY DEF Delivered
<1>2. sends \in [1..MaxSlot -> Nat]
  BY DEF TypeOK
<1>3. sends'[k] = sends[k] \/ sends'[k] = sends[k] + 1
  BY <1>2 DEF Accepted
<1>. QED
  BY <1>1, <1>2, <1>3 DEF Delivered

\* A text accepted under a claim is a delivered text.
LEMMA AcceptedDelivers ==
    ASSUME TextInv, NEW p \in Procs, pc[p] \in Sending, Accepted(p)
    PROVE  Delivered'
<1>1. sends \in [1..MaxSlot -> Nat] /\ slot \in 0..MaxSlot /\ mine[p] \in 1..slot
  BY DEF TextInv, TypeInv, TypeOK, SlotOwnership
<1>2. mine[p] \in 1..MaxSlot
  BY <1>1, ChainAssumption
<1>3. sends[mine[p]] \in Nat /\ sends'[mine[p]] = sends[mine[p]] + 1
  BY <1>1, <1>2 DEF Accepted
<1>4. sends'[mine[p]] > 0
  BY <1>3
<1>. QED
  BY <1>2, <1>4 DEF Delivered

\* Steps that only carry outcomes that are already true.
LEMMA OutcomeQuiet ==
    ASSUME OutcomeInv, TextInv', NEW p \in Procs, sends' = sends \/ Accepted(p), reach' = reach,
           sms' = sms \/ (sms' = "sent" => Delivered'),
           sms' = sms \/ sms' # "exhausted" \/ ~CanContact("tenant_safety_sms"),
           \A q \in Procs : out'[q] = "sent" => out[q] = "sent" \/ Delivered',
           \A q \in Procs : pc'[q] = "drainsent" => pc[q] = "drainsent" \/ Delivered',
           \A q \in Procs : pc'[q] = "drainexhaust" =>
               pc[q] = "drainexhaust" \/ ~CanContact("tenant_safety_sms")
    PROVE  OutcomeInv'
<1>1. Delivered => Delivered'
  BY DeliveredStays DEF OutcomeInv, TextInv, TypeInv
<1>2. CanContact("tenant_safety_sms")' <=> CanContact("tenant_safety_sms")
  BY DEF CanContact
<1>3. SentMeansDelivered'
  BY <1>1 DEF OutcomeInv, SentMeansDelivered
<1>4. ExhaustedMeansUnreachable'
  BY <1>2 DEF OutcomeInv, ExhaustedMeansUnreachable
<1>5. OutcomesAreTrue'
  BY <1>1, <1>2 DEF OutcomeInv, OutcomesAreTrue
<1>. QED
  BY <1>3, <1>4, <1>5 DEF OutcomeInv

LEMMA OutcomeInit == Init => OutcomeInv
<1>1. ASSUME Init PROVE SentMeansDelivered /\ ExhaustedMeansUnreachable /\ OutcomesAreTrue
  BY <1>1 DEF Init, SentMeansDelivered, ExhaustedMeansUnreachable, OutcomesAreTrue
<1>. QED
  BY <1>1, TextInit DEF OutcomeInv

\* The steps of the chain.
LEMMA OutcomeHandle ==
    ASSUME NEW p \in Procs, OutcomeInv, TextInv',
           Handle(p) \/ SmsFails(p) \/ StepError(p) \/ Crash(p)
    PROVE  OutcomeInv'
<1>0. TextInv /\ TypeOK
  BY DEF OutcomeInv, TextInv, TypeInv
<1>1. /\ reach' = reach
      /\ sends' = sends \/ Accepted(p)
      /\ \A q \in Procs : pc'[q] = "drainsent" => pc[q] = "drainsent"
      /\ \A q \in Procs : pc'[q] = "drainexhaust" => pc[q] = "drainexhaust"
  BY <1>0 DEF Handle, ClaimStep, LostRace, PlaceContact, SafetySms, SmsRead, SmsCas, SmsSendOk,
     FinishStep, SmsFails, StepError, Crash, SmsOutcome, Goto, AfterStep, TypeOK, envVars, obsVars
<1>2. CASE SmsSendOk(p)
  <2>1. Delivered' /\ sms' = sms
    BY <1>0, <1>2, AcceptedDelivers DEF SmsSendOk, Sending, rowVars
  <2>. QED
    BY <1>1, <2>1, OutcomeQuiet
<1>3. CASE FinishStep(p)
  <2>1. sms' = sms \/ sms' = out[p]
    BY <1>3 DEF FinishStep
  <2>2. out[p] \in {"skipped", "sent", "failed"} /\ out' = out /\ sends' = sends
    BY <1>0, <1>3 DEF FinishStep, TypeOK, obsVars
  <2>3. out[p] = "sent" => Delivered'
    BY <2>2, DeliveredStays, <1>0 DEF OutcomeInv, OutcomesAreTrue
  <2>. QED
    BY <1>1, <2>1, <2>2, <2>3, OutcomeQuiet
<1>4. CASE ~SmsSendOk(p) /\ ~FinishStep(p)
  <2>1. sms' = sms \/ sms' = "pending"
    BY <1>4 DEF Handle, ClaimStep, LostRace, PlaceContact, SafetySms, SmsRead, SmsCas,
       SmsFails, StepError, Crash, rowVars
  <2>2. \A q \in Procs : out'[q] = "sent" => out[q] = "sent"
    BY <1>0, <1>4 DEF Handle, ClaimStep, LostRace, PlaceContact, SafetySms, SmsRead, SmsCas,
       SmsFails, StepError, Crash, SmsOutcome, TypeOK
  <2>. QED
    BY <1>1, <2>1, <2>2, OutcomeQuiet
<1>. QED
  BY <1>2, <1>3, <1>4

\* The steps of a tick.
LEMMA OutcomeTick ==
    ASSUME NEW t \in Procs, OutcomeInv, TextInv', Tick(t) \/ DrainSendFails(t) \/ DrainError(t)
    PROVE  OutcomeInv'
<1>0. TextInv /\ TypeOK
  BY DEF OutcomeInv, TextInv, TypeInv
<1>1. reach' = reach /\ out' = out /\ (sends' = sends \/ Accepted(t))
  BY DEF Tick, SweepSelect, DrainSelect, DrainClaim, DrainSendOk, DrainMark, DrainSendFails,
     DrainError, envVars, obsVars
<1>2. CASE DrainSendOk(t)
  <2>1. Delivered' /\ sms' = sms
    BY <1>0, <1>2, AcceptedDelivers DEF DrainSendOk, Sending, rowVars
  <2>2. \A q \in Procs : pc'[q] = "drainexhaust" => pc[q] = "drainexhaust"
    BY <1>0, <1>2 DEF DrainSendOk, Goto, TypeOK
  <2>. QED
    BY <1>1, <2>1, <2>2, OutcomeQuiet
<1>3. CASE DrainMark(t)
  <2>1. \/ pc[t] = "drainsent" /\ sms' = "sent"
        \/ pc[t] = "drainfailed" /\ sms' = "failed"
        \/ pc[t] = "drainexhaust" /\ sms' = "exhausted"
    <3>1. pc[t] \in {"drainsent", "drainfailed", "drainexhaust"} /\ sms' = DrainResult(pc[t])
      BY <1>3 DEF DrainMark
    <3>2. /\ DrainResult("drainsent") = "sent"
          /\ DrainResult("drainfailed") = "failed"
          /\ DrainResult("drainexhaust") = "exhausted"
      BY DEF DrainResult
    <3>. QED
      BY <3>1, <3>2
  <2>2. sends' = sends /\ \A q \in Procs : pc'[q] \in {"drainsent", "drainexhaust"} => pc'[q] = pc[q]
    BY <1>0, <1>3 DEF DrainMark, Goto, TypeOK, obsVars
  <2>3. pc[t] = "drainsent" => Delivered'
    BY <1>0, <2>2, DeliveredStays DEF OutcomeInv, OutcomesAreTrue
  <2>4. pc[t] = "drainexhaust" => ~CanContact("tenant_safety_sms")
    BY DEF OutcomeInv, OutcomesAreTrue
  <2>. QED
    BY <1>1, <2>1, <2>2, <2>3, <2>4, OutcomeQuiet
<1>4. CASE DrainClaim(t)
  <2>1. sms' = sms /\ \A q \in Procs : pc'[q] = "drainsent" => pc[q] = "drainsent"
    BY <1>0, <1>4 DEF DrainClaim, Goto, TypeOK
  <2>2. \A q \in Procs : pc'[q] = "drainexhaust" =>
            pc[q] = "drainexhaust" \/ ~CanContact("tenant_safety_sms")
    BY <1>0, <1>4 DEF DrainClaim, Goto, TypeOK
  <2>. QED
    BY <1>1, <2>1, <2>2, OutcomeQuiet
<1>5. CASE SweepSelect(t) \/ DrainSelect(t) \/ DrainSendFails(t) \/ DrainError(t)
  <2>1. /\ sms' = sms
        /\ \A q \in Procs : pc'[q] = "drainsent" => pc[q] = "drainsent"
        /\ \A q \in Procs : pc'[q] = "drainexhaust" => pc[q] = "drainexhaust"
    BY <1>0, <1>5 DEF SweepSelect, DrainSelect, DrainSendFails, DrainError, Goto, TypeOK, rowVars
  <2>. QED
    BY <1>1, <2>1, OutcomeQuiet
<1>. QED
  BY <1>2, <1>3, <1>4, <1>5 DEF Tick

LEMMA OutcomeStep == OutcomeInv /\ [Next]_vars => OutcomeInv'
<1> SUFFICES ASSUME OutcomeInv, [Next]_vars PROVE OutcomeInv'
  OBVIOUS
<1>0. TextInv' /\ TypeOK
  BY TextStep DEF OutcomeInv, TextInv, TypeInv
<1>1. CASE CreateEmergency \/ Acknowledge \/ Minute \/ UNCHANGED vars
  <2>1. /\ UNCHANGED <<sms, out, reach, sends>>
        /\ \A q \in Procs : pc'[q] = "drainsent" => pc[q] = "drainsent"
        /\ \A q \in Procs : pc'[q] = "drainexhaust" => pc[q] = "drainexhaust"
    BY <1>0, <1>1 DEF CreateEmergency, Acknowledge, Minute, vars, rowVars, envVars, obsVars,
       Goto, TypeOK
  <2>. QED
    BY <1>0, <2>1, ProcKinds, OutcomeQuiet
<1>. QED
  BY <1>0, <1>1, ProcKinds, Surfaces, OutcomeHandle, OutcomeTick DEF Next

\* 'sent' is only ever written over a text that Twilio accepted.
THEOREM SentIsTrue == Spec => []SentMeansDelivered
<1>1. OutcomeInv => SentMeansDelivered
  BY DEF OutcomeInv
<1>. QED
  BY <1>1, OutcomeInit, OutcomeStep, PTL DEF Spec

\* The text is given up only when there is no number to send it to.
THEOREM ExhaustedIsTrue == Spec => []ExhaustedMeansUnreachable
<1>1. OutcomeInv => ExhaustedMeansUnreachable
  BY DEF OutcomeInv
<1>. QED
  BY <1>1, OutcomeInit, OutcomeStep, PTL DEF Spec

-----------------------------------------------------------------------------
(* The acknowledgment.                                                     *)

\* An acknowledged chain claims no further step, and the acknowledgment is
\* recorded once.
THEOREM AckIsFinal == Spec => AckFinal
<1>1. [Next]_vars => [call = "acknowledged" =>
          call' = "acknowledged" /\ attempt' = attempt /\ acks' = acks]_vars
  <2> SUFFICES ASSUME Next, call = "acknowledged"
               PROVE  call' = "acknowledged" /\ attempt' = attempt /\ acks' = acks
    OBVIOUS
  <2>1. ASSUME NEW p \in Procs, Handle(p) \/ SmsFails(p) \/ StepError(p) \/ Crash(p)
        PROVE  UNCHANGED <<call, attempt, acks>>
    BY <2>1 DEF Handle, ClaimStep, WinsStep, LostRace, PlaceContact, SafetySms, SmsRead, SmsCas,
       SmsSendOk, FinishStep, SmsFails, StepError, Crash, rowVars
  <2>2. ASSUME NEW t \in Tickers, Tick(t) \/ DrainSendFails(t) \/ DrainError(t)
        PROVE  UNCHANGED <<call, attempt, acks>>
    BY <2>2 DEF Tick, SweepSelect, DrainSelect, DrainClaim, DrainSendOk, DrainMark,
       DrainSendFails, DrainError, rowVars
  <2>3. ~CreateEmergency /\ ~Answered
    BY Surfaces DEF CreateEmergency, Acknowledge
  <2>4. Minute => UNCHANGED <<call, attempt, acks>>
    BY DEF Minute, rowVars
  <2>. QED
    BY <2>1, <2>2, <2>3, <2>4 DEF Next
<1>. QED
  BY <1>1, PTL DEF Spec, AckFinal
=============================================================================
