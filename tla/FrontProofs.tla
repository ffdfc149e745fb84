----------------------------- MODULE FrontProofs -----------------------------
(***************************************************************************)
(* What a text meets first, proved for any number of texts, edits, jobs    *)
(* and cases and for pools of every size.                                  *)
(*                                                                         *)
(* Routing.  A delivery that is past the insert speaks of the stored row   *)
(* (it stored it, or has recovered it), a row that is stored never         *)
(* changes, and a delivery whose sender has been an active tenant since it *)
(* came in cannot take the turn to the landlord's reply, because the       *)
(* tenants are read after the account.                                     *)
(*                                                                         *)
(* Pools.  They are taken in one order: request, lock, admin.  When every  *)
(* job is stuck, no job is at a step that needs nothing, so nobody holds a *)
(* connection of the moment; whoever holds the lock waits for the admin    *)
(* pool; and with nobody holding the lock its pool is idle and no key is   *)
(* taken.  In each case somebody waits for the admin pool, and all it has  *)
(* left to be held are the connections kept by their requests.             *)
(***************************************************************************)
EXTENDS Pools, Routing, FiniteSetTheorems, TLAPS

-----------------------------------------------------------------------------
(* Each text gets what is due to who it is from.                           *)

\* What a row that is about to be stored, or is stored, says.
RowOK(row) == row.steady => row.party = "tenant" /\ row.known

\* Where a delivery is, and what it holds there.
RequestOK(q) ==
    /\ q.at # "idle" => q.sid \in Sids
    /\ q.steady => tenancy = "active"
    /\ q.at = "reply" => ~q.steady
    /\ q.at \in {"insert", "recover"} => q.row \in Rows(BOOLEAN) /\ RowOK(q.row)
    /\ q.at \in {"recover", "effects", "surface", "queue"} => inbox[q.sid] \in Rows(BOOLEAN)
    /\ q.at = "effects" => q.row \in Rows(BOOLEAN) /\ q.row.party = inbox[q.sid].party
    /\ q.at = "surface" => inbox[q.sid].party = "landlord"
    /\ q.at = "queue" => inbox[q.sid].party = "tenant"

RequestsOK == \A r \in Requests : RequestOK(request[r])

RoutingInv == RoutingTypeOK /\ RequestsOK /\ EachTextItsDue

Ats == {"idle", "number", "letter", "owner", "collision", "reply",
        "tenant", "insert", "recover", "effects", "surface", "queue"}
RequestType == [at : Ats, sid : Sids \union {NoText}, row : Rows(BOOLEAN) \union {NoRow},
                steady : BOOLEAN]

\* A stored row is a row; no row is none.
LEMMA NoRowIsNone == NoRow \notin Rows(BOOLEAN) /\ NoRow.party = "none"
BY DEF NoRow, Rows, Parties

LEMMA RoutingInvInit == RoutingInit => RoutingInv
<1> SUFFICES ASSUME RoutingInit PROVE RoutingInv
    OBVIOUS
<1>1. Idle \in RequestType /\ Idle.at = "idle" /\ ~Idle.steady
    BY DEF Idle, RequestType, Ats
<1>2. RoutingTypeOK
    <2>1. request \in [Requests -> RequestType]
        BY <1>1 DEF RoutingInit
    <2>2. edits \in 0..MaxEdit
        BY RoutingAssumption DEF RoutingInit
    <2> QED
        BY <2>1, <2>2 DEF RoutingInit, RoutingTypeOK, RequestType, Ats
<1>3. RequestsOK
    <2>1. \A r \in Requests : request[r].at = "idle" /\ ~request[r].steady
        BY <1>1 DEF RoutingInit
    <2> QED
        BY <2>1 DEF RequestsOK, RequestOK
<1>4. EachTextItsDue
    BY DEF RoutingInit, EachTextItsDue, TreatedAsStored, TenantsComeFirst
<1> QED
    BY <1>2, <1>3, <1>4 DEF RoutingInv

\* An edit of the registers that leaves no delivery steady, or the tenant in place.
LEMMA EditStep ==
    ASSUME RoutingInv, Edit,
           number' \in BOOLEAN, owner' \in BOOLEAN, tenancy' \in {"none", "active", "inactive"},
           \/ Unsettle
           \/ request' = request /\ (tenancy' = tenancy \/ tenancy = "none")
    PROVE  RoutingInv'
<1>1. edits' \in 0..MaxEdit
    BY RoutingAssumption DEF Edit, RoutingInv, RoutingTypeOK
<1>2. \A r \in Requests : request[r] \in RequestType /\ RequestOK(request[r])
    BY DEF RoutingInv, RoutingTypeOK, RequestsOK, RequestType, Ats
<1>3. ASSUME NEW r \in Requests PROVE request'[r] \in RequestType /\ RequestOK(request[r])'
    <2>1. CASE Unsettle
        <3>1. request'[r] = [request[r] EXCEPT !.steady = FALSE]
            BY <2>1 DEF Unsettle
        <3> QED
            BY <1>2, <3>1 DEF RequestType, RequestOK, Edit, RowOK
    <2>2. CASE request' = request /\ (tenancy' = tenancy \/ tenancy = "none")
        BY <1>2, <2>2 DEF RequestOK, Edit, RowOK
    <2> QED
        BY <2>1, <2>2
<1>4. request' \in [Requests -> RequestType]
    <2>1. request' = [r \in Requests |-> request'[r]]
        BY DEF Unsettle, RoutingInv, RoutingTypeOK
    <2> QED
        BY <1>3, <2>1
<1>5. RoutingTypeOK'
    BY <1>1, <1>4 DEF Edit, RoutingInv, RoutingTypeOK, RequestType, Ats
<1>6. EachTextItsDue'
    BY DEF Edit, RoutingInv, EachTextItsDue, TreatedAsStored, TenantsComeFirst
<1> QED
    BY <1>3, <1>5, <1>6 DEF RoutingInv, RequestsOK

\* A step of one delivery that leaves the registers and the stored rows alone.
LEMMA RequestStep ==
    ASSUME RoutingInv, NEW r \in Requests, NEW q \in RequestType,
           request' = [request EXCEPT ![r] = q], UNCHANGED <<registers, inbox>>,
           RequestOK(q),
           \/ effects' = effects
           \/ \E s \in Sids, e \in Effects :
                /\ Mark(s, e)
                /\ e \in {"commanded", "surfaced"} => inbox[s].party = "landlord"
                /\ e \in {"escalated", "queued"} => inbox[s].party = "tenant"
    PROVE  RoutingInv'
<1>1. request' \in [Requests -> RequestType]
    BY DEF RoutingInv, RoutingTypeOK, RequestType, Ats
<1>2. effects' \in [Sids -> SUBSET Effects]
    BY DEF RoutingInv, RoutingTypeOK, Mark
<1>3. RoutingTypeOK'
    BY <1>1, <1>2 DEF RoutingInv, RoutingTypeOK, RequestType, Ats, registers
<1>4. ASSUME NEW o \in Requests PROVE RequestOK(request[o])'
    <2>1. RequestOK(q)'
        BY DEF RequestOK, RowOK, registers
    <2>2. RequestOK(request[o]) /\ request'[o] = IF o = r THEN q ELSE request[o]
        BY DEF RoutingInv, RequestsOK, RoutingTypeOK
    <2> QED
        BY <2>1, <2>2 DEF RequestOK, RowOK, registers
<1>5. EachTextItsDue'
    <2>1. CASE effects' = effects
        BY <2>1 DEF RoutingInv, EachTextItsDue, TreatedAsStored, TenantsComeFirst
    <2>2. ASSUME NEW s \in Sids, NEW e \in Effects, Mark(s, e),
                 e \in {"commanded", "surfaced"} => inbox[s].party = "landlord",
                 e \in {"escalated", "queued"} => inbox[s].party = "tenant"
          PROVE  EachTextItsDue'
        <3>1. \A t \in Sids : effects'[t] = IF t = s THEN effects[t] \union {e} ELSE effects[t]
            BY <2>2 DEF Mark, RoutingInv, RoutingTypeOK
        <3> QED
            BY <2>2, <3>1 DEF RoutingInv, EachTextItsDue, TreatedAsStored, TenantsComeFirst, Effects
    <2> QED
        BY <2>1, <2>2
<1> QED
    BY <1>3, <1>4, <1>5 DEF RoutingInv, RequestsOK

LEMMA RoutingInvStep == RoutingInv /\ [RoutingNext]_routingVars => RoutingInv'
<1> SUFFICES ASSUME RoutingInv, [RoutingNext]_routingVars PROVE RoutingInv'
    OBVIOUS
<1>1. CASE UNCHANGED routingVars
    BY <1>1 DEF RoutingInv, RoutingTypeOK, RequestsOK, RequestOK, RowOK, EachTextItsDue,
       TreatedAsStored, TenantsComeFirst, routingVars
<1>2. CASE EditAccount \/ CreateTenant \/ DeleteTenant \/ EditTenant \/ EditNumber
    <2>1. number \in BOOLEAN /\ owner \in BOOLEAN /\ tenancy \in {"none", "active", "inactive"}
        BY DEF RoutingInv, RoutingTypeOK
    <2> QED
        BY <1>2, <2>1, EditStep DEF EditAccount, CreateTenant, DeleteTenant, EditTenant, EditNumber
<1>3. ASSUME NEW r \in Requests,
             \/ \E s \in Sids : Receive(r, s)
             \/ Abort(r) \/ FindProperty(r) \/ DeadLetter(r)
             \/ ReadOwner(r) \/ ReadCollision(r) \/ ResolveReply(r) \/ ReadTenant(r)
             \/ Insert(r) \/ RecoverRow(r)
             \/ CarryOut(r) \/ Surface(r) \/ Escalates(r) \/ Enqueue(r)
      PROVE  RoutingInv'
    <2> DEFINE q == request[r]
    <2>0. q \in RequestType /\ RequestOK(q) /\ request \in [Requests -> RequestType]
          /\ inbox \in [Sids -> Rows(BOOLEAN) \union {NoRow}]
        BY DEF RoutingInv, RoutingTypeOK, RequestsOK, RequestType, Ats
    <2>i. Idle \in RequestType /\ RequestOK(Idle)
        BY DEF Idle, RequestType, Ats, RequestOK
    <2>m. ASSUME NEW at \in Ats, Continue(r, at)
          PROVE  request' = [request EXCEPT ![r] = [q EXCEPT !.at = at]]
        BY <2>m, <2>0 DEF Continue
    <2>w. ASSUME NEW at \in Ats, NEW row, ContinueWith(r, at, row)
          PROVE  request' = [request EXCEPT ![r] = [q EXCEPT !.at = at, !.row = row]]
        BY <2>w, <2>0 DEF ContinueWith
    <2>1. ASSUME NEW s \in Sids, Receive(r, s) PROVE RoutingInv'
        <3> DEFINE new == [at |-> "number", sid |-> s, row |-> NoRow, steady |-> tenancy = "active"]
        <3>1. new \in RequestType /\ RequestOK(new) /\ request' = [request EXCEPT ![r] = new]
            BY <2>1 DEF Receive, RequestType, Ats, RequestOK
        <3> HIDE DEF new
        <3> QED
            BY <2>1, <3>1, RequestStep DEF Receive
    <2>2. CASE Abort(r)
        BY <2>2, <2>i, RequestStep DEF Abort
    <2>3. CASE FindProperty(r) \/ ReadOwner(r) \/ ReadCollision(r)
        <3>1. PICK at \in {"owner", "letter", "collision", "tenant", "reply"} :
                 /\ Continue(r, at)
                 /\ at = "reply" => tenancy # "active"
            BY <2>3 DEF FindProperty, ReadOwner, ReadCollision
        <3> DEFINE new == [q EXCEPT !.at = at]
        <3>2. new \in RequestType /\ RequestOK(new)
            BY <2>0, <2>3, <3>1 DEF RequestType, Ats, RequestOK, FindProperty, ReadOwner, ReadCollision
        <3>3. request' = [request EXCEPT ![r] = new]
            BY <3>1, <2>m DEF Ats
        <3>4. UNCHANGED <<registers, inbox>> /\ effects' = effects
            BY <2>3 DEF FindProperty, ReadOwner, ReadCollision
        <3> HIDE DEF new
        <3> QED
            BY <3>2, <3>3, <3>4, RequestStep
    <2>4. CASE DeadLetter(r)
        <3>1. Sid(r) \in Sids /\ Mark(Sid(r), "letter") /\ "letter" \in Effects
            BY <2>0, <2>4 DEF DeadLetter, Sid, RequestOK, Effects
        <3> QED
            BY <2>4, <2>i, <3>1, RequestStep DEF DeadLetter
    <2>5. CASE ResolveReply(r) \/ ReadTenant(r)
        <3>1. PICK row \in Rows(BOOLEAN) : ContinueWith(r, "insert", row) /\ RowOK(row)
            <4>1. q.steady \in BOOLEAN /\ (q.steady => tenancy = "active")
                BY <2>0 DEF RequestOK, RequestType
            <4>2. ASSUME NEW case \in BOOLEAN, NEW known \in BOOLEAN, NEW party \in Parties,
                         q.steady => party = "tenant" /\ known
                  PROVE  LET row == [party |-> party, known |-> known, case |-> case,
                                     steady |-> q.steady]
                         IN  row \in Rows(BOOLEAN) /\ RowOK(row)
                BY <4>1, <4>2 DEF Rows, RowOK
            <4>3. CASE ResolveReply(r)
                <5>1. ~q.steady
                    BY <2>0, <4>3 DEF ResolveReply, RequestOK
                <5> QED
                    BY <4>2, <4>3, <5>1 DEF ResolveReply, Parties
            <4>4. CASE ReadTenant(r)
                <5>1. (tenancy = "active") \in BOOLEAN /\ FALSE \in BOOLEAN /\ "tenant" \in Parties
                    BY DEF Parties
                <5> QED
                    BY <4>1, <4>2, <4>4, <5>1 DEF ReadTenant
            <4> QED
                BY <2>5, <4>3, <4>4
        <3> DEFINE new == [q EXCEPT !.at = "insert", !.row = row]
        <3>2. new \in RequestType /\ RequestOK(new)
            BY <2>0, <2>5, <3>1 DEF RequestType, Ats, RequestOK, ResolveReply, ReadTenant
        <3>3. request' = [request EXCEPT ![r] = new]
            BY <3>1, <2>w DEF Ats
        <3>4. UNCHANGED <<registers, inbox>> /\ effects' = effects
            BY <2>5 DEF ResolveReply, ReadTenant
        <3> HIDE DEF new
        <3> QED
            BY <3>2, <3>3, <3>4, RequestStep
    <2>6. CASE Insert(r) /\ inbox[Sid(r)] # NoRow
        <3> DEFINE new == [q EXCEPT !.at = "recover"]
        <3>1. Sid(r) \in Sids /\ inbox[Sid(r)] \in Rows(BOOLEAN)
            BY <2>0, <2>6 DEF Insert, RequestOK, Sid
        <3>2. new \in RequestType /\ RequestOK(new)
            BY <2>0, <2>6, <3>1 DEF RequestType, Ats, RequestOK, Insert, Sid
        <3>3. request' = [request EXCEPT ![r] = new]
            BY <2>6, <2>m DEF Ats, Insert
        <3>4. UNCHANGED <<registers, inbox>> /\ effects' = effects
            BY <2>6 DEF Insert
        <3> HIDE DEF new
        <3> QED
            BY <3>2, <3>3, <3>4, RequestStep
    <2>7. CASE Insert(r) /\ inbox[Sid(r)] = NoRow
        <3> DEFINE new == [q EXCEPT !.at = "effects"]
        <3>1. Sid(r) \in Sids /\ q.sid = Sid(r) /\ q.row \in Rows(BOOLEAN) /\ RowOK(q.row)
            BY <2>0, <2>7 DEF Insert, RequestOK, Sid
        <3>2. /\ inbox' = [inbox EXCEPT ![Sid(r)] = q.row]
              /\ request' = [request EXCEPT ![r] = new]
              /\ UNCHANGED <<registers, effects>>
            BY <2>7, <2>m DEF Insert, Ats
        <3>3. new \in RequestType
            BY <2>0 DEF RequestType, Ats
        <3>4. RoutingTypeOK'
            BY <2>0, <3>1, <3>2, <3>3 DEF RoutingInv, RoutingTypeOK, registers, RequestType, Ats
        <3>5. \A s \in Sids : inbox'[s] = IF s = Sid(r) THEN q.row ELSE inbox[s]
            BY <2>0, <3>2
        <3>6. ASSUME NEW o \in Requests PROVE RequestOK(request[o])'
            <4>1. CASE o = r
                <5>1. request'[o] = new
                    BY <2>0, <3>2, <4>1
                <5>2. new.at = "effects" /\ new.sid = Sid(r) /\ new.row = q.row /\ new.steady = q.steady
                    BY <2>0, <3>1 DEF RequestType
                <5>3. inbox'[Sid(r)] = q.row
                    BY <3>1, <3>5
                <5>4. tenancy' = tenancy /\ (q.steady => tenancy = "active")
                    BY <2>0, <3>2 DEF RequestOK, registers
                <5> HIDE DEF new, q
                <5> QED
                    BY <3>1, <5>1, <5>2, <5>3, <5>4 DEF RequestOK
            <4>2. CASE o # r
                <5>1. request'[o] = request[o] /\ RequestOK(request[o])
                    BY <2>0, <3>2, <4>2 DEF RoutingInv, RequestsOK
                <5>2. request[o].at \in {"recover", "effects", "surface", "queue"} => request[o].sid # Sid(r)
                    BY <2>7, <5>1, NoRowIsNone DEF RequestOK
                <5>3. request[o].at \in {"recover", "effects", "surface", "queue"}
                          => inbox'[request[o].sid] = inbox[request[o].sid]
                    BY <3>5, <5>1, <5>2 DEF RequestOK
                <5>4. tenancy' = tenancy
                    BY <3>2 DEF registers
                <5> QED
                    BY <5>1, <5>3, <5>4 DEF RequestOK
            <4> QED
                BY <4>1, <4>2
        <3>7. EachTextItsDue'
            <4>1. effects[Sid(r)] \cap {"commanded", "surfaced", "escalated", "queued"} = {}
                BY <2>7, <3>1, NoRowIsNone DEF RoutingInv, EachTextItsDue, TreatedAsStored
            <4> HIDE DEF q
            <4>2. TreatedAsStored'
                BY <3>2, <3>5, <4>1 DEF RoutingInv, EachTextItsDue, TreatedAsStored
            <4>3. TenantsComeFirst'
                BY <3>1, <3>5 DEF RoutingInv, EachTextItsDue, TenantsComeFirst, RowOK
            <4> QED
                BY <4>2, <4>3 DEF EachTextItsDue
        <3> QED
            BY <3>4, <3>6, <3>7 DEF RoutingInv, RequestsOK
    <2>8. CASE RecoverRow(r)
        <3>1. inbox[q.sid] \in Rows(BOOLEAN)
            BY <2>0, <2>8 DEF RecoverRow, RequestOK
        <3>2. PICK case \in BOOLEAN : ContinueWith(r, "effects", [inbox[Sid(r)] EXCEPT !.case = case])
            BY <2>8 DEF RecoverRow
        <3> DEFINE row == [inbox[q.sid] EXCEPT !.case = case]
        <3> DEFINE new == [q EXCEPT !.at = "effects", !.row = row]
        <3>3. row \in Rows(BOOLEAN) /\ row.party = inbox[q.sid].party
            BY <3>1 DEF Rows
        <3>4. request' = [request EXCEPT ![r] = new]
            BY <3>2, <2>w DEF Ats, Sid
        <3> HIDE DEF row
        <3>5. new \in RequestType /\ RequestOK(new)
            BY <2>0, <2>8, <3>1, <3>3 DEF RequestType, Ats, RequestOK, RecoverRow
        <3>6. UNCHANGED <<registers, inbox>> /\ effects' = effects
            BY <2>8 DEF RecoverRow
        <3> HIDE DEF new
        <3> QED
            BY <3>4, <3>5, <3>6, RequestStep
    <2>9. CASE CarryOut(r)
        <3> DEFINE new == [q EXCEPT !.at = "surface"]
        <3>1. Sid(r) \in Sids /\ inbox[Sid(r)].party = "landlord" /\ "commanded" \in Effects
            BY <2>0, <2>9 DEF CarryOut, RequestOK, Sid, Effects
        <3>2. new \in RequestType /\ RequestOK(new)
            BY <2>0, <2>9, <3>1 DEF RequestType, Ats, RequestOK, CarryOut, Sid
        <3>3. Continue(r, "surface") => request' = [request EXCEPT ![r] = new]
            BY <2>m DEF Ats
        <3> HIDE DEF new
        <3> QED
            BY <2>9, <2>i, <3>1, <3>2, <3>3, RequestStep DEF CarryOut
    <2>10. CASE Surface(r)
        <3>1. Sid(r) \in Sids /\ inbox[Sid(r)].party = "landlord" /\ "surfaced" \in Effects
            BY <2>0, <2>10 DEF Surface, RequestOK, Sid, Effects
        <3> QED
            BY <2>10, <2>i, <3>1, RequestStep DEF Surface
    <2>11. CASE Escalates(r)
        <3> DEFINE new == [q EXCEPT !.at = "queue"]
        <3>1. Sid(r) \in Sids /\ inbox[Sid(r)].party = "tenant" /\ "escalated" \in Effects
            BY <2>0, <2>11 DEF Escalates, RequestOK, Sid, Effects
        <3>2. new \in RequestType /\ RequestOK(new)
            BY <2>0, <2>11, <3>1 DEF RequestType, Ats, RequestOK, Escalates, Sid
        <3>3. request' = [request EXCEPT ![r] = new]
            BY <2>11, <2>m DEF Ats, Escalates
        <3> HIDE DEF new
        <3> QED
            BY <2>11, <3>1, <3>2, <3>3, RequestStep DEF Escalates
    <2>12. CASE Enqueue(r)
        <3>1. Sid(r) \in Sids /\ inbox[Sid(r)].party = "tenant" /\ "queued" \in Effects
            BY <2>0, <2>12 DEF Enqueue, RequestOK, Sid, Effects
        <3> QED
            BY <2>12, <2>i, <3>1, RequestStep DEF Enqueue
    <2> QED
        BY <1>3, <2>1, <2>2, <2>3, <2>4, <2>5, <2>6, <2>7, <2>8, <2>9, <2>10, <2>11, <2>12 DEF Insert
<1> QED
    BY <1>1, <1>2, <1>3 DEF RoutingNext

\* Every variable keeps its type.
THEOREM RoutingTypeCorrect == RoutingSpec => []RoutingTypeOK
<1>1. RoutingInv => RoutingTypeOK
    BY DEF RoutingInv
<1> QED
    BY <1>1, RoutingInvInit, RoutingInvStep, PTL DEF RoutingSpec

\* Each text is treated as one party's through all its deliveries, and one of
\* somebody who was a tenant as long as it was being read as that tenant's,
\* whatever the landlord edits meanwhile (routers/webhooks/twilio.py).
THEOREM EachTextGetsItsDue == RoutingSpec => []EachTextItsDue
<1>1. RoutingInv => EachTextItsDue
    BY DEF RoutingInv
<1> QED
    BY <1>1, RoutingInvInit, RoutingInvStep, PTL DEF RoutingSpec

-----------------------------------------------------------------------------
(* Nobody is wedged.                                                       *)

\* Who holds the connection of its request has opened it and not yet ended, and
\* once past its first reads is one of those that keep it.
OuterInv ==
    \A j \in outer :
        /\ pc[j] \notin {"new", "lookup", "looking", "outer", "done"}
        /\ pc[j] = "reading" \/ kind[j] \in Keeps

PoolsInv == PoolsTypeOK /\ OuterInv

USE DEF Places, Kinds, Keeps, Opens, Locks, Slots

LEMMA PoolsInvInit == PoolsInit => PoolsInv
BY DEF PoolsInit, PoolsInv, PoolsTypeOK, OuterInv

LEMMA PoolsInvStep == PoolsInv /\ [PoolsNext]_poolVars => PoolsInv'
<1> SUFFICES ASSUME PoolsInv, [PoolsNext]_poolVars PROVE PoolsInv'
    OBVIOUS
<1>1. CASE UNCHANGED poolVars
    BY <1>1 DEF PoolsInv, PoolsTypeOK, OuterInv, poolVars
<1>2. ASSUME NEW j \in Jobs, Arrive(j) PROVE PoolsInv'
    BY <1>2 DEF PoolsInv, PoolsTypeOK, OuterInv, Arrive, Moves
<1>3. ASSUME NEW j \in Jobs, LookUp(j) PROVE PoolsInv'
    BY <1>3 DEF PoolsInv, PoolsTypeOK, OuterInv, LookUp, Moves
<1>4. ASSUME NEW j \in Jobs, Open(j) PROVE PoolsInv'
    BY <1>4 DEF PoolsInv, PoolsTypeOK, OuterInv, Open, Moves
<1>5. ASSUME NEW j \in Jobs, Read(j) PROVE PoolsInv'
    BY <1>5 DEF PoolsInv, PoolsTypeOK, OuterInv, Read, Moves
<1>6. ASSUME NEW j \in Jobs, Ask(j) PROVE PoolsInv'
    BY <1>6 DEF PoolsInv, PoolsTypeOK, OuterInv, Ask, Moves
<1>7. ASSUME NEW j \in Jobs, Answer(j) PROVE PoolsInv'
    BY <1>7 DEF PoolsInv, PoolsTypeOK, OuterInv, Answer, Moves, End
<1>8. ASSUME NEW j \in Jobs, Attempt(j) PROVE PoolsInv'
    BY <1>8 DEF PoolsInv, PoolsTypeOK, OuterInv, Attempt, Moves
<1>9. ASSUME NEW j \in Jobs, GiveUp(j) PROVE PoolsInv'
    BY <1>9 DEF PoolsInv, PoolsTypeOK, OuterInv, GiveUp, Moves, End
<1>10. ASSUME NEW j \in Jobs, Work(j) PROVE PoolsInv'
    BY <1>10 DEF PoolsInv, PoolsTypeOK, OuterInv, Work, Moves
<1>11. ASSUME NEW j \in Jobs, LeaveLock(j) PROVE PoolsInv'
    BY <1>11 DEF PoolsInv, PoolsTypeOK, OuterInv, LeaveLock, Moves, End
<1>12. ASSUME NEW j \in Jobs, CheckoutTimeout(j) PROVE PoolsInv'
    BY <1>12 DEF PoolsInv, PoolsTypeOK, OuterInv, CheckoutTimeout, Moves, End
<1> QED
    BY <1>1, <1>2, <1>3, <1>4, <1>5, <1>6, <1>7, <1>8, <1>9, <1>10, <1>11, <1>12
    DEF PoolsNext
-----------------------------------------------------------------------------
(* Counting connections.                                                   *)

\* A pool has a size, at least one, and a finite number of connections out.
LEMMA PoolsAreFinite ==
    ASSUME NEW pool \in {"admin", "lock", "request"}
    PROVE  /\ Size(pool) \in Nat \ {0}
           /\ Cardinality(InUse(pool)) \in Nat
<1>1. Size(pool) \in Nat \ {0}
    BY PoolsAssumption DEF Size
<1>2. IsFiniteSet(Slots)
    <2>1. IsFiniteSet({}) BY FS_EmptySet
    <2>2. IsFiniteSet({"outer"}) BY FS_Singleton
    <2>3. IsFiniteSet({"outer"} \union {"brief"}) BY <2>2, FS_AddElement
    <2>4. IsFiniteSet(({"outer"} \union {"brief"}) \union {"lock"}) BY <2>3, FS_AddElement
    <2>5. Slots = ({"outer"} \union {"brief"}) \union {"lock"} OBVIOUS
    <2> QED BY <2>4, <2>5
<1>3. IsFiniteSet(Jobs \X Slots)
    BY <1>2, FS_Product, PoolsAssumption
<1>4. IsFiniteSet(InUse(pool))
    BY <1>3, FS_Subset DEF InUse
<1> QED
    BY <1>1, <1>4, FS_CardinalityType

\* A pool nobody has a connection of is not exhausted.
LEMMA IdleIsNotExhausted ==
    ASSUME NEW pool \in {"admin", "lock", "request"}, Exhausted(pool)
    PROVE  \E c \in Jobs \X Slots : Holds(c[1], c[2]) /\ PoolOf(c[1], c[2]) = pool
<1> SUFFICES ASSUME InUse(pool) = {} PROVE FALSE
    BY DEF InUse
<1>1. Cardinality(InUse(pool)) = 0
    BY FS_EmptySet
<1> QED
    BY <1>1, PoolsAreFinite DEF Exhausted
-----------------------------------------------------------------------------
(* The order of the pools.                                                 *)

\* When every active job is stuck and one of them waits for the admin pool, that
\* pool has only kept connections out.
LEMMA StuckOnAdmin ==
    ASSUME PoolsInv, \A j \in Active : Stuck(j), Exhausted("admin")
    PROVE  Cardinality(Kept) >= AdminSize
<1>1. ASSUME NEW c \in InUse("admin") PROVE c \in Kept
    <2>1. PICK j \in Jobs, slot \in Slots : c = <<j, slot>> /\ Holds(j, slot) /\ PoolOf(j, slot) = "admin"
        BY <1>1 DEF InUse
    <2>2. slot # "lock"
        BY <2>1 DEF PoolOf
    <2>3. pc[j] \in Places
        BY DEF PoolsInv, PoolsTypeOK
    <2>4. j \in Active
        BY <2>1, <2>3 DEF Holds, Active, PoolsInv, OuterInv
    <2>5. Stuck(j)
        BY <2>4
    <2>6. slot # "brief"
        BY <2>1, <2>5 DEF Holds, Stuck, Wants
    <2>7. slot = "outer" /\ j \in outer
        BY <2>1, <2>2, <2>6 DEF Holds
    <2>8. pc[j] # "reading"
        BY <2>5 DEF Stuck, Wants
    <2>9. kind[j] \in Keeps
        BY <2>7, <2>8 DEF PoolsInv, OuterInv
    <2> QED
        BY <1>1, <2>1, <2>7, <2>9 DEF Kept
<1>2. Kept = InUse("admin")
    BY <1>1 DEF Kept
<1> QED
    BY <1>2 DEF Exhausted, Size

\* Whoever holds the lock of a case, or a connection of its pool, and is stuck
\* waits for the admin pool.
LEMMA LockWaitsOnAdmin ==
    ASSUME PoolsInv, \A j \in Active : Stuck(j),
           NEW j \in Jobs, pc[j] \in {"locked", "inside", "working"}
    PROVE  Exhausted("admin")
<1>1. Stuck(j)
    BY DEF Active
<1> QED
    BY <1>1 DEF Stuck, Wants, PoolOf

\* Whoever waits for the lock pool waits, in the end, for the admin pool.
LEMMA LockPoolWaitsOnAdmin ==
    ASSUME PoolsInv, \A j \in Active : Stuck(j),
           NEW case, Exhausted("lock") \/ KeyTaken(case)
    PROVE  Exhausted("admin")
<1>1. ASSUME NEW k \in Jobs, pc[k] \in {"locked", "inside", "working"} PROVE Exhausted("admin")
    BY <1>1, LockWaitsOnAdmin
<1>2. CASE KeyTaken(case)
    BY <1>1, <1>2 DEF KeyTaken
<1>3. CASE Exhausted("lock")
    <2>1. PICK k \in Jobs, slot \in Slots : Holds(k, slot) /\ PoolOf(k, slot) = "lock"
        BY <1>3, IdleIsNotExhausted
    <2>2. slot = "lock"
        BY <2>1 DEF PoolOf
    <2>3. pc[k] \in {"trying", "locked", "inside", "working"}
        BY <2>1, <2>2 DEF Holds
    <2>4. CASE pc[k] = "trying"
        <3>1. Stuck(k)
            BY <2>4 DEF Active
        <3>2. KeyTaken(CaseOf[k])
            BY <2>4, <3>1 DEF Stuck, Wants
        <3> QED
            BY <1>1, <3>2 DEF KeyTaken
    <2> QED
        BY <1>1, <2>3, <2>4
<1> QED
    BY <1>2, <1>3

\* When every active job is stuck, the admin pool is exhausted.
LEMMA AllStuckOnAdmin ==
    ASSUME PoolsInv, \A j \in Active : Stuck(j), NEW j \in Active
    PROVE  Exhausted("admin")
<1>1. j \in Jobs /\ Stuck(j)
    BY DEF Active
<1>2. CASE pc[j] \in {"try", "trying", "sleep"}
    BY <1>1, <1>2, LockPoolWaitsOnAdmin DEF Stuck, Wants, PoolOf
<1>3. CASE pc[j] \notin {"try", "trying", "sleep"}
    <2>1. PICK slot \in Slots : Wants(j, slot) /\ Exhausted(PoolOf(j, slot))
        BY <1>1, <1>3 DEF Stuck
    <2>2. slot # "lock"
        BY <1>3, <2>1 DEF Wants
    <2>3. CASE PoolOf(j, slot) = "admin"
        BY <2>1, <2>3
    <2>4. CASE PoolOf(j, slot) = "request"
        <3>1. PICK k \in Jobs, s \in Slots : Holds(k, s) /\ PoolOf(k, s) = "request"
            BY <2>1, <2>4, IdleIsNotExhausted
        <3>2. k \in outer
            BY <3>1 DEF PoolOf, Holds
        <3>3. pc[k] \notin {"new", "lookup", "looking", "outer", "done"} /\ pc[k] \in Places
            BY <3>2 DEF PoolsInv, PoolsTypeOK, OuterInv
        <3>4. Stuck(k)
            BY <3>3 DEF Active
        <3>5. CASE pc[k] \in {"try", "trying", "sleep"}
            BY <3>4, <3>5, LockPoolWaitsOnAdmin DEF Stuck, Wants, PoolOf
        <3>6. CASE pc[k] \notin {"try", "trying", "sleep"}
            BY <3>3, <3>4, <3>6 DEF Stuck, Wants, PoolOf
        <3> QED
            BY <3>5, <3>6
    <2> QED
        BY <2>2, <2>3, <2>4 DEF PoolOf
<1> QED
    BY <1>2, <1>3

\* Every variable keeps its type.
THEOREM PoolsTypeCorrect == PoolsSpec => []PoolsTypeOK
<1>1. PoolsInv => PoolsTypeOK
    BY DEF PoolsInv
<1> QED
    BY <1>1, PoolsInvInit, PoolsInvStep, PTL DEF PoolsSpec

\* The jobs of a process wait for each other only when the admin pool has nothing
\* out but the connections kept by their requests: graph runs and landlords'
\* replies, in any number, never wedge it, for pools of every size.
THEOREM NobodyWedged == PoolsSpec => []WedgedByKeepersOnly
<1>1. PoolsInv => WedgedByKeepersOnly
    BY AllStuckOnAdmin, StuckOnAdmin DEF WedgedByKeepersOnly, Wedged
<1> QED
    BY <1>1, PoolsInvInit, PoolsInvStep, PTL DEF PoolsSpec
==============================================================================
