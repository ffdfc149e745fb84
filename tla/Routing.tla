------------------------------- MODULE Routing -------------------------------
(***************************************************************************)
(* Whose text it is: how the webhook (routers/webhooks/twilio.py) decides  *)
(* that a text is a landlord's reply, a tenant's message or nobody's, from *)
(* registers that the landlord edits meanwhile (routers/me.py, tenants.py, *)
(* properties.py), and how a delivery that finds the text stored already   *)
(* treats it as what it was stored as.                                     *)
(*                                                                         *)
(* All texts come from one number and go to one number of Stoop's.  What   *)
(* follows a tenant's text is Intake's subject, what follows a landlord's  *)
(* reply DraftFlow's and Texts': here each is one mark on the text.        *)
(***************************************************************************)
EXTENDS Naturals

CONSTANTS
    Sids,        \* texts, by their MessageSid
    Requests,    \* deliveries
    NoText,      \* what an idle request delivers
    MaxEdit      \* bound: edits of the registers

ASSUME RoutingAssumption == NoText \notin Sids /\ MaxEdit \in Nat

Parties == {"landlord", "tenant"}
Effects == {"letter",      \* a dead letter
            "commanded",   \* a reply carried out
            "surfaced",    \* needs_eyes, for what a landlord wrote
            "escalated",   \* the emergency call is on its way
            "queued"}      \* the background task will treat it as a tenant's

NoRow == [party |-> "none"]
Rows(steady) == [party : Parties, known : BOOLEAN, case : BOOLEAN, steady : steady]

VARIABLES
    content,   \* per text: a HARD hit, a recognized reply ("1", "2", "UNDO"), anything else
    number,    \* properties.twilio_number is the number written to
    owner,     \* landlords.phone is the sender's number
    tenancy,   \* the property's tenants row with the sender's number: none, active, inactive
    edits,     \* edits so far
    inbox,     \* messages rows, by MessageSid
    effects,   \* per text: what was done about it
    request    \* per delivery: where it is, and what it has read

routingVars == <<content, number, owner, tenancy, edits, inbox, effects, request>>

Idle == [at |-> "idle", sid |-> NoText, row |-> NoRow, steady |-> FALSE]

RoutingInit ==
    /\ content \in [Sids -> {"hard", "reply", "other"}]
    /\ number \in BOOLEAN /\ owner \in BOOLEAN
    /\ tenancy \in {"none", "active", "inactive"}
    /\ edits = 0
    /\ inbox = [s \in Sids |-> NoRow]
    /\ effects = [s \in Sids |-> {}]
    /\ request = [r \in Requests |-> Idle]
-----------------------------------------------------------------------------
(* The registers.  A row of tenants is deactivated and never activated     *)
(* again, and stays unique on the property: the same number cannot be      *)
(* entered a second time.                                                  *)

\* No delivery under way can count on the sender being a tenant throughout.
Unsettle == request' = [r \in Requests |-> [request[r] EXCEPT !.steady = FALSE]]

Edit == edits < MaxEdit /\ edits' = edits + 1 /\ UNCHANGED <<content, inbox, effects>>

EditAccount ==
    /\ Edit
    /\ owner' = ~owner
    /\ UNCHANGED <<number, tenancy, request>>

CreateTenant ==
    /\ Edit
    /\ tenancy = "none" /\ tenancy' = "active"
    /\ UNCHANGED <<number, owner, request>>

DeleteTenant ==
    /\ Edit
    /\ tenancy # "none" /\ tenancy' = "inactive"
    /\ Unsettle
    /\ UNCHANGED <<number, owner>>

\* A row takes another number, or another row, active or not, takes this one.
EditTenant ==
    /\ Edit
    /\ \/ tenancy # "none" /\ tenancy' = "none" /\ Unsettle
       \/ tenancy = "none" /\ tenancy' \in {"active", "inactive"} /\ UNCHANGED request
    /\ UNCHANGED <<number, owner>>

\* The number is bought for the property, or released.
EditNumber ==
    /\ Edit
    /\ number' = ~number
    /\ UNCHANGED <<owner, tenancy, request>>
-----------------------------------------------------------------------------
(* A delivery.                                                             *)

registers == <<content, number, owner, tenancy, edits>>

Sid(r) == request[r].sid

Continue(r, at) == request' = [request EXCEPT ![r].at = at]
ContinueWith(r, at, row) == request' = [request EXCEPT ![r].at = at, ![r].row = row]
Mark(s, effect) == effects' = [effects EXCEPT ![s] = @ \union {effect}]

\* Twilio delivers a text, or delivers it again: there was no answer in time, a
\* 500, or two attempts crossed.
Receive(r, s) ==
    /\ request[r].at = "idle"
    /\ request' = [request EXCEPT ![r] =
           [at |-> "number", sid |-> s, row |-> NoRow, steady |-> tenancy = "active"]]
    /\ UNCHANGED <<registers, inbox, effects>>

\* Whatever fails, or dies with the process, is not answered with a 200; only the
\* reply and the notice to the landlord are given up silently.
Abort(r) ==
    /\ request[r].at # "idle"
    /\ request' = [request EXCEPT ![r] = Idle]
    /\ UNCHANGED <<registers, inbox, effects>>

FindProperty(r) ==
    /\ request[r].at = "number"
    /\ Continue(r, IF number THEN "owner" ELSE "letter")
    /\ UNCHANGED <<registers, inbox, effects>>

DeadLetter(r) ==
    /\ request[r].at = "letter"
    /\ Mark(Sid(r), "letter")
    /\ request' = [request EXCEPT ![r] = Idle]
    /\ UNCHANGED <<registers, inbox>>

\* _is_landlord_command_channel reads the account, and then the tenants: on
\* collision the tenant's pipeline wins.
ReadOwner(r) ==
    /\ request[r].at = "owner"
    /\ Continue(r, IF owner THEN "collision" ELSE "tenant")
    /\ UNCHANGED <<registers, inbox, effects>>

CollisionIgnored(r) ==
    /\ request[r].at = "collision"
    /\ Continue(r, "reply")
    /\ UNCHANGED <<registers, inbox, effects>>

ReadCollision(r) ==
    /\ request[r].at = "collision"
    /\ Continue(r, IF tenancy = "active" THEN "tenant" ELSE "reply")
    /\ UNCHANGED <<registers, inbox, effects>>

\* A recognized reply belongs to the case of the newest notice, if there is one.
ResolveReply(r) ==
    /\ request[r].at = "reply"
    /\ \E case \in BOOLEAN :
        /\ case => content[Sid(r)] = "reply"
        /\ ContinueWith(r, "insert", [party |-> "landlord", known |-> FALSE, case |-> case,
                                      steady |-> request[r].steady])
    /\ UNCHANGED <<registers, inbox, effects>>

\* An unknown sender's text is stored as a tenant's, of no tenant.
ReadTenant(r) ==
    /\ request[r].at = "tenant"
    /\ ContinueWith(r, "insert", [party |-> "tenant", known |-> tenancy = "active", case |-> FALSE,
                                  steady |-> request[r].steady])
    /\ UNCHANGED <<registers, inbox, effects>>

\* ON CONFLICT DO NOTHING: the first delivery to get here decides.
Insert(r) ==
    /\ request[r].at = "insert"
    /\ \/ /\ inbox[Sid(r)] = NoRow
          /\ inbox' = [inbox EXCEPT ![Sid(r)] = request[r].row]
          /\ Continue(r, "effects")
       \/ /\ inbox[Sid(r)] # NoRow
          /\ Continue(r, "recover")
          /\ UNCHANGED inbox
    /\ UNCHANGED <<registers, effects>>

\* The stored row counts, not what this delivery has read; the draft of a reply
\* is looked up again, and may be gone.
RecoverOwn(r) ==
    /\ request[r].at = "recover"
    /\ Continue(r, "effects")
    /\ UNCHANGED <<registers, inbox, effects>>

RecoverRow(r) ==
    /\ request[r].at = "recover"
    /\ \E case \in BOOLEAN :
        /\ case => inbox[Sid(r)].case
        /\ ContinueWith(r, "effects", [inbox[Sid(r)] EXCEPT !.case = case])
    /\ UNCHANGED <<registers, inbox, effects>>

\* handle_reply is fail-open and falls back to the notice: it may have failed
\* before or after it was carried out.
CarryOut(r) ==
    /\ request[r].at = "effects"
    /\ request[r].row.party = "landlord" /\ request[r].row.case
    /\ \/ Mark(Sid(r), "commanded") /\ request' = [request EXCEPT ![r] = Idle]
       \/ Mark(Sid(r), "commanded") /\ Continue(r, "surface")
       \/ Continue(r, "surface") /\ UNCHANGED effects
    /\ UNCHANGED <<registers, inbox>>

Surface(r) ==
    /\ \/ request[r].at = "surface"
       \/ /\ request[r].at = "effects"
          /\ request[r].row.party = "landlord" /\ ~request[r].row.case
    /\ Mark(Sid(r), "surfaced")
    /\ request' = [request EXCEPT ![r] = Idle]
    /\ UNCHANGED <<registers, inbox>>

Escalates(r) ==
    /\ request[r].at = "effects"
    /\ request[r].row.party = "tenant" /\ content[Sid(r)] = "hard"
    /\ Mark(Sid(r), "escalated")
    /\ Continue(r, "queue")
    /\ UNCHANGED <<registers, inbox>>

Enqueue(r) ==
    /\ \/ request[r].at = "queue"
       \/ /\ request[r].at = "effects"
          /\ request[r].row.party = "tenant" /\ content[Sid(r)] # "hard"
    /\ Mark(Sid(r), "queued")
    /\ request' = [request EXCEPT ![r] = Idle]
    /\ UNCHANGED <<registers, inbox>>

RoutingNext ==
    \/ EditAccount \/ CreateTenant \/ DeleteTenant \/ EditTenant \/ EditNumber
    \/ \E r \in Requests :
        \/ \E s \in Sids : Receive(r, s)
        \/ Abort(r) \/ FindProperty(r) \/ DeadLetter(r)
        \/ ReadOwner(r) \/ ReadCollision(r) \/ ResolveReply(r) \/ ReadTenant(r)
        \/ Insert(r) \/ RecoverRow(r)
        \/ CarryOut(r) \/ Surface(r) \/ Escalates(r) \/ Enqueue(r)

RoutingSpec == RoutingInit /\ [][RoutingNext]_routingVars
-----------------------------------------------------------------------------
(* The properties.                                                         *)

RoutingTypeOK ==
    /\ content \in [Sids -> {"hard", "reply", "other"}]
    /\ number \in BOOLEAN /\ owner \in BOOLEAN
    /\ tenancy \in {"none", "active", "inactive"}
    /\ edits \in 0..MaxEdit
    /\ inbox \in [Sids -> Rows(BOOLEAN) \union {NoRow}]
    /\ effects \in [Sids -> SUBSET Effects]
    /\ request \in [Requests -> [at : {"idle", "number", "letter", "owner", "collision", "reply",
                                       "tenant", "insert", "recover", "effects", "surface", "queue"},
                                 sid : Sids \union {NoText},
                                 row : Rows(BOOLEAN) \union {NoRow},
                                 steady : BOOLEAN]]

\* A text is treated as one party's only, through all its deliveries, whatever
\* the landlord edits between them: what was carried out or surfaced as the
\* landlord's is never classified or escalated as a tenant's, nor the reverse.
TreatedAsStored ==
    \A s \in Sids :
        /\ effects[s] \cap {"commanded", "surfaced"} # {} => inbox[s].party = "landlord"
        /\ effects[s] \cap {"escalated", "queued"} # {} => inbox[s].party = "tenant"

\* A text of somebody who was an active tenant as long as it was being read is
\* a tenant's, even if the landlord of the property has the same number: an
\* emergency is never routed away from the tenant path.
TenantsComeFirst ==
    \A s \in Sids : inbox[s] # NoRow /\ inbox[s].steady => inbox[s].party = "tenant" /\ inbox[s].known

\* Each text gets what is due to who it is from.
EachTextItsDue == TreatedAsStored /\ TenantsComeFirst
=============================================================================
