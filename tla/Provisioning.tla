---------------------------- MODULE Provisioning ----------------------------
(***************************************************************************)
(* Phone numbers of properties: bought when a property is created          *)
(* (routers/properties.py, property_provisioning.py), given back when the  *)
(* creation fails or, a grace period after the property was deleted, by    *)
(* the release sweep (integrations/twilio_provision.py is the carrier).    *)
(*                                                                         *)
(* A create request and the number it buys and the property it inserts     *)
(* share one identity.  A number is billed until it is released.  Time is  *)
(* counted in retry intervals of the sweep; the calls of one tick take     *)
(* less than one.                                                          *)
(***************************************************************************)
EXTENDS Naturals, FiniteSets

CONSTANTS
    Creates,             \* create requests
    AddressOf,           \* the address each one is for
    MaxProperties,       \* settings.max_properties_per_landlord
    Releasers,           \* processes that run the release sweep
    MaxReleaseAttempts,  \* _NUMBER_RELEASE_MAX_ATTEMPTS
    Grace,               \* NUMBER_RELEASE_GRACE_PERIOD_SECONDS
    MaxNumberFault       \* bound: lost answers, database errors, crashes

ASSUME ProvisioningAssumption ==
    /\ MaxProperties \in Nat \ {0} /\ MaxReleaseAttempts \in Nat \ {0}
    /\ Grace \in Nat \ {0} /\ MaxNumberFault \in Nat

VARIABLES
    create,      \* per request: where its handler is
    number,      \* per request: "none", "billed", "released"
    property,    \* per request: "none", "inserted" (not committed), "live", "deleted"
    release,     \* number_release rows of notifications
    releaser,    \* per process: where its tick is
    paged,       \* numbers that a person has been told to look at
    silent,      \* numbers whose request lost the answer to the purchase or died
    numberFault

numberVars == <<create, number, property, release, releaser, paged, silent, numberFault>>
handlerVars == <<release, releaser>>
sweepVars == <<create, property, silent>>

NoRelease == [status |-> "absent", attempt |-> 0, wait |-> 0]
Waits == [pc |-> "rest", todo |-> {}, cur |-> <<>>]

ProvisioningInit ==
    /\ \E start \in {"new", "end"} : create = [q \in Creates |-> start]
    /\ number = [q \in Creates |-> "none"]
    /\ property = [q \in Creates |-> "none"]
    /\ release = [q \in Creates |-> NoRelease]
    /\ releaser = [k \in Releasers |-> Waits]
    /\ paged = {} /\ silent = {} /\ numberFault = MaxNumberFault

Live(q) == property[q] = "live"
Fault == numberFault > 0 /\ numberFault' = numberFault - 1
NoFault == UNCHANGED numberFault
Then(q, label) == create' = [create EXCEPT ![q] = label]
PageFor(q) == paged' = paged \union {q}

-----------------------------------------------------------------------------
(* POST /v1/properties                                                     *)

SameAddress(q) == {p \in Creates \ {q} : AddressOf[p] = AddressOf[q]}

\* The cap and the duplicate are looked up before anything is bought.
Precheck(q) ==
    /\ create[q] = "new"
    /\ LET refused == \/ Cardinality({p \in Creates : Live(p)}) >= MaxProperties
                      \/ \E p \in SameAddress(q) : Live(p)
       IN Then(q, IF refused THEN "end" ELSE "purchase")
    /\ UNCHANGED <<number, property, paged, silent, numberFault, handlerVars>>

\* Search and purchase.  Without the answer nobody knows the number's sid.
Purchase(q) ==
    /\ create[q] = "purchase"
    /\ \/ Then(q, "configure") /\ number' = [number EXCEPT ![q] = "billed"] /\ NoFault /\ UNCHANGED silent
       \/ Then(q, "end") /\ NoFault /\ UNCHANGED <<number, silent>>
       \/ /\ Fault /\ Then(q, "end") /\ number' = [number EXCEPT ![q] = "billed"]
          /\ silent' = silent \union {q}
    /\ UNCHANGED <<property, paged, handlerVars>>

Configure(q) ==
    /\ create[q] = "configure"
    /\ Then(q, "insert") \/ Then(q, "guard")
    /\ UNCHANGED <<number, property, paged, silent, numberFault, handlerVars>>

\* The unique index on the address makes a second insert wait for the first
\* transaction; the loser gives its number back without a page.
InsertProperty(q) ==
    /\ create[q] = "insert"
    /\ \A p \in SameAddress(q) : property[p] # "inserted"
    /\ \/ /\ \E p \in SameAddress(q) : Live(p)
          /\ Then(q, "guard") /\ NoFault /\ UNCHANGED <<property, paged>>
       \/ /\ \A p \in SameAddress(q) : ~Live(p)
          /\ property' = [property EXCEPT ![q] = "inserted"]
          /\ Then(q, "commit") /\ NoFault /\ UNCHANGED paged
       \/ Fault /\ PageFor(q) /\ Then(q, "guard") /\ UNCHANGED property
    /\ UNCHANGED <<number, silent, handlerVars>>

\* A commit that raises may have been applied all the same.
CommitProperty(q) ==
    /\ create[q] = "commit"
    /\ \/ property' = [property EXCEPT ![q] = "live"] /\ Then(q, "end") /\ NoFault /\ UNCHANGED paged
       \/ /\ Fault /\ PageFor(q) /\ Then(q, "guard")
          /\ \E applied \in {"live", "none"} : property' = [property EXCEPT ![q] = applied]
    /\ UNCHANGED <<number, silent, handlerVars>>

\* Mutant: the sid is released without a look at the properties.
SpareUnseen(q) == FALSE
\* _SELECT_LIVE_PROPERTY_FOR_SID_SQL
Spare(q) == Live(q)
\* release_number_best_effort: a number that a property owns is spared, and so
\* is one whose owner cannot be looked up.
GuardCompensation(q) ==
    /\ create[q] = "guard"
    /\ \/ Spare(q) /\ PageFor(q) /\ Then(q, "end") /\ NoFault
       \/ ~Spare(q) /\ Then(q, "release") /\ NoFault /\ UNCHANGED paged
       \/ Fault /\ PageFor(q) /\ Then(q, "end")
    /\ UNCHANGED <<number, property, silent, handlerVars>>

\* Mutant: a release that fails is only logged.
CompensateQuietly(q) ==
    /\ create[q] = "release"
    /\ Then(q, "end")
    /\ \/ number' = [number EXCEPT ![q] = "released"] /\ NoFault /\ UNCHANGED paged
       \/ UNCHANGED <<number, paged, numberFault>>
    /\ UNCHANGED <<property, silent, handlerVars>>
Compensate(q) ==
    /\ create[q] = "release"
    /\ Then(q, "end")
    /\ \/ number' = [number EXCEPT ![q] = "released"] /\ NoFault /\ UNCHANGED paged
       \/ PageFor(q) /\ NoFault /\ UNCHANGED number
       \/ Fault /\ PageFor(q) /\ number' = [number EXCEPT ![q] = "released"]
    /\ UNCHANGED <<property, silent, handlerVars>>

\* The process ends, or the client hangs up: CancelledError is no Exception.
RequestDies(q) ==
    /\ Fault /\ create[q] \in {"configure", "insert", "commit", "guard", "release"}
    /\ Then(q, "end") /\ silent' = silent \union {q}
    /\ property' = IF property[q] = "inserted" THEN [property EXCEPT ![q] = "none"] ELSE property
    /\ UNCHANGED <<number, paged, handlerVars>>

\* DELETE /v1/properties/{id}?confirm=true: the row goes and the release of its
\* number is scheduled in one transaction, once per sid.
DeleteProperty(q) ==
    /\ Live(q)
    /\ property' = [property EXCEPT ![q] = "deleted"]
    /\ release' = [release EXCEPT ![q] = IF @.status = "absent"
                     THEN [status |-> "pending", attempt |-> 0, wait |-> Grace] ELSE @]
    /\ UNCHANGED <<create, number, releaser, paged, silent, numberFault>>

-----------------------------------------------------------------------------
(* sweep_pending_number_releases                                           *)

PendingRelease(q) == release[q].status = "pending"
\* A request takes seconds, an interval of the sweep minutes: none is under way
\* from one tick to the next.
Idle == \A q \in Creates : create[q] \in {"new", "end"}
ReleaseTick ==
    /\ Idle /\ \A k \in Releasers : releaser[k].pc = "rest"
    /\ \E q \in Creates : PendingRelease(q)
    /\ release' = [q \in Creates |-> [release[q] EXCEPT !.wait = IF @ = 0 THEN 0 ELSE @ - 1]]
    /\ releaser' = [k \in Releasers |-> [Waits EXCEPT !.pc = "select"]]
    /\ UNCHANGED <<number, paged, numberFault, sweepVars>>

SelectReleases(k) ==
    /\ releaser[k].pc = "select"
    /\ releaser' = [releaser EXCEPT ![k] = [Waits EXCEPT !.pc = "claim",
                       !.todo = {<<q, release[q].attempt>> :
                                    q \in {q \in Creates : PendingRelease(q) /\ release[q].wait = 0}}]]
    /\ UNCHANGED <<release, number, paged, numberFault, sweepVars>>

EndReleases(k) ==
    /\ releaser[k].pc = "claim" /\ releaser[k].todo = {}
    /\ releaser' = [releaser EXCEPT ![k] = Waits]
    /\ UNCHANGED <<release, number, paged, numberFault, sweepVars>>

\* The claim spends the attempt and pushes the next one away before the call.
ClaimRelease(k) ==
    /\ releaser[k].pc = "claim"
    /\ \E e \in releaser[k].todo :
         LET won == PendingRelease(e[1]) /\ release[e[1]].attempt = e[2] IN
         /\ release' = IF won THEN [release EXCEPT ![e[1]].attempt = @ + 1, ![e[1]].wait = 1] ELSE release
         /\ releaser' = [releaser EXCEPT ![k] = [pc |-> IF won THEN "guard" ELSE "claim",
                                                 todo |-> @.todo \ {e}, cur |-> e]]
    /\ UNCHANGED <<number, paged, numberFault, sweepVars>>

Current(k) == releaser[k].cur[1]
At(k, label) == releaser' = [releaser EXCEPT ![k].pc = label]

GuardRelease(k) ==
    /\ releaser[k].pc = "guard"
    /\ At(k, IF Live(Current(k)) THEN "exhausted" ELSE "call")
    /\ UNCHANGED <<release, number, paged, numberFault, sweepVars>>

\* A number that is gone already (404) counts as released; any other failure
\* waits for the next attempt, if one is left.
LastRelease(k) == releaser[k].cur[2] + 1 >= MaxReleaseAttempts
CallRelease(k) ==
    /\ releaser[k].pc = "call"
    /\ \/ At(k, "sent") /\ number' = [number EXCEPT ![Current(k)] = "released"] /\ NoFault
       \/ /\ number[Current(k)] = "billed" /\ NoFault /\ UNCHANGED number
          /\ At(k, IF LastRelease(k) THEN "exhausted" ELSE "claim")
       \/ /\ Fault /\ number' = [number EXCEPT ![Current(k)] = "released"]
          /\ At(k, IF LastRelease(k) THEN "exhausted" ELSE "claim")
    /\ UNCHANGED <<release, paged, sweepVars>>

MarkRelease(k) ==
    /\ releaser[k].pc \in {"sent", "exhausted"} /\ At(k, "claim")
    /\ release' = [release EXCEPT ![Current(k)].status = releaser[k].pc]
    /\ IF releaser[k].pc = "exhausted" THEN PageFor(Current(k)) ELSE UNCHANGED paged
    /\ UNCHANGED <<number, numberFault, sweepVars>>

\* An exception of a statement ends the tick, like a crash.
SweepError(k) ==
    /\ Fault /\ releaser[k].pc # "rest"
    /\ releaser' = [releaser EXCEPT ![k] = Waits]
    /\ UNCHANGED <<release, number, paged, sweepVars>>

-----------------------------------------------------------------------------
CreateStep(q) ==
    Precheck(q) \/ Purchase(q) \/ Configure(q) \/ InsertProperty(q)
        \/ CommitProperty(q) \/ GuardCompensation(q) \/ Compensate(q)
ReleaseStep(k) ==
    SelectReleases(k) \/ EndReleases(k) \/ ClaimRelease(k) \/ GuardRelease(k)
        \/ CallRelease(k) \/ MarkRelease(k)
ProvisioningNext ==
    \/ \E q \in Creates : CreateStep(q) \/ RequestDies(q) \/ DeleteProperty(q)
    \/ ReleaseTick
    \/ \E k \in Releasers : ReleaseStep(k) \/ SweepError(k)

ProvisioningSpec == ProvisioningInit /\ [][ProvisioningNext]_numberVars

ProvisioningFairness ==
    /\ WF_numberVars(ReleaseTick)
    /\ \A q \in Creates : WF_numberVars(CreateStep(q))
    /\ \A k \in Releasers : WF_numberVars(ReleaseStep(k))
-----------------------------------------------------------------------------
ProvisioningTypeOK ==
    /\ create \in [Creates -> {"new", "purchase", "configure", "insert", "commit", "guard", "release", "end"}]
    /\ number \in [Creates -> {"none", "billed", "released"}]
    /\ property \in [Creates -> {"none", "inserted", "live", "deleted"}]
    /\ release \in [Creates -> [status : {"absent", "pending", "sent", "exhausted"},
                                attempt : Nat, wait : 0..Grace]]
    /\ \A k \in Releasers : releaser[k].pc \in {"rest", "select", "claim", "guard", "call", "sent", "exhausted"}
    /\ paged \subseteq Creates /\ silent \subseteq Creates /\ numberFault \in 0..MaxNumberFault

\* The number of a live property is never released: its tenants reach it, in an
\* emergency too.
LiveNumberKept == \A q \in Creates : Live(q) => number[q] = "billed"

\* A number that is paid for belongs to a property, is being taken care of, or
\* has been reported; except where the purchase's answer was lost or the
\* request died, which the code has no record of.
InHand(q) == create[q] # "end" \/ PendingRelease(q)
NumbersAccounted ==
    \A q \in Creates : number[q] = "billed" => Live(q) \/ InHand(q) \/ q \in paged \/ q \in silent

\* A number without a property is released in the end, or reported: time and
\* again there is none.
StraysEnd ==
    []<>(\A q \in Creates : number[q] = "billed" => Live(q) \/ q \in paged \/ q \in silent)

\* Releases keep the promise of an outbox, with any number of tickers.
ReleaseState(q) ==
    CASE PendingRelease(q) -> "open"
      [] release[q].status = "sent" -> "done"
      [] release[q].status = "exhausted" -> "dropped"
      [] OTHER -> "absent"
ReleaseOutbox == INSTANCE Outbox WITH
    Row <- Creates, state <- [q \in Creates |-> ReleaseState(q)],
    took <- [q \in Creates |-> release[q].status # "absent" /\ number[q] = "released"]
ReleasesKeepThePromise == ReleaseOutbox!OutboxSpec
=============================================================================
