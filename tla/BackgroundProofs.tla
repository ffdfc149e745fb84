-------------------------- MODULE BackgroundProofs --------------------------
(***************************************************************************)
(* Safety of the outboxes and of the key cache, for any number of rows,    *)
(* devices, requests, processes and faults: NumberInv for the releases,    *)
(* TextInv for the texts, PushInv for the pushes (PromiseInv with what its *)
(* outcomes mean), KeyInv for the keys; and what each drain promises.      *)
(***************************************************************************)
EXTENDS MCBackground, WellFoundedInduction, FiniteSetTheorems, TLAPS

-----------------------------------------------------------------------------
(* Number releases.                                                        *)

\* The type of every variable, with that of a releaser spelled out: it holds
\* releases with the attempt it read, and one of them once it has claimed it.
ReleaseEntries == Creates \X Nat
ReleaserType == [pc : {"rest", "select", "claim", "guard", "call", "sent", "exhausted"},
                 todo : SUBSET ReleaseEntries, cur : ReleaseEntries \cup {<<>>}]
CreateLabels == {"new", "purchase", "configure", "insert", "commit", "guard", "release", "end"}
\* k has claimed a release and not yet written what became of it.
Releasing(k) == releaser[k].pc \in {"guard", "call", "sent", "exhausted"}
NumberTypes ==
    /\ create \in [Creates -> CreateLabels]
    /\ number \in [Creates -> {"none", "billed", "released"}]
    /\ property \in [Creates -> {"none", "inserted", "live", "deleted"}]
    /\ release \in [Creates -> [status : {"absent", "pending", "sent", "exhausted"},
                                attempt : Nat, wait : 0..Grace]]
    /\ paged \subseteq Creates /\ silent \subseteq Creates
    /\ numberFault \in 0..MaxNumberFault
ReleaserTypes ==
    /\ releaser \in [Releasers -> ReleaserType]
    /\ \A k \in Releasers : Releasing(k) => releaser[k].cur \in ReleaseEntries

\* Where a request stands says what it has bought and inserted.
RequestStaged(q) ==
    /\ create[q] \in {"new", "purchase"} => number[q] = "none" /\ property[q] = "none"
    /\ create[q] \in {"configure", "insert"} => number[q] = "billed" /\ property[q] = "none"
    /\ create[q] = "commit" => number[q] = "billed"
    /\ property[q] = "inserted" <=> create[q] = "commit"
    /\ create[q] = "release" => ~Live(q)
    /\ Live(q) => number[q] = "billed"
RequestsStaged == \A q \in Creates : RequestStaged(q)

\* A release is of a deleted property.  The sweep has touched it only if no
\* request for it is under way: it was due for a tick that began after.
ReleaseSound(q) ==
    /\ release[q].status # "absent" => property[q] = "deleted"
    /\ release[q].status # "absent" /\ create[q] # "end" =>
           release[q].status = "pending" /\ release[q].wait > 0
ReleasesSound == \A q \in Creates : ReleaseSound(q)

\* What a releaser holds is a scheduled release of a request that has ended.
Sweepable(q) == release[q].status # "absent" /\ create[q] = "end"
SweepsKnown ==
    \A k \in Releasers :
        /\ \A e \in releaser[k].todo : Sweepable(e[1]) /\ e[2] <= release[e[1]].attempt
        /\ Releasing(k) => Sweepable(Current(k))

\* A claimed row has one owner, who alone may write it.
ReleasesOwned ==
    \A k \in Releasers : Releasing(k) =>
        /\ PendingRelease(Current(k))
        /\ release[Current(k)].wait > 0
        /\ release[Current(k)].attempt = releaser[k].cur[2] + 1
        /\ releaser[k].pc = "sent" => number[Current(k)] = "released"
        /\ \A j \in Releasers :
              /\ Releasing(j) /\ j # k => Current(j) # Current(k)
              /\ \A e \in releaser[j].todo : e[1] = Current(k) => e[2] < release[Current(k)].attempt

\* What an outcome says of the number is so.
OutcomesSound ==
    \A q \in Creates :
        /\ release[q].status = "sent" => number[q] = "released"
        /\ release[q].status = "exhausted" => q \in paged

\* The inductive invariant of the releases.
NumberInv ==
    /\ NumberTypes /\ ReleaserTypes /\ RequestsStaged /\ ReleasesSound /\ SweepsKnown
    /\ ReleasesOwned /\ OutcomesSound /\ NumbersAccounted

\* A fault is one of those that are left.
LEMMA FaultTypes ==
    ASSUME numberFault \in 0..MaxNumberFault, Fault \/ NoFault
    PROVE  numberFault' \in 0..MaxNumberFault
  BY ProvisioningAssumption DEF Fault, NoFault

\* Every step keeps the types of the rows.
LEMMA NumberTypesStep ==
    ASSUME NumberTypes, ReleaserTypes, [ProvisioningNext]_numberVars
    PROVE  NumberTypes'
<1> USE ProvisioningAssumption DEF NumberTypes, CreateLabels, Then, PageFor, Live,
        handlerVars, sweepVars
<1>1. ASSUME NEW q \in Creates, Precheck(q) PROVE NumberTypes'
  BY <1>1 DEF Precheck
<1>2. ASSUME NEW q \in Creates, Purchase(q) PROVE NumberTypes'
  <2>1. numberFault' \in 0..MaxNumberFault
    BY <1>2, FaultTypes DEF Purchase
  <2>2. QED
    BY <1>2, <2>1 DEF Purchase
<1>3. ASSUME NEW q \in Creates, Configure(q) PROVE NumberTypes'
  BY <1>3 DEF Configure
<1>4. ASSUME NEW q \in Creates, InsertProperty(q) PROVE NumberTypes'
  <2>1. numberFault' \in 0..MaxNumberFault
    BY <1>4, FaultTypes DEF InsertProperty
  <2>2. QED
    BY <1>4, <2>1 DEF InsertProperty
<1>5. ASSUME NEW q \in Creates, CommitProperty(q) PROVE NumberTypes'
  <2>1. numberFault' \in 0..MaxNumberFault
    BY <1>5, FaultTypes DEF CommitProperty
  <2>2. \E now \in {"live", "none"} : property' = [property EXCEPT ![q] = now]
    BY <1>5 DEF CommitProperty
  <2>3. property' \in [Creates -> {"none", "inserted", "live", "deleted"}]
    BY <2>2
  <2>4. QED
    BY <1>5, <2>1, <2>3 DEF CommitProperty
<1>6. ASSUME NEW q \in Creates, GuardCompensation(q) PROVE NumberTypes'
  <2>1. numberFault' \in 0..MaxNumberFault
    BY <1>6, FaultTypes DEF GuardCompensation
  <2>2. QED
    BY <1>6, <2>1 DEF GuardCompensation
<1>7. ASSUME NEW q \in Creates, Compensate(q) PROVE NumberTypes'
  <2>1. numberFault' \in 0..MaxNumberFault
    BY <1>7, FaultTypes DEF Compensate
  <2>2. QED
    BY <1>7, <2>1 DEF Compensate
<1>8. ASSUME NEW q \in Creates, RequestDies(q) PROVE NumberTypes'
  <2>1. numberFault' \in 0..MaxNumberFault
    BY <1>8, FaultTypes DEF RequestDies
  <2>2. QED
    BY <1>8, <2>1 DEF RequestDies
<1>9. ASSUME NEW q \in Creates, DeleteProperty(q) PROVE NumberTypes'
  BY <1>9 DEF DeleteProperty
<1>10. ASSUME ReleaseTick PROVE NumberTypes'
  <2>1. \A n \in 0..Grace : (IF n = 0 THEN 0 ELSE n - 1) \in 0..Grace
    OBVIOUS
  <2>2. release' \in [Creates -> [status : {"absent", "pending", "sent", "exhausted"},
                                  attempt : Nat, wait : 0..Grace]]
    BY <1>10, <2>1 DEF ReleaseTick
  <2>3. QED
    BY <1>10, <2>2 DEF ReleaseTick
<1>11. ASSUME NEW k \in Releasers, SelectReleases(k) \/ EndReleases(k) \/ GuardRelease(k)
       PROVE  NumberTypes'
  BY <1>11 DEF SelectReleases, EndReleases, GuardRelease
<1>12. ASSUME NEW k \in Releasers, ClaimRelease(k) PROVE NumberTypes'
  <2>1. PICK e \in releaser[k].todo :
               \/ release' = [release EXCEPT ![e[1]].attempt = @ + 1, ![e[1]].wait = 1]
               \/ release' = release
    BY <1>12 DEF ClaimRelease
  <2>2. e[1] \in Creates
    BY DEF ReleaserTypes, ReleaserType, ReleaseEntries
  <2>3. release' \in [Creates -> [status : {"absent", "pending", "sent", "exhausted"},
                                  attempt : Nat, wait : 0..Grace]]
    BY <2>1, <2>2
  <2>4. QED
    BY <1>12, <2>3 DEF ClaimRelease
<1>13. ASSUME NEW k \in Releasers, CallRelease(k) PROVE NumberTypes'
  <2>1. Current(k) \in Creates
    BY <1>13 DEF CallRelease, Current, ReleaserTypes, ReleaseEntries, Releasing
  <2>2. numberFault' \in 0..MaxNumberFault
    BY <1>13, FaultTypes DEF CallRelease
  <2>3. QED
    BY <1>13, <2>1, <2>2 DEF CallRelease
<1>14. ASSUME NEW k \in Releasers, MarkRelease(k) PROVE NumberTypes'
  <2>1. Current(k) \in Creates
    BY <1>14 DEF MarkRelease, Current, ReleaserTypes, ReleaseEntries, Releasing
  <2>2. QED
    BY <1>14, <2>1 DEF MarkRelease
<1>15. ASSUME NEW k \in Releasers, SweepError(k) PROVE NumberTypes'
  <2>1. numberFault' \in 0..MaxNumberFault
    BY <1>15, FaultTypes DEF SweepError
  <2>2. QED
    BY <1>15, <2>1 DEF SweepError
<1>16. CASE UNCHANGED numberVars
  BY <1>16 DEF numberVars
<1>17. QED
  BY <1>1, <1>2, <1>3, <1>4, <1>5, <1>6, <1>7, <1>8, <1>9, <1>10, <1>11, <1>12, <1>13,
     <1>14, <1>15, <1>16 DEF ProvisioningNext, CreateStep, ReleaseStep

\* A releaser that only moves on keeps its type.
LEMMA ReleaserMoves ==
    ASSUME ReleaserTypes, NEW k \in Releasers, At(k, releaser'[k].pc),
           releaser'[k].pc \in {"claim", "guard", "call", "sent", "exhausted"},
           releaser[k].cur \in ReleaseEntries
    PROVE  ReleaserTypes'
  BY DEF ReleaserTypes, ReleaserType, ReleaseEntries, Releasing, At

\* Every step keeps the types of the releasers.
LEMMA ReleaserTypesStep ==
    ASSUME NumberTypes, ReleaserTypes, [ProvisioningNext]_numberVars
    PROVE  ReleaserTypes'
<1> USE DEF ReleaserTypes, Releasing
<1>1. CASE UNCHANGED releaser
  BY <1>1
<1>2. CASE ReleaseTick
  BY <1>2 DEF ReleaseTick, Waits, ReleaserType
<1>3. ASSUME NEW k \in Releasers, SelectReleases(k) PROVE ReleaserTypes'
  <2> DEFINE due == {<<q, release[q].attempt>> :
                        q \in {q \in Creates : PendingRelease(q) /\ release[q].wait = 0}}
  <2>1. due \subseteq ReleaseEntries
    BY DEF NumberTypes, ReleaseEntries
  <2>2. \A S \in SUBSET ReleaseEntries :
          [Waits EXCEPT !.pc = "claim", !.todo = S] \in ReleaserType
    BY DEF ReleaserType, Waits
  <2>3. /\ releaser' = [releaser EXCEPT ![k] = [Waits EXCEPT !.pc = "claim", !.todo = due]]
        /\ [Waits EXCEPT !.pc = "claim", !.todo = due].pc = "claim"
    BY <1>3 DEF SelectReleases, Waits
  <2>4. [Waits EXCEPT !.pc = "claim", !.todo = due] \in ReleaserType
    BY <2>1, <2>2
  <2> HIDE DEF due
  <2>5. QED
    BY <2>3, <2>4
<1>4. ASSUME NEW k \in Releasers, EndReleases(k) \/ SweepError(k) PROVE ReleaserTypes'
  BY <1>4 DEF EndReleases, SweepError, Waits, ReleaserType
<1>5. ASSUME NEW k \in Releasers, ClaimRelease(k) PROVE ReleaserTypes'
  <2>1. PICK e \in releaser[k].todo :
               \E at \in {"guard", "claim"} :
                  releaser' = [releaser EXCEPT ![k] =
                                  [pc |-> at, todo |-> releaser[k].todo \ {e}, cur |-> e]]
    BY <1>5 DEF ClaimRelease
  <2>2. PICK at \in {"guard", "claim"} :
               releaser' = [releaser EXCEPT ![k] =
                               [pc |-> at, todo |-> releaser[k].todo \ {e}, cur |-> e]]
    BY <2>1
  <2>3. e \in ReleaseEntries /\ releaser[k].todo \ {e} \subseteq ReleaseEntries
    BY DEF ReleaserType
  <2>4. [pc |-> at, todo |-> releaser[k].todo \ {e}, cur |-> e] \in ReleaserType
    BY <2>3 DEF ReleaserType
  <2>5. QED
    BY <2>2, <2>3, <2>4
<1>6. ASSUME NEW k \in Releasers, GuardRelease(k) \/ CallRelease(k) \/ MarkRelease(k)
      PROVE  ReleaserTypes'
  <2>1. releaser[k].cur \in ReleaseEntries
    BY <1>6 DEF GuardRelease, CallRelease, MarkRelease
  <2>2. \E label \in {"claim", "guard", "call", "sent", "exhausted"} : At(k, label)
    BY <1>6 DEF GuardRelease, CallRelease, MarkRelease
  <2>3. PICK label \in {"claim", "guard", "call", "sent", "exhausted"} : At(k, label)
    BY <2>2
  <2>4. releaser'[k].pc = label
    BY <2>3 DEF At, ReleaserType
  <2>5. QED
    BY <2>1, <2>3, <2>4, ReleaserMoves
<1>7. QED
  BY <1>1, <1>2, <1>3, <1>4, <1>5, <1>6
     DEF ProvisioningNext, CreateStep, ReleaseStep, numberVars, Precheck, Purchase, Configure,
         InsertProperty, CommitProperty, GuardCompensation, Compensate, RequestDies,
         DeleteProperty, handlerVars

\* The steps of a request leave the sweep alone.
LEMMA RequestFrame ==
    ASSUME NEW q \in Creates, CreateStep(q) \/ RequestDies(q)
    PROVE  UNCHANGED <<release, releaser>>
  BY DEF CreateStep, RequestDies, Precheck, Purchase, Configure, InsertProperty,
         CommitProperty, GuardCompensation, Compensate, handlerVars

\* The call is made for a number whose request has ended.
LEMMA CallOutcome ==
    ASSUME NumberTypes, ReleaserTypes, NEW k \in Releasers, CallRelease(k)
    PROVE  /\ Releasing(k) /\ Current(k) \in Creates /\ Current(k)' = Current(k)
           /\ \E label \in {"sent", "claim", "exhausted"} : At(k, label)
           /\ number' = number \/ number' = [number EXCEPT ![Current(k)] = "released"]
           /\ releaser'[k].pc = "sent" => number'[Current(k)] = "released"
  <1>1. Releasing(k) /\ Current(k) \in Creates
    BY DEF CallRelease, Releasing, Current, ReleaserTypes, ReleaseEntries
  <1>2. \E label \in {"sent", "claim", "exhausted"} :
           /\ At(k, label)
           /\ label = "sent" => number' = [number EXCEPT ![Current(k)] = "released"]
    BY DEF CallRelease
  <1>3. PICK label \in {"sent", "claim", "exhausted"} :
           /\ At(k, label)
           /\ label = "sent" => number' = [number EXCEPT ![Current(k)] = "released"]
    BY <1>2
  <1>4. releaser'[k].pc = label /\ Current(k)' = Current(k)
    BY <1>3 DEF Current, At, ReleaserTypes, ReleaserType
  <1>5. number' = number \/ number' = [number EXCEPT ![Current(k)] = "released"]
    BY DEF CallRelease
  <1>6. QED
    BY <1>1, <1>3, <1>4, <1>5 DEF NumberTypes

\* A request moves through its own stages; of the others only a deletion and
\* the release of a number touch what they say.
LEMMA RequestsStagedStep ==
    ASSUME NumberInv, [ProvisioningNext]_numberVars
    PROVE  RequestsStaged'
<1> USE DEF NumberInv, NumberTypes, RequestsStaged, RequestStaged, Live, Then, handlerVars
<1>1. ASSUME NEW q \in Creates, Precheck(q) PROVE RequestsStaged'
  BY <1>1 DEF Precheck
<1>2. ASSUME NEW q \in Creates, Purchase(q) PROVE RequestsStaged'
  BY <1>2 DEF Purchase
<1>3. ASSUME NEW q \in Creates, Configure(q) PROVE RequestsStaged'
  BY <1>3 DEF Configure
<1>4. ASSUME NEW q \in Creates, InsertProperty(q) PROVE RequestsStaged'
  BY <1>4 DEF InsertProperty
<1>5. ASSUME NEW q \in Creates, CommitProperty(q) PROVE RequestsStaged'
  BY <1>5 DEF CommitProperty
<1>6. ASSUME NEW q \in Creates, GuardCompensation(q) PROVE RequestsStaged'
  BY <1>6 DEF GuardCompensation, Spare
<1>7. ASSUME NEW q \in Creates, Compensate(q) PROVE RequestsStaged'
  BY <1>7 DEF Compensate
<1>8. ASSUME NEW q \in Creates, RequestDies(q) PROVE RequestsStaged'
  BY <1>8 DEF RequestDies
<1>9. ASSUME NEW q \in Creates, DeleteProperty(q) PROVE RequestsStaged'
  BY <1>9 DEF DeleteProperty
<1>10. ASSUME NEW k \in Releasers, CallRelease(k) PROVE RequestsStaged'
  <2>1. /\ create[Current(k)] = "end" /\ property[Current(k)] = "deleted"
        /\ number' = number \/ number' = [number EXCEPT ![Current(k)] = "released"]
    BY <1>10, CallOutcome DEF SweepsKnown, Sweepable, ReleasesSound, ReleaseSound
  <2>2. QED
    BY <1>10, <2>1 DEF CallRelease, sweepVars
<1>11. CASE UNCHANGED <<create, number, property>>
  BY <1>11
<1>12. QED
  BY <1>1, <1>2, <1>3, <1>4, <1>5, <1>6, <1>7, <1>8, <1>9, <1>10, <1>11
     DEF ProvisioningNext, CreateStep, ReleaseStep, SweepError, ReleaseTick, SelectReleases,
         EndReleases, ClaimRelease, GuardRelease, MarkRelease, sweepVars, numberVars

\* A release is scheduled once its property is deleted, and due a tick later at
\* the earliest.
LEMMA ReleasesSoundStep ==
    ASSUME NumberInv, [ProvisioningNext]_numberVars
    PROVE  ReleasesSound'
<1> USE DEF NumberInv, NumberTypes, ReleasesSound, ReleaseSound
<1>1. ASSUME NEW q \in Creates, CreateStep(q) \/ RequestDies(q) PROVE ReleasesSound'
  <2>1. /\ create' = [create EXCEPT ![q] = create'[q]] /\ create[q] # "end"
        /\ \A p \in Creates : property[p] = "deleted" => property'[p] = "deleted"
    BY <1>1 DEF CreateStep, RequestDies, Precheck, Purchase, Configure, InsertProperty,
         CommitProperty, GuardCompensation, Compensate, Then, RequestsStaged, RequestStaged
  <2>2. QED
    BY <1>1, <2>1, RequestFrame
<1>2. ASSUME NEW q \in Creates, DeleteProperty(q) PROVE ReleasesSound'
  BY <1>2, ProvisioningAssumption DEF DeleteProperty, Live
<1>3. CASE ReleaseTick
  BY <1>3 DEF ReleaseTick, Idle, sweepVars, RequestsStaged, RequestStaged
<1>4. ASSUME NEW k \in Releasers, ClaimRelease(k) PROVE ReleasesSound'
  BY <1>4 DEF ClaimRelease, sweepVars, PendingRelease, SweepsKnown, Sweepable,
        ReleaserTypes, ReleaserType, ReleaseEntries
<1>5. ASSUME NEW k \in Releasers, MarkRelease(k) PROVE ReleasesSound'
  BY <1>5 DEF MarkRelease, sweepVars, SweepsKnown, Sweepable, Releasing, Current,
        ReleaserTypes, ReleaseEntries
<1>6. CASE UNCHANGED <<create, property, release>>
  BY <1>6
<1>7. QED
  BY <1>1, <1>2, <1>3, <1>4, <1>5, <1>6
     DEF ProvisioningNext, ReleaseStep, SweepError, SelectReleases, EndReleases,
         GuardRelease, CallRelease, sweepVars, numberVars

\* A sweep reads what is due; a row that is scheduled stays scheduled.
LEMMA SweepsKnownStep ==
    ASSUME NumberInv, [ProvisioningNext]_numberVars
    PROVE  SweepsKnown'
<1> USE DEF NumberInv, NumberTypes, ReleaserTypes, ReleaserType, ReleaseEntries, SweepsKnown,
        Sweepable, Releasing, Current
<1>1. ASSUME NEW q \in Creates, CreateStep(q) \/ RequestDies(q) PROVE SweepsKnown'
  <2>1. create' = [create EXCEPT ![q] = create'[q]] /\ create[q] # "end"
    BY <1>1 DEF CreateStep, RequestDies, Precheck, Purchase, Configure, InsertProperty,
         CommitProperty, GuardCompensation, Compensate, Then
  <2>2. QED
    BY <1>1, <2>1, RequestFrame
<1>2. ASSUME NEW q \in Creates, DeleteProperty(q) PROVE SweepsKnown'
  BY <1>2 DEF DeleteProperty
<1>3. CASE ReleaseTick
  BY <1>3 DEF ReleaseTick, Waits, sweepVars
<1>4. ASSUME NEW k \in Releasers, SelectReleases(k) PROVE SweepsKnown'
  BY <1>4 DEF SelectReleases, Waits, sweepVars, PendingRelease, Idle, ReleasesSound,
        ReleaseSound, RequestsStaged, RequestStaged
<1>5. ASSUME NEW k \in Releasers, EndReleases(k) \/ SweepError(k) PROVE SweepsKnown'
  <2>1. releaser' = [releaser EXCEPT ![k] = Waits] /\ UNCHANGED <<release, create, number>>
    BY <1>5 DEF EndReleases, SweepError, sweepVars
  <2>2. QED
    BY <2>1 DEF Waits
<1>6. ASSUME NEW k \in Releasers, ClaimRelease(k) PROVE SweepsKnown'
  BY <1>6 DEF ClaimRelease, sweepVars
<1>7. ASSUME NEW k \in Releasers, GuardRelease(k) PROVE SweepsKnown'
  BY <1>7 DEF GuardRelease, At, sweepVars
<1>8. ASSUME NEW k \in Releasers, CallRelease(k) PROVE SweepsKnown'
  <2>1. PICK label \in {"sent", "claim", "exhausted"} : At(k, label)
    BY <1>8, CallOutcome
  <2>2. Releasing(k)
    BY <1>8, CallOutcome
  <2>3. QED
    BY <1>8, <2>1, <2>2 DEF CallRelease, At, sweepVars
<1>9. ASSUME NEW k \in Releasers, MarkRelease(k) PROVE SweepsKnown'
  BY <1>9 DEF MarkRelease, At, sweepVars
<1>10. CASE UNCHANGED numberVars
  BY <1>10 DEF numberVars
<1>11. QED
  BY <1>1, <1>2, <1>3, <1>4, <1>5, <1>6, <1>7, <1>8, <1>9, <1>10
     DEF ProvisioningNext, ReleaseStep

\* The claim counts the row's attempt up, so whoever read it before cannot claim
\* it; and it sets a wait, so nobody reads it as due.
LEMMA ReleasesOwnedStep ==
    ASSUME NumberInv, [ProvisioningNext]_numberVars
    PROVE  ReleasesOwned'
<1> USE DEF NumberInv, NumberTypes, ReleaserTypes, ReleaserType, ReleaseEntries, SweepsKnown,
        Sweepable, ReleasesOwned, Releasing, Current, PendingRelease
<1>1. ASSUME NEW q \in Creates, CreateStep(q) \/ RequestDies(q) PROVE ReleasesOwned'
  <2>1. \A p \in Creates : number[p] = "released" => number'[p] = "released"
    BY <1>1 DEF CreateStep, RequestDies, Precheck, Purchase, Configure, InsertProperty,
         CommitProperty, GuardCompensation, Compensate, Then, RequestsStaged, RequestStaged
  <2>2. QED
    BY <1>1, <2>1, RequestFrame
<1>2. ASSUME NEW q \in Creates, DeleteProperty(q) PROVE ReleasesOwned'
  BY <1>2 DEF DeleteProperty
<1>3. CASE ReleaseTick
  BY <1>3 DEF ReleaseTick, Waits, sweepVars
<1>4. ASSUME NEW k \in Releasers, SelectReleases(k) PROVE ReleasesOwned'
  BY <1>4 DEF SelectReleases, Waits, sweepVars
<1>5. ASSUME NEW k \in Releasers, EndReleases(k) \/ SweepError(k) PROVE ReleasesOwned'
  <2>1. releaser' = [releaser EXCEPT ![k] = Waits] /\ UNCHANGED <<release, create, number>>
    BY <1>5 DEF EndReleases, SweepError, sweepVars
  <2>2. QED
    BY <2>1 DEF Waits
<1>6. ASSUME NEW k \in Releasers, ClaimRelease(k) PROVE ReleasesOwned'
  BY <1>6 DEF ClaimRelease, sweepVars
<1>7. ASSUME NEW k \in Releasers, GuardRelease(k) PROVE ReleasesOwned'
  BY <1>7 DEF GuardRelease, At, sweepVars
<1>8. ASSUME NEW k \in Releasers, CallRelease(k) PROVE ReleasesOwned'
  <2>1. PICK label \in {"sent", "claim", "exhausted"} : At(k, label)
    BY <1>8, CallOutcome
  <2>2. /\ Releasing(k) /\ releaser' = [releaser EXCEPT ![k].pc = label]
        /\ label = "sent" => number'[Current(k)] = "released"
        /\ \A q \in Creates : number[q] = "released" => number'[q] = "released"
        /\ release' = release
    BY <1>8, <2>1, CallOutcome DEF At, CallRelease
  <2>3. QED
    BY <2>2
<1>9. ASSUME NEW k \in Releasers, MarkRelease(k) PROVE ReleasesOwned'
  BY <1>9 DEF MarkRelease, At, sweepVars
<1>10. CASE UNCHANGED numberVars
  BY <1>10 DEF numberVars
<1>11. QED
  BY <1>1, <1>2, <1>3, <1>4, <1>5, <1>6, <1>7, <1>8, <1>9, <1>10
     DEF ProvisioningNext, ReleaseStep

\* An outcome is written by the row's owner, who knows it.
LEMMA OutcomesSoundStep ==
    ASSUME NumberInv, [ProvisioningNext]_numberVars
    PROVE  OutcomesSound'
<1> USE DEF NumberInv, NumberTypes, OutcomesSound
<1>1. ASSUME NEW q \in Creates, CreateStep(q) \/ RequestDies(q) PROVE OutcomesSound'
  <2>1. /\ \A p \in Creates : number[p] = "released" => number'[p] = "released"
        /\ paged \subseteq paged'
    BY <1>1 DEF CreateStep, RequestDies, Precheck, Purchase, Configure, InsertProperty,
         CommitProperty, GuardCompensation, Compensate, Then, PageFor, RequestsStaged, RequestStaged
  <2>2. QED
    BY <1>1, <2>1, RequestFrame
<1>2. ASSUME NEW q \in Creates, DeleteProperty(q) PROVE OutcomesSound'
  BY <1>2 DEF DeleteProperty
<1>3. CASE ReleaseTick
  BY <1>3 DEF ReleaseTick
<1>4. ASSUME NEW k \in Releasers, ClaimRelease(k) PROVE OutcomesSound'
  BY <1>4 DEF ClaimRelease, ReleaserTypes, ReleaserType, ReleaseEntries
<1>5. ASSUME NEW k \in Releasers, CallRelease(k) PROVE OutcomesSound'
  BY <1>5, CallOutcome DEF CallRelease
<1>6. ASSUME NEW k \in Releasers, MarkRelease(k) PROVE OutcomesSound'
  BY <1>6 DEF MarkRelease, PageFor, ReleasesOwned, Releasing, Current, ReleaserTypes,
        ReleaseEntries
<1>7. CASE UNCHANGED <<release, number, paged>>
  BY <1>7
<1>8. QED
  BY <1>1, <1>2, <1>3, <1>4, <1>5, <1>6, <1>7
     DEF ProvisioningNext, ReleaseStep, SweepError, SelectReleases, EndReleases,
         GuardRelease, numberVars

\* A number is given up on only where a row, a page or a dead request tells of it.
LEMMA AccountedStep ==
    ASSUME NumberInv, [ProvisioningNext]_numberVars
    PROVE  NumbersAccounted'
<1> USE DEF NumberInv, NumberTypes, NumbersAccounted, InHand, PendingRelease, Live
<1>1. ASSUME NEW q \in Creates, Precheck(q) \/ Configure(q) PROVE NumbersAccounted'
  BY <1>1 DEF Precheck, Configure, Then, handlerVars, RequestsStaged, RequestStaged
<1>2. ASSUME NEW q \in Creates, Purchase(q) PROVE NumbersAccounted'
  BY <1>2 DEF Purchase, Then, handlerVars, RequestsStaged, RequestStaged
<1>3. ASSUME NEW q \in Creates, InsertProperty(q) PROVE NumbersAccounted'
  BY <1>3 DEF InsertProperty, Then, PageFor, handlerVars, RequestsStaged, RequestStaged
<1>4. ASSUME NEW q \in Creates, CommitProperty(q) PROVE NumbersAccounted'
  <2>1. PICK now \in {"live", "none"}, label \in {"guard", "end"} :
               /\ property' = [property EXCEPT ![q] = now] /\ Then(q, label)
               /\ label = "end" => now = "live"
    BY <1>4 DEF CommitProperty
  <2>2. /\ property[q] = "inserted"
        /\ paged \subseteq paged' /\ UNCHANGED <<number, silent, release>>
    BY <1>4 DEF CommitProperty, PageFor, handlerVars, RequestsStaged, RequestStaged
  <2>3. QED
    BY <2>1, <2>2 DEF Then
<1>5. ASSUME NEW q \in Creates, GuardCompensation(q) PROVE NumbersAccounted'
  BY <1>5 DEF GuardCompensation, Then, PageFor, handlerVars
<1>6. ASSUME NEW q \in Creates, Compensate(q) PROVE NumbersAccounted'
  BY <1>6 DEF Compensate, Then, PageFor, handlerVars
<1>7. ASSUME NEW q \in Creates, RequestDies(q) PROVE NumbersAccounted'
  BY <1>7 DEF RequestDies, Then, handlerVars
<1>8. ASSUME NEW q \in Creates, DeleteProperty(q) PROVE NumbersAccounted'
  BY <1>8 DEF DeleteProperty, ReleasesSound, ReleaseSound
<1>9. CASE ReleaseTick
  BY <1>9 DEF ReleaseTick, sweepVars
<1>10. ASSUME NEW k \in Releasers, ClaimRelease(k) PROVE NumbersAccounted'
  BY <1>10 DEF ClaimRelease, ReleaserTypes, ReleaserType, ReleaseEntries, sweepVars
<1>11. ASSUME NEW k \in Releasers, CallRelease(k) PROVE NumbersAccounted'
  BY <1>11, CallOutcome DEF CallRelease, sweepVars
<1>12. ASSUME NEW k \in Releasers, MarkRelease(k) PROVE NumbersAccounted'
  BY <1>12 DEF MarkRelease, PageFor, ReleasesOwned, Releasing, Current, ReleaserTypes,
        ReleaseEntries, sweepVars
<1>13. CASE UNCHANGED <<create, number, property, release, paged, silent>>
  BY <1>13
<1>14. QED
  BY <1>1, <1>2, <1>3, <1>4, <1>5, <1>6, <1>7, <1>8, <1>9, <1>10, <1>11, <1>12, <1>13
     DEF ProvisioningNext, CreateStep, ReleaseStep, SweepError, SelectReleases, EndReleases,
         GuardRelease, sweepVars, numberVars

\* The invariant holds throughout.
LEMMA NumberInvariant == ProvisioningSpec => []NumberInv
<1>1. ProvisioningInit => NumberInv
  BY ProvisioningAssumption
     DEF ProvisioningInit, NumberInv, NumberTypes, CreateLabels, NoRelease, ReleaserTypes,
         ReleaserType, Waits, Releasing, RequestsStaged, RequestStaged, Live, ReleasesSound,
         ReleaseSound, SweepsKnown, ReleasesOwned, OutcomesSound, NumbersAccounted
<1>2. NumberInv /\ [ProvisioningNext]_numberVars => NumberInv'
  <2> SUFFICES ASSUME NumberInv, [ProvisioningNext]_numberVars PROVE NumberInv'
    OBVIOUS
  <2>1. NumberTypes' /\ ReleaserTypes'
    BY NumberTypesStep, ReleaserTypesStep DEF NumberInv
  <2>2. QED
    BY <2>1, RequestsStagedStep, ReleasesSoundStep, SweepsKnownStep, ReleasesOwnedStep,
       OutcomesSoundStep, AccountedStep DEF NumberInv
<1>3. QED
  BY <1>1, <1>2, PTL DEF ProvisioningSpec

\* The variables of the provisioning keep their types, for any number of
\* requests and of processes that sweep.
THEOREM ProvisioningTypes == ProvisioningSpec => []ProvisioningTypeOK
<1>1. NumberInv => ProvisioningTypeOK
  BY DEF NumberInv, NumberTypes, CreateLabels, ReleaserTypes, ReleaserType, ProvisioningTypeOK
<1>2. QED
  BY <1>1, NumberInvariant, PTL

\* However the compensation of a failed create (create_property), a deletion
\* and the release sweeps of any number of processes overlap, the number of a
\* property that exists is never given back to the carrier.
THEOREM LiveNumbersAreKept == ProvisioningSpec => []LiveNumberKept
<1>1. NumberInv => LiveNumberKept
  BY DEF NumberInv, RequestsStaged, RequestStaged, LiveNumberKept
<1>2. QED
  BY <1>1, NumberInvariant, PTL

\* Wherever a create fails or the process dies, a number that is still paid
\* for belongs to a property or a request under way, has a release row or was
\* paged about, or its request died before it could say so.
THEOREM NumbersAreAccounted == ProvisioningSpec => []NumbersAccounted
<1>1. NumberInv => NumbersAccounted
  BY DEF NumberInv
<1>2. QED
  BY <1>1, NumberInvariant, PTL

\* What a step does to the row of a release and to its number.
ReleaseMoves(q) ==
    /\ \/ release'[q].status = release[q].status
       \/ release[q].status = "absent" /\ release'[q].status = "pending" /\ number'[q] = "billed"
       \/ release[q].status = "pending" /\ release'[q].status \in {"sent", "exhausted"}
    /\ number[q] = "released" => number'[q] = "released"
    /\ number[q] # "released" /\ number'[q] = "released" =>
           release[q].status \in {"absent", "pending"} /\ release'[q].status = release[q].status

\* Every step is one of those moves.
LEMMA ReleaseStepMoves ==
    ASSUME NumberInv, [ProvisioningNext]_numberVars, NEW p \in Creates
    PROVE  ReleaseMoves(p)
<1> USE DEF NumberInv, NumberTypes, ReleaseMoves
<1>1. ASSUME NEW q \in Creates, CreateStep(q) \/ RequestDies(q) PROVE ReleaseMoves(p)
  <2>1. /\ number[p] = "released" => number'[p] = "released"
        /\ number[p] # "released" /\ number'[p] = "released" => create[p] # "end"
    BY <1>1 DEF CreateStep, RequestDies, Precheck, Purchase, Configure, InsertProperty,
         CommitProperty, GuardCompensation, Compensate, RequestsStaged, RequestStaged
  <2>2. QED
    BY <1>1, <2>1, RequestFrame DEF ReleasesSound, ReleaseSound
<1>2. ASSUME NEW q \in Creates, DeleteProperty(q) PROVE ReleaseMoves(p)
  BY <1>2 DEF DeleteProperty, Live, RequestsStaged, RequestStaged
<1>3. CASE ReleaseTick
  BY <1>3 DEF ReleaseTick
<1>4. ASSUME NEW k \in Releasers, ClaimRelease(k) PROVE ReleaseMoves(p)
  BY <1>4 DEF ClaimRelease, ReleaserTypes, ReleaserType, ReleaseEntries
<1>5. ASSUME NEW k \in Releasers, CallRelease(k) PROVE ReleaseMoves(p)
  BY <1>5, CallOutcome DEF CallRelease, ReleasesOwned, PendingRelease
<1>6. ASSUME NEW k \in Releasers, MarkRelease(k) PROVE ReleaseMoves(p)
  BY <1>6 DEF MarkRelease, ReleasesOwned, Releasing, PendingRelease, Current, ReleaserTypes,
        ReleaseEntries
<1>7. CASE UNCHANGED <<release, number>>
  BY <1>7
<1>8. QED
  BY <1>1, <1>2, <1>3, <1>4, <1>5, <1>6, <1>7
     DEF ProvisioningNext, ReleaseStep, SweepError, SelectReleases, EndReleases,
         GuardRelease, numberVars

\* A step of the sweep is a step of the abstract row, or leaves it alone.
LEMMA ReleaseRowStep ==
    ASSUME NumberInv, NumberInv', [ProvisioningNext]_numberVars, NEW q \in Creates
    PROVE  ReleaseOutbox!RowStep(q)
<1>1. ReleaseMoves(q)
  BY ReleaseStepMoves
<1>2. /\ release[q].status \in {"absent", "pending", "sent", "exhausted"}
      /\ release'[q].status \in {"absent", "pending", "sent", "exhausted"}
  BY DEF NumberInv, NumberTypes
<1>3. release'[q].status = "sent" => number'[q] = "released"
  BY DEF NumberInv, OutcomesSound
<1>4. /\ ReleaseState(q) = CASE release[q].status = "pending" -> "open"
                             [] release[q].status = "sent" -> "done"
                             [] release[q].status = "exhausted" -> "dropped"
                             [] OTHER -> "absent"
      /\ ReleaseState(q)' = CASE release'[q].status = "pending" -> "open"
                              [] release'[q].status = "sent" -> "done"
                              [] release'[q].status = "exhausted" -> "dropped"
                              [] OTHER -> "absent"
  BY DEF ReleaseState, PendingRelease
<1>5. QED
  BY <1>1, <1>2, <1>3, <1>4 DEF ReleaseMoves, ReleaseOutbox!RowStep, ReleaseOutbox!Moves

\* The release drain (number_release_outbox.py) keeps the promise of an outbox
\* for any number of sweeping processes: the claim by the attempt's number and
\* the wait it sets give a row one owner until its outcome is written.
THEOREM ReleasesImplementOutbox == ProvisioningSpec => ReleasesKeepThePromise
<1>1. ProvisioningInit => ReleaseOutbox!OutboxInit
  <2> SUFFICES ASSUME ProvisioningInit PROVE ReleaseOutbox!OutboxInit
    OBVIOUS
  <2>1. \A q \in Creates : release[q].status = "absent"
    BY DEF ProvisioningInit, NoRelease
  <2>2. \A q \in Creates : ReleaseState(q) = "absent"
    BY <2>1 DEF ReleaseState, PendingRelease
  <2>3. QED
    BY <2>1, <2>2 DEF ReleaseOutbox!OutboxInit
<1>2. NumberInv /\ NumberInv' /\ [ProvisioningNext]_numberVars
        => [ReleaseOutbox!OutboxNext]_(ReleaseOutbox!outboxVars)
  <2> SUFFICES ASSUME NumberInv, NumberInv', [ProvisioningNext]_numberVars
               PROVE  ReleaseOutbox!OutboxNext
    OBVIOUS
  <2>1. \A q \in Creates : ReleaseOutbox!RowStep(q)
    BY ReleaseRowStep
  <2>2. /\ [q \in Creates |-> ReleaseState(q)]' \in [Creates -> {"absent", "open", "done", "dropped"}]
        /\ [q \in Creates |-> release[q].status # "absent" /\ number[q] = "released"]'
              \in [Creates -> BOOLEAN]
    BY DEF ReleaseState
  <2>3. QED
    BY <2>1, <2>2 DEF ReleaseOutbox!OutboxNext
<1>3. QED
  BY <1>1, <1>2, NumberInvariant, PTL
     DEF ProvisioningSpec, ReleasesKeepThePromise, ReleaseOutbox!OutboxSpec

-----------------------------------------------------------------------------
(* Texts.                                                                  *)

\* The type of every variable, with that of a mailer and of a row spelled out.
TextLabels == {"rest", "select", "claim", "send", "sent", "failed", "giveup"}
MailerType == [pc : TextLabels, pass : Passes, todo : SUBSET (Letters \X Nat), begun : BOOLEAN,
               fresh : SUBSET Letters, cur : Letters \union {0}, seen : Nat]
MailerTypes ==
    /\ mailer \in [Mailers -> MailerType]
    /\ \A k \in Mailers : AtRow(k) => mailer[k].cur \in Letters
TextRowType == [status : {"absent", "pending", "failed", "sent", "exhausted"},
                count : Nat, wait : 0..BackoffCap]
TextTypes ==
    /\ letter \in [Letters -> LetterType]
    /\ text \in [Letters -> TextRowType]
    /\ taken \subseteq Letters
    /\ raised \in BOOLEAN
    /\ reply \in [pc : {"none", "stored", "handled"}, draft : Letters \union {0}, recovered : BOOLEAN]
    /\ textFault \in 0..MaxTextFault
\* An acknowledgment is counted before it is sent, so its backoff has an entry
\* in the table.
CountsStart ==
    \A k \in Mailers : AtRow(k) /\ letter[mailer[k].cur].kind = "ack" => text[mailer[k].cur].count > 0
\* What is marked sent, or about to be, was taken by the carrier.
SentTaken ==
    /\ \A r \in Letters : text[r].status = "sent" => r \in taken
    /\ \A k \in Mailers : mailer[k].pc = "sent" => mailer[k].cur \in taken
\* The inductive invariant of the texts, for any number of mailers.
TextInv == TextTypes /\ MailerTypes /\ CountsStart /\ SentTaken /\ ReplyNamesDelivered

-----------------------------------------------------------------------------
\* A set of numbers has a least one.
LEMMA LeastNatural ==
    ASSUME NEW S, S \subseteq Nat, S # {}
    PROVE  \E x \in S : \A y \in S : x <= y
<1> DEFINE R == OpToRel(<, Nat)
<1>1. IsWellFoundedOn(R, Nat)
  BY NatLessThanWellFounded, Zenon
<1>2. \A x, y \in Nat : y < x => <<y, x>> \in R
  BY Zenon DEF OpToRel
<1> HIDE DEF R
<1>3. PICK x \in S : \A y \in S : ~(<<y, x>> \in R)
  BY <1>1, WFMin
<1>4. \A y \in S : x <= y
  <2>1. \A y \in S : ~(y < x)
    BY <1>2, <1>3
  <2>2. QED
    BY <2>1
<1>5. QED
  BY <1>4

\* The newest of some letters is one of them.
LEMMA NewestOf ==
    ASSUME NEW S, S \subseteq Letters
    PROVE  Newest(S) \in S \/ Newest(S) = 0
<1>1. CASE S = {}
  BY <1>1 DEF Newest
<1>2. CASE S # {}
  <2> DEFINE D == {MaxLetter - r : r \in S}
  <2>1. \A r \in S : r \in Nat /\ MaxLetter - r \in Nat
    BY TextsAssumption DEF Letters
  <2>2. D \subseteq Nat /\ D # {}
    BY <1>2, <2>1
  <2>3. \A r \in S : MaxLetter - r \in D
    OBVIOUS
  <2>6. \A x \in D : \E r \in S : x = MaxLetter - r
    OBVIOUS
  <2> HIDE DEF D
  <2>7. PICK x \in D : \A y \in D : x <= y
    BY <2>2, LeastNatural
  <2>8. PICK r \in S : x = MaxLetter - r
    BY <2>6
  <2>9. \A q \in S : MaxLetter - r <= MaxLetter - q
    BY <2>3, <2>7, <2>8
  <2>4. \A q \in S : q <= r
    BY <2>1, <2>9, TextsAssumption
  <2>5. QED
    BY <1>2, <2>4 DEF Newest
<1>3. QED
  BY <1>1, <1>2

\* The next row of a pass is one that was selected.
LEMMA FirstOf ==
    ASSUME NEW todo, todo \subseteq Letters \X Nat, todo # {}
    PROVE  First(todo) \in todo
<1> DEFINE D == {e[1] : e \in todo}
<1>1. D \subseteq Nat /\ D # {}
  BY DEF Letters
<1>2. (\A e \in todo : e[1] \in D) /\ \A x \in D : \E e \in todo : x = e[1]
  OBVIOUS
<1> HIDE DEF D
<1>3. PICK x \in D : \A y \in D : x <= y
  BY <1>1, LeastNatural
<1>6. PICK e \in todo : x = e[1]
  BY <1>2
<1>4. \A d \in todo : e[1] <= d[1]
  BY <1>2, <1>3, <1>6
<1>5. QED
  BY <1>4 DEF First

\* The wait after a failure is within the cap.
LEMMA BackoffRange ==
    ASSUME NEW n \in Nat, n > 0
    PROVE  Backoff(n) \in 0..BackoffCap
<1>1. BackoffCap \in 1..64
  BY TextsAssumption
<1>2. CASE n > 7
  BY <1>1, <1>2 DEF Backoff
<1>3. CASE n <= 7
  <2>1. n \in 1..7
    BY <1>3
  <2>2. <<1, 2, 4, 8, 16, 32, 64>>[n] \in Nat
    BY <2>1
  <2>3. Smaller(<<1, 2, 4, 8, 16, 32, 64>>[n], BackoffCap) \in 0..BackoffCap
    BY <1>1, <2>2 DEF Smaller
  <2>4. QED
    BY <1>3, <2>3 DEF Backoff
<1>4. QED
  BY <1>2, <1>3

\* A mailer at rest has its type.
LEMMA RestTyped == AtRest \in MailerType /\ AtRest.pc = "rest"
  BY DEF AtRest, MailerType, TextLabels, Passes, Letters

-----------------------------------------------------------------------------
\* A claim moves one mailer to a row, and may take the row from the others.
LEMMA ClaimTextMoves ==
    ASSUME TextTypes, MailerTypes, NEW k \in Mailers, ClaimText(k)
    PROVE  \E r \in Letters, n \in Nat, at \in {"claim", "giveup", "send"} :
             /\ <<r, n>> \in mailer[k].todo
             /\ at # "claim" => Waiting(r)
             /\ mailer' \in [Mailers -> MailerType]
             /\ mailer'[k].pc = at /\ mailer'[k].cur = r
             /\ \A j \in Mailers : j # k => mailer'[j].pc = mailer[j].pc /\ mailer'[j].cur = mailer[j].cur
             /\ \/ at = "claim" /\ text' = text
                \/ text' = [text EXCEPT ![r].count = CountAtClaim(r, n)]
<1> DEFINE e == First(mailer[k].todo)
<1>1. mailer[k].todo \subseteq Letters \X Nat /\ mailer[k].todo # {}
  BY DEF ClaimText, MailerTypes, MailerType
<1>2. e \in mailer[k].todo
  BY <1>1, FirstOf
<1>3. e[1] \in Letters /\ e[2] \in Nat /\ <<e[1], e[2]>> = e
  BY <1>1, <1>2
<1> DEFINE won == Claimable(k, e[1])
           at == IF ~won THEN "claim" ELSE IF letter[e[1]].line = "none" THEN "giveup" ELSE "send"
<1>4. at \in {"claim", "giveup", "send"} /\ (at # "claim" => won) /\ (~won => at = "claim")
  OBVIOUS
<1>5. /\ mailer' = [j \in Mailers |->
                IF j = k THEN [mailer[k] EXCEPT !.pc = at, !.todo = @ \ {e}, !.begun = TRUE,
                                                !.cur = e[1], !.seen = e[2]]
                ELSE IF won THEN [mailer[j] EXCEPT !.fresh = @ \ {e[1]}] ELSE mailer[j]]
      /\ text' = IF won THEN [text EXCEPT ![e[1]].count = CountAtClaim(e[1], e[2])] ELSE text
  BY DEF ClaimText
<1>6. won => Waiting(e[1])
  BY DEF Claimable
<1> HIDE DEF won, at, e
<1>7. ASSUME NEW j \in Mailers PROVE mailer'[j] \in MailerType
  <2>1. CASE j = k
    <3> DEFINE rest == mailer[k].todo \ {e}
    <3>1. mailer'[k] = [mailer[k] EXCEPT !.pc = at, !.todo = rest, !.begun = TRUE,
                                         !.cur = e[1], !.seen = e[2]]
      BY <1>5
    <3>2. rest \in SUBSET (Letters \X Nat)
      BY <1>1
    <3> HIDE DEF rest
    <3>3. e[1] \in Letters \cup {0} /\ e[2] \in Nat /\ at \in TextLabels
      BY <1>3, <1>4 DEF TextLabels
    <3>4. \A m \in MailerType, T \in SUBSET (Letters \X Nat), label \in TextLabels,
             c \in Letters \union {0}, s \in Nat :
            [m EXCEPT !.pc = label, !.todo = T, !.begun = TRUE, !.cur = c, !.seen = s] \in MailerType
      BY DEF MailerType
    <3>5. mailer[k] \in MailerType
      BY DEF MailerTypes
    <3>6. [mailer[k] EXCEPT !.pc = at, !.todo = rest, !.begun = TRUE, !.cur = e[1], !.seen = e[2]]
            \in MailerType
      BY <3>2, <3>3, <3>4, <3>5
    <3>7. QED
      BY <2>1, <3>1, <3>6
  <2>2. CASE j # k
    <3>1. mailer'[j] = [mailer[j] EXCEPT !.fresh = @ \ {e[1]}] \/ mailer'[j] = mailer[j]
      BY <1>5, <2>2
    <3>2. QED
      BY <3>1 DEF MailerTypes, MailerType
  <2>3. QED
    BY <2>1, <2>2
<1>8. mailer' \in [Mailers -> MailerType]
  BY <1>5, <1>7
<1>9. mailer'[k].pc = at /\ mailer'[k].cur = e[1]
  BY <1>5 DEF MailerTypes, MailerType
<1>10. \A j \in Mailers : j # k => mailer'[j].pc = mailer[j].pc /\ mailer'[j].cur = mailer[j].cur
  BY <1>5 DEF MailerTypes, MailerType
<1>11. \/ at = "claim" /\ text' = text
       \/ text' = [text EXCEPT ![e[1]].count = CountAtClaim(e[1], e[2])]
  BY <1>4, <1>5
<1>12. QED
  BY <1>2, <1>3, <1>4, <1>6, <1>8, <1>9, <1>10, <1>11

\* A failure keeps or sets a positive count, and a wait the table covers.
LEMMA FailedRowTyped ==
    ASSUME TextTypes, MailerTypes, CountsStart, NEW k \in Mailers, mailer[k].pc = "failed"
    PROVE  /\ FailedRow(mailer[k].cur, mailer[k].seen) \in TextRowType
           /\ FailedRow(mailer[k].cur, mailer[k].seen).status \in {"failed", "exhausted"}
           /\ FailedRow(mailer[k].cur, mailer[k].seen).count > 0
<1> DEFINE r == mailer[k].cur
           n == FailuresOf(r, mailer[k].seen)
<1>1. r \in Letters /\ mailer[k].seen \in Nat
  BY DEF MailerTypes, MailerType, AtRow
<1>2. text[r] \in TextRowType
  BY <1>1 DEF TextTypes
<1>3. n \in Nat /\ n > 0
  BY <1>1, <1>2 DEF FailuresOf, CountsStart, AtRow, TextRowType
<1>4. Backoff(n) \in 0..BackoffCap
  BY <1>3, BackoffRange
<1>5. FailedRow(r, mailer[k].seen) =
        [text[r] EXCEPT !.status = IF LastAttempt(r, n) THEN "exhausted" ELSE "failed",
                        !.count = n, !.wait = Backoff(n)]
  BY DEF FailedRow
<1> HIDE DEF r, n
<1>6. /\ FailedRow(r, mailer[k].seen) \in TextRowType
      /\ FailedRow(r, mailer[k].seen).status \in {"failed", "exhausted"}
      /\ FailedRow(r, mailer[k].seen).count > 0
  BY <1>2, <1>3, <1>4, <1>5 DEF TextRowType
<1>7. QED
  BY <1>6 DEF r

\* A row with another outcome keeps its type.
LEMMA RowAtTyped ==
    ASSUME NEW t \in TextRowType, NEW s \in {"pending", "sent", "exhausted"}
    PROVE  [t EXCEPT !.status = s] \in TextRowType
  BY DEF TextRowType

\* Every step keeps the types of the rows.
LEMMA TextTypesStep ==
    ASSUME TextTypes, MailerTypes, CountsStart, [TextNext]_textVars
    PROVE  TextTypes'
<1> USE TextsAssumption DEF TextTypes
<1>1. ASSUME NEW r \in Letters, EnqueueText(r) PROVE TextTypes'
  BY <1>1, RowAtTyped DEF EnqueueText
<1>2. CASE TextTick
  <2>1. \A n \in 0..BackoffCap : (IF n = 0 THEN 0 ELSE n - 1) \in 0..BackoffCap
    OBVIOUS
  <2>2. text' \in [Letters -> TextRowType]
    BY <1>2, <2>1 DEF TextTick, TextRowType
  <2>3. QED
    BY <1>2, <2>2 DEF TextTick
<1>3. CASE ReplyArrives
  <2>1. Referenced \in Letters \cup {0}
    BY NewestOf DEF Referenced, ReadyRows
  <2>2. QED
    BY <1>3, <2>1 DEF ReplyArrives
<1>4. CASE HandleReply
  BY <1>4 DEF HandleReply
<1>5. CASE RedeliverReply
  <2>1. ReadyForCase(letter[reply.draft].case) \in Letters \cup {0}
    BY NewestOf DEF ReadyForCase, ReadyRows
  <2> DEFINE d == ReadyForCase(letter[reply.draft].case)
  <2>2. reply' = [reply EXCEPT !.pc = "stored", !.recovered = TRUE, !.draft = d]
    BY <1>5 DEF RedeliverReply
  <2> HIDE DEF d
  <2>3. reply' \in [pc : {"none", "stored", "handled"}, draft : Letters \union {0}, recovered : BOOLEAN]
    BY <2>1, <2>2 DEF d
  <2>4. QED
    BY <1>5, <2>3 DEF RedeliverReply, TextFault
<1>6. ASSUME NEW k \in Mailers, SelectTexts(k) \/ EndPass(k) PROVE TextTypes'
  BY <1>6 DEF SelectTexts, EndPass, MailUnchanged
<1>7. ASSUME NEW k \in Mailers, ClaimText(k) PROVE TextTypes'
  <2>1. PICK r \in Letters, n \in Nat :
            text' = text \/ text' = [text EXCEPT ![r].count = CountAtClaim(r, n)]
    BY <1>7, ClaimTextMoves
  <2>2. CountAtClaim(r, n) \in Nat
    BY DEF CountAtClaim, Smaller
  <2>3. text' \in [Letters -> TextRowType]
    BY <2>1, <2>2 DEF TextRowType
  <2>4. QED
    BY <1>7, <2>3 DEF ClaimText
<1>8. ASSUME NEW k \in Mailers, SendText(k) PROVE TextTypes'
  <2>1. mailer[k].cur \in Letters
    BY <1>8 DEF SendText, MailerTypes, AtRow
  <2>2. QED
    BY <1>8, <2>1 DEF SendText, TextFault
<1>9. ASSUME NEW k \in Mailers, MarkSent(k) PROVE TextTypes'
  <2>1. mailer[k].cur \in Letters
    BY <1>9 DEF MarkSent, MailerTypes, AtRow
  <2>2. text' \in [Letters -> TextRowType]
    BY <1>9, <2>1, RowAtTyped DEF MarkSent, Settle
  <2>3. QED
    BY <1>9, <2>2 DEF MarkSent, Settle
<1>10. ASSUME NEW k \in Mailers, MarkUnreachable(k) PROVE TextTypes'
  <2>1. mailer[k].cur \in Letters
    BY <1>10 DEF MarkUnreachable, MailerTypes, AtRow
  <2>2. text' \in [Letters -> TextRowType]
    BY <1>10, <2>1, RowAtTyped DEF MarkUnreachable, Settle
  <2>3. QED
    BY <1>10, <2>2 DEF MarkUnreachable, Settle
<1>11. ASSUME NEW k \in Mailers, MarkFailed(k) PROVE TextTypes'
  <2>1. mailer[k].cur \in Letters /\ mailer[k].pc = "failed"
    BY <1>11 DEF MarkFailed, MailerTypes, AtRow
  <2>2. PICK row \in TextRowType : Settle(k, row)
    BY <1>11, <2>1, FailedRowTyped DEF MarkFailed
  <2>3. text' \in [Letters -> TextRowType]
    BY <2>1, <2>2 DEF Settle
  <2>4. raised' \in BOOLEAN
    BY <1>11 DEF MarkFailed
  <2>5. QED
    BY <2>2, <2>3, <2>4 DEF Settle
<1>12. ASSUME NEW k \in Mailers, TextError(k) PROVE TextTypes'
  BY <1>12 DEF TextError, TextFault
<1>13. CASE UNCHANGED textVars
  BY <1>13 DEF textVars
<1>14. QED
  BY <1>1, <1>2, <1>3, <1>4, <1>5, <1>6, <1>7, <1>8, <1>9, <1>10, <1>11, <1>12, <1>13
     DEF TextNext, MailStep

\* Every step keeps the types of the mailers.
LEMMA MailerTypesStep ==
    ASSUME TextTypes, MailerTypes, [TextNext]_textVars
    PROVE  MailerTypes'
<1>1. CASE UNCHANGED mailer
  BY <1>1 DEF MailerTypes, AtRow
<1>2. CASE TextTick
  <2>1. [AtRest EXCEPT !.pc = "select"] \in MailerType /\ [AtRest EXCEPT !.pc = "select"].pc = "select"
    BY DEF AtRest, MailerType, TextLabels, Passes, Letters
  <2>2. QED
    BY <1>2, <2>1, RestTyped DEF TextTick, MailerTypes, AtRow
<1>3. ASSUME NEW k \in Mailers, NEW p \in MailerType, mailer' = [mailer EXCEPT ![k] = p],
             p.pc \in {"send", "sent", "failed", "giveup"} => p.cur \in Letters
      PROVE  MailerTypes'
  BY <1>3 DEF MailerTypes, AtRow
<1>4. ASSUME NEW k \in Mailers, SelectTexts(k) PROVE MailerTypes'
  <2> DEFINE w == Window(mailer[k].pass)
             t == {<<r, text[r].count>> : r \in w}
             p == [mailer[k] EXCEPT !.pc = "claim", !.begun = FALSE, !.fresh = w, !.todo = t]
  <2>1. w \subseteq Letters
    BY DEF Window, Due
  <2>2. \A r \in Letters : text[r].count \in Nat
    BY DEF TextTypes, TextRowType
  <2>3. t \subseteq Letters \X Nat
    BY <2>1, <2>2
  <2>4. mailer' = [mailer EXCEPT ![k] = p]
    BY <1>4 DEF SelectTexts
  <2> HIDE DEF w, t
  <2>5. p \in MailerType /\ p.pc = "claim"
    BY <2>1, <2>3 DEF MailerTypes, MailerType, TextLabels
  <2> HIDE DEF p
  <2>6. QED
    BY <1>3, <2>4, <2>5
<1>5. ASSUME NEW k \in Mailers, EndPass(k) PROVE MailerTypes'
  <2> DEFINE p == IF mailer[k].pass = "ack" THEN [AtRest EXCEPT !.pc = "select", !.pass = "landlord"]
                  ELSE AtRest
  <2>1. mailer' = [mailer EXCEPT ![k] = p]
    BY <1>5 DEF EndPass
  <2>2. p \in MailerType /\ p.pc \in {"rest", "select"}
    BY DEF AtRest, MailerType, TextLabels, Passes, Letters
  <2> HIDE DEF p
  <2>3. QED
    BY <1>3, <2>1, <2>2
<1>6. ASSUME NEW k \in Mailers, ClaimText(k) PROVE MailerTypes'
  BY <1>6, ClaimTextMoves DEF MailerTypes, AtRow
<1>7. ASSUME NEW k \in Mailers, SendText(k) \/ MarkSent(k) \/ MarkUnreachable(k) \/ MarkFailed(k)
      PROVE  MailerTypes'
  <2>1. AtRow(k)
    BY <1>7 DEF SendText, MarkSent, MarkUnreachable, MarkFailed, AtRow
  <2>2. PICK label \in TextLabels : mailer' = [mailer EXCEPT ![k] = [mailer[k] EXCEPT !.pc = label]]
    BY <1>7 DEF SendText, MarkSent, MarkUnreachable, MarkFailed, Settle, Goes, TextLabels
  <2> DEFINE p == [mailer[k] EXCEPT !.pc = label]
  <2>3. p \in MailerType /\ p.cur = mailer[k].cur
    BY DEF MailerTypes, MailerType
  <2>4. mailer' = [mailer EXCEPT ![k] = p] /\ mailer[k].cur \in Letters
    BY <2>1, <2>2 DEF MailerTypes
  <2> HIDE DEF p
  <2>5. QED
    BY <1>3, <2>3, <2>4
<1>8. ASSUME NEW k \in Mailers, TextError(k) PROVE MailerTypes'
  <2>1. CASE mailer[k].pc = "claim" /\ mailer' = [mailer EXCEPT ![k].todo = @ \ {First(@)}, ![k].begun = TRUE]
    <3> DEFINE rest == mailer[k].todo \ {First(mailer[k].todo)}
               p == [mailer[k] EXCEPT !.todo = rest, !.begun = TRUE]
    <3>1. mailer' = [mailer EXCEPT ![k] = p]
      BY <2>1 DEF MailerTypes
    <3>2. rest \subseteq Letters \X Nat
      BY DEF MailerTypes, MailerType
    <3> HIDE DEF rest
    <3>3. p \in MailerType /\ p.pc = "claim"
      BY <2>1, <3>2 DEF MailerTypes, MailerType
    <3> HIDE DEF p
    <3>4. QED
      BY <1>3, <3>1, <3>3
  <2>2. CASE Goes(k, "claim")
    <3> DEFINE p == [mailer[k] EXCEPT !.pc = "claim"]
    <3>1. p \in MailerType /\ p.pc = "claim"
      BY DEF MailerTypes, MailerType, TextLabels
    <3>2. mailer' = [mailer EXCEPT ![k] = p]
      BY <2>2 DEF Goes
    <3> HIDE DEF p
    <3>3. QED
      BY <1>3, <3>1, <3>2
  <2>3. CASE mailer' = [mailer EXCEPT ![k] = AtRest]
    BY <1>3, <2>3, RestTyped
  <2>4. QED
    BY <1>8, <2>1, <2>2, <2>3 DEF TextError
<1>9. QED
  BY <1>1, <1>2, <1>4, <1>5, <1>6, <1>7, <1>8
     DEF TextNext, MailStep, EnqueueText, ReplyArrives, HandleReply, RedeliverReply, textVars

\* A step that takes a mailer to an acknowledgment leaves it with a count.
LEMMA CountsStartStep ==
    ASSUME TextTypes, MailerTypes, CountsStart, [TextNext]_textVars
    PROVE  CountsStart'
<1> USE TextsAssumption
<1>0. letter' = letter
  BY DEF TextNext, MailStep, EnqueueText, TextTick, ReplyArrives, HandleReply, RedeliverReply, textVars,
         SelectTexts, EndPass, MailUnchanged, ClaimText, SendText, MarkSent, MarkUnreachable, MarkFailed,
         Settle, TextError
<1>1. ASSUME \A r \in Letters : text[r].count > 0 => text'[r].count > 0,
             \A k \in Mailers : AtRow(k)' => AtRow(k) /\ mailer'[k].cur = mailer[k].cur
      PROVE  CountsStart'
  BY <1>0, <1>1 DEF CountsStart, MailerTypes
<1>2. ASSUME UNCHANGED text,
             \A k \in Mailers : AtRow(k)' => AtRow(k) /\ mailer'[k].cur = mailer[k].cur
      PROVE  CountsStart'
  BY <1>1, <1>2
<1>3. ASSUME NEW r \in Letters, EnqueueText(r) PROVE CountsStart'
  <2>1. \A q \in Letters : text'[q].count = text[q].count
    BY <1>3 DEF EnqueueText, TextTypes, TextRowType
  <2>2. QED
    BY <1>1, <1>3, <2>1 DEF EnqueueText, AtRow
<1>4. CASE TextTick
  BY <1>4 DEF TextTick, AtRest, CountsStart, AtRow
<1>5. CASE ReplyArrives \/ HandleReply \/ RedeliverReply \/ UNCHANGED textVars
  BY <1>2, <1>5 DEF ReplyArrives, HandleReply, RedeliverReply, textVars, AtRow
<1>6. ASSUME NEW k \in Mailers, SelectTexts(k) PROVE CountsStart'
  <2>1. mailer'[k].pc = "claim" /\ \A j \in Mailers : j # k => mailer'[j] = mailer[j]
    BY <1>6 DEF SelectTexts, MailerTypes, MailerType
  <2>2. QED
    BY <1>2, <1>6, <2>1 DEF SelectTexts, MailUnchanged, AtRow
<1>7. ASSUME NEW k \in Mailers, EndPass(k) PROVE CountsStart'
  <2>1. mailer'[k].pc \in {"select", "rest"} /\ \A j \in Mailers : j # k => mailer'[j] = mailer[j]
    BY <1>7 DEF EndPass, MailerTypes, MailerType, AtRest
  <2>2. QED
    BY <1>2, <1>7, <2>1 DEF EndPass, MailUnchanged, AtRow
<1>8. ASSUME NEW k \in Mailers, ClaimText(k) PROVE CountsStart'
  <2>1. PICK r \in Letters, n \in Nat, at \in {"claim", "giveup", "send"} :
             /\ <<r, n>> \in mailer[k].todo
             /\ at # "claim" => Waiting(r)
             /\ mailer' \in [Mailers -> MailerType]
             /\ mailer'[k].pc = at /\ mailer'[k].cur = r
             /\ \A j \in Mailers : j # k => mailer'[j].pc = mailer[j].pc /\ mailer'[j].cur = mailer[j].cur
             /\ \/ at = "claim" /\ text' = text
                \/ text' = [text EXCEPT ![r].count = CountAtClaim(r, n)]
    BY <1>8, ClaimTextMoves
  <2>2. letter[r].kind = "ack" => CountAtClaim(r, n) > 0
    BY DEF CountAtClaim, Smaller
  <2>3. CASE text' = text
    <3>1. at = "claim" => \A j \in Mailers : AtRow(j)' => AtRow(j) /\ mailer'[j].cur = mailer[j].cur
      BY <2>1 DEF AtRow
    <3>2. CASE at = "claim"
      BY <1>2, <2>3, <3>1, <3>2
    <3>3. CASE at # "claim"
      <4>1. text'[r].count = CountAtClaim(r, n)
        BY <2>1, <3>3 DEF TextTypes, TextRowType
      <4>2. QED
        BY <1>0, <2>1, <2>2, <2>3, <4>1 DEF CountsStart, AtRow
    <3>4. QED
      BY <3>2, <3>3
  <2>4. CASE text' = [text EXCEPT ![r].count = CountAtClaim(r, n)]
    <3>1. text'[r].count = CountAtClaim(r, n) /\ \A q \in Letters : q # r => text'[q] = text[q]
      BY <2>4 DEF TextTypes, TextRowType
    <3>2. ASSUME NEW j \in Mailers, AtRow(j)', letter[mailer'[j].cur].kind = "ack"
          PROVE  text'[mailer'[j].cur].count > 0
      <4>1. CASE mailer'[j].cur = r
        BY <2>2, <3>1, <3>2, <4>1
      <4>2. CASE mailer'[j].cur # r
        <5>1. j # k /\ AtRow(j) /\ mailer'[j].cur = mailer[j].cur
          BY <2>1, <3>2, <4>2 DEF AtRow
        <5>2. QED
          BY <3>1, <3>2, <4>2, <5>1 DEF CountsStart, MailerTypes
      <4>3. QED
        BY <4>1, <4>2
    <3>3. QED
      BY <1>0, <3>2 DEF CountsStart
  <2>5. QED
    BY <2>1, <2>3, <2>4
<1>9. ASSUME NEW k \in Mailers, SendText(k) PROVE CountsStart'
  <2>1. \A j \in Mailers : AtRow(j)' => AtRow(j) /\ mailer'[j].cur = mailer[j].cur
    BY <1>9 DEF SendText, Goes, AtRow, MailerTypes, MailerType
  <2>2. QED
    BY <1>2, <1>9, <2>1 DEF SendText
<1>10. ASSUME NEW k \in Mailers, NEW row \in TextRowType, Settle(k, row), AtRow(k),
              text[mailer[k].cur].count > 0 => row.count > 0
       PROVE  CountsStart'
  <2>1. \A j \in Mailers : AtRow(j)' => AtRow(j) /\ mailer'[j].cur = mailer[j].cur
    BY <1>10 DEF Settle, Goes, AtRow, MailerTypes, MailerType
  <2>2. \A q \in Letters : text[q].count > 0 => text'[q].count > 0
    BY <1>10 DEF Settle, MailerTypes, TextTypes
  <2>3. QED
    BY <1>1, <2>1, <2>2
<1>11. ASSUME NEW k \in Mailers, MarkSent(k) \/ MarkUnreachable(k) PROVE CountsStart'
  <2>1. AtRow(k) /\ mailer[k].cur \in Letters
    BY <1>11 DEF MarkSent, MarkUnreachable, MailerTypes, AtRow
  <2>2. PICK s \in {"sent", "exhausted"} : Settle(k, [text[mailer[k].cur] EXCEPT !.status = s])
    BY <1>11 DEF MarkSent, MarkUnreachable
  <2> DEFINE row == [text[mailer[k].cur] EXCEPT !.status = s]
  <2>3. row \in TextRowType /\ row.count = text[mailer[k].cur].count
    BY <2>1 DEF TextTypes, TextRowType
  <2>4. Settle(k, row)
    BY <2>2
  <2> HIDE DEF row
  <2>5. QED
    BY <1>10, <2>1, <2>3, <2>4
<1>12. ASSUME NEW k \in Mailers, MarkFailed(k) PROVE CountsStart'
  <2>1. AtRow(k) /\ mailer[k].cur \in Letters /\ mailer[k].pc = "failed"
    BY <1>12 DEF MarkFailed, MailerTypes, AtRow
  <2>2. CASE Settle(k, FailedRow(mailer[k].cur, mailer[k].seen))
    BY <1>10, <2>1, <2>2, FailedRowTyped
  <2>3. CASE Settle(k, text[mailer[k].cur])
    BY <1>10, <2>1, <2>3 DEF TextTypes
  <2>4. QED
    BY <1>12, <2>2, <2>3 DEF MarkFailed
<1>13. ASSUME NEW k \in Mailers, TextError(k) PROVE CountsStart'
  <2>1. \A j \in Mailers : AtRow(j)' => AtRow(j) /\ mailer'[j].cur = mailer[j].cur
    BY <1>13 DEF TextError, Goes, AtRow, AtRest, MailerTypes, MailerType
  <2>2. QED
    BY <1>2, <1>13, <2>1 DEF TextError
<1>14. QED
  BY <1>3, <1>4, <1>5, <1>6, <1>7, <1>8, <1>9, <1>11, <1>12, <1>13 DEF TextNext, MailStep

\* What is sent was taken, and so is what a mailer is about to mark as sent.
LEMMA SentTakenStep ==
    ASSUME TextTypes, MailerTypes, CountsStart, SentTaken, [TextNext]_textVars
    PROVE  SentTaken' /\ taken \subseteq taken'
<1>1. ASSUME taken \subseteq taken',
             \A r \in Letters : text'[r].status = "sent" => text[r].status = "sent" \/ r \in taken',
             \A k \in Mailers : mailer'[k].pc = "sent" => mailer'[k].cur \in taken' \/
                                   (mailer[k].pc = "sent" /\ mailer'[k].cur = mailer[k].cur)
      PROVE  SentTaken' /\ taken \subseteq taken'
  BY <1>1 DEF SentTaken
<1>2. ASSUME NEW r \in Letters, EnqueueText(r) PROVE SentTaken' /\ taken \subseteq taken'
  <2>1. \A q \in Letters : text'[q].status = "sent" => text[q].status = "sent"
    BY <1>2 DEF EnqueueText, TextTypes, TextRowType
  <2>2. QED
    BY <1>1, <1>2, <2>1 DEF EnqueueText
<1>3. CASE TextTick
  <2>1. \A q \in Letters : text'[q].status = text[q].status
    BY <1>3 DEF TextTick, TextTypes, TextRowType
  <2>2. \A k \in Mailers : mailer'[k].pc \in {"select", "rest"}
    BY <1>3 DEF TextTick, AtRest
  <2>3. QED
    BY <1>1, <1>3, <2>1, <2>2 DEF TextTick
<1>4. CASE ReplyArrives \/ HandleReply \/ RedeliverReply \/ UNCHANGED textVars
  BY <1>1, <1>4 DEF ReplyArrives, HandleReply, RedeliverReply, textVars
<1>5. ASSUME NEW k \in Mailers, SelectTexts(k) \/ EndPass(k) \/ TextError(k)
      PROVE  SentTaken' /\ taken \subseteq taken'
  <2>3. ASSUME NEW j \in Mailers, SelectTexts(k), mailer'[j].pc = "sent"
        PROVE  mailer[j].pc = "sent" /\ mailer'[j].cur = mailer[j].cur
    BY <2>3 DEF SelectTexts, MailerTypes, MailerType
  <2>4. ASSUME NEW j \in Mailers, EndPass(k), mailer'[j].pc = "sent"
        PROVE  mailer[j].pc = "sent" /\ mailer'[j].cur = mailer[j].cur
    BY <2>4 DEF EndPass, AtRest, MailerTypes, MailerType
  <2>5. ASSUME NEW j \in Mailers, TextError(k), mailer'[j].pc = "sent"
        PROVE  mailer[j].pc = "sent" /\ mailer'[j].cur = mailer[j].cur
    BY <2>5 DEF TextError, Goes, AtRest, MailerTypes, MailerType
  <2>1. \A j \in Mailers : mailer'[j].pc = "sent" => mailer[j].pc = "sent" /\ mailer'[j].cur = mailer[j].cur
    BY <1>5, <2>3, <2>4, <2>5
  <2>2. QED
    BY <1>1, <1>5, <2>1 DEF SelectTexts, EndPass, TextError, MailUnchanged
<1>6. ASSUME NEW k \in Mailers, ClaimText(k) PROVE SentTaken' /\ taken \subseteq taken'
  <2>1. PICK r \in Letters, n \in Nat, at \in {"claim", "giveup", "send"} :
             /\ mailer'[k].pc = at
             /\ \A j \in Mailers : j # k => mailer'[j].pc = mailer[j].pc /\ mailer'[j].cur = mailer[j].cur
             /\ \/ text' = text
                \/ text' = [text EXCEPT ![r].count = CountAtClaim(r, n)]
    BY <1>6, ClaimTextMoves
  <2>2. \A q \in Letters : text'[q].status = text[q].status
    BY <2>1 DEF TextTypes, TextRowType
  <2>3. taken' = taken
    BY <1>6 DEF ClaimText
  <2>4. QED
    BY <1>1, <2>1, <2>2, <2>3
<1>7. ASSUME NEW k \in Mailers, SendText(k) PROVE SentTaken' /\ taken \subseteq taken'
  <2>1. text' = text /\ taken \subseteq taken'
    BY <1>7 DEF SendText
  <2>2. \A j \in Mailers : j # k => mailer'[j] = mailer[j]
    BY <1>7 DEF SendText, Goes, MailerTypes
  <2>3. mailer'[k].pc = "sent" => mailer'[k].cur \in taken'
    BY <1>7 DEF SendText, Goes, MailerTypes, MailerType
  <2>4. QED
    BY <1>1, <2>1, <2>2, <2>3
<1>8. ASSUME NEW k \in Mailers, NEW row \in TextRowType, Settle(k, row), AtRow(k),
             row.status = "sent" => mailer[k].cur \in taken
      PROVE  SentTaken' /\ taken \subseteq taken'
  <2>1. \A j \in Mailers : mailer'[j].pc = "sent" => mailer[j].pc = "sent" /\ mailer'[j].cur = mailer[j].cur
    BY <1>8 DEF Settle, Goes, MailerTypes, MailerType
  <2>2. \A q \in Letters : text'[q].status = "sent" => text[q].status = "sent" \/ q \in taken
    BY <1>8 DEF Settle, MailerTypes, TextTypes
  <2>3. QED
    BY <1>1, <1>8, <2>1, <2>2 DEF Settle
<1>9. ASSUME NEW k \in Mailers, MarkSent(k) \/ MarkUnreachable(k) PROVE SentTaken' /\ taken \subseteq taken'
  <2>1. AtRow(k) /\ mailer[k].cur \in Letters
    BY <1>9 DEF MarkSent, MarkUnreachable, MailerTypes, AtRow
  <2>2. PICK s \in {"sent", "exhausted"} : /\ Settle(k, [text[mailer[k].cur] EXCEPT !.status = s])
                                           /\ s = "sent" => mailer[k].pc = "sent"
    BY <1>9 DEF MarkSent, MarkUnreachable
  <2> DEFINE row == [text[mailer[k].cur] EXCEPT !.status = s]
  <2>3. row \in TextRowType /\ row.status = s
    BY <2>1 DEF TextTypes, TextRowType
  <2>4. Settle(k, row)
    BY <2>2
  <2> HIDE DEF row
  <2>5. QED
    BY <1>8, <2>1, <2>2, <2>3, <2>4 DEF SentTaken
<1>10. ASSUME NEW k \in Mailers, MarkFailed(k) PROVE SentTaken' /\ taken \subseteq taken'
  <2>1. AtRow(k) /\ mailer[k].cur \in Letters /\ mailer[k].pc = "failed"
    BY <1>10 DEF MarkFailed, MailerTypes, AtRow
  <2>2. CASE Settle(k, FailedRow(mailer[k].cur, mailer[k].seen))
    <3>1. FailedRow(mailer[k].cur, mailer[k].seen) \in TextRowType
          /\ FailedRow(mailer[k].cur, mailer[k].seen).status # "sent"
      BY <2>1, FailedRowTyped
    <3>2. QED
      BY <1>8, <2>1, <2>2, <3>1
  <2>3. CASE Settle(k, text[mailer[k].cur])
    BY <1>8, <2>1, <2>3 DEF TextTypes, SentTaken
  <2>4. QED
    BY <1>10, <2>2, <2>3 DEF MarkFailed
<1>11. QED
  BY <1>2, <1>3, <1>4, <1>5, <1>6, <1>7, <1>9, <1>10 DEF TextNext, MailStep

\* A reply takes its draft from a notice marked sent.
LEMMA ReplyNamesDeliveredStep ==
    ASSUME TextTypes, SentTaken, ReplyNamesDelivered, taken \subseteq taken', [TextNext]_textVars
    PROVE  ReplyNamesDelivered'
<1>1. CASE ReplyArrives
  <2>1. Referenced \in Letters /\ text[Referenced].status = "sent"
    BY <1>1, NewestOf DEF ReplyArrives, Referenced, ReadyRows, Correlates
  <2>2. reply'.draft = Referenced
    BY <1>1 DEF ReplyArrives, TextTypes
  <2>3. QED
    BY <2>1, <2>2 DEF ReplyNamesDelivered, SentTaken
<1>2. CASE HandleReply
  <2>1. reply'.draft = reply.draft /\ reply'.recovered = reply.recovered
    BY <1>2 DEF HandleReply, TextTypes
  <2>2. QED
    BY <2>1 DEF ReplyNamesDelivered
<1>3. CASE RedeliverReply
  <2>1. reply'.recovered
    BY <1>3 DEF RedeliverReply, TextTypes
  <2>2. QED
    BY <2>1 DEF ReplyNamesDelivered
<1>4. CASE UNCHANGED reply
  BY <1>4 DEF ReplyNamesDelivered
<1>5. QED
  BY <1>1, <1>2, <1>3, <1>4
     DEF TextNext, MailStep, EnqueueText, TextTick, textVars, SelectTexts, EndPass, MailUnchanged,
         ClaimText, SendText, MarkSent, MarkUnreachable, MarkFailed, Settle, TextError

\* The invariant holds throughout.
LEMMA TextInvariant == TextSpec => []TextInv
<1>1. ASSUME TextInit PROVE TextInv
  <2>1. TextTypes
    <3>1. letter \in [Letters -> LetterType] /\ taken \subseteq Letters
      BY <1>1, TextsAssumption DEF TextInit
    <3>2. 0 \in 0..BackoffCap /\ MaxTextFault \in 0..MaxTextFault
      BY TextsAssumption
    <3>3. text \in [Letters -> TextRowType]
      BY <1>1, <3>2 DEF TextInit, TextRowType
    <3>4. QED
      BY <1>1, <3>1, <3>2, <3>3 DEF TextInit, TextTypes, NoReply
  <2>2. MailerTypes /\ CountsStart /\ SentTaken
    BY <1>1, RestTyped DEF TextInit, MailerTypes, CountsStart, SentTaken, AtRow
  <2>3. ReplyNamesDelivered
    BY <1>1 DEF TextInit, NoReply, ReplyNamesDelivered
  <2>4. QED
    BY <2>1, <2>2, <2>3 DEF TextInv
<1>2. TextInv /\ [TextNext]_textVars => TextInv'
  BY TextTypesStep, MailerTypesStep, CountsStartStep, SentTakenStep, ReplyNamesDeliveredStep DEF TextInv
<1>3. QED
  BY <1>1, <1>2, PTL DEF TextSpec

\* The variables of the text outbox keep their types: in particular a backoff
\* is computed only for a positive number of failures.
THEOREM TextTypesKept == TextSpec => []TextsTypeOK
<1>1. TextInv => TextsTypeOK
  BY DEF TextInv, TextTypes, MailerTypes, TextsTypeOK, TextRowType, MailerType, TextLabels
<1>2. QED
  BY <1>1, TextInvariant, PTL

\* However many processes drain the outbox, and whatever responses are lost, the
\* draft a landlord's reply acts on (most_recent_ready_draft) is one whose
\* notice the carrier had taken, unless the reply had to be recovered.
THEOREM RepliesNameDelivered == TextSpec => []ReplyNamesDelivered
<1>1. TextInv => ReplyNamesDelivered
  BY DEF TextInv
<1>2. QED
  BY <1>1, TextInvariant, PTL

\* Overlapping mailers may overwrite sent with failed, since an outcome is
\* written WHERE id = :id; the other way round they cannot lie: a text that is
\* marked sent was taken by the carrier, whoever marked it.
THEOREM SentTextsWereTaken == TextSpec => [](\A r \in Letters : text[r].status = "sent" => r \in taken)
<1>1. TextInv => \A r \in Letters : text[r].status = "sent" => r \in taken
  BY DEF TextInv, SentTaken
<1>2. QED
  BY <1>1, TextInvariant, PTL

-----------------------------------------------------------------------------
\* Who has claimed a row and not yet said what became of it.
TextHands(r) == {k \in Mailers : AtRow(k) /\ mailer[k].cur = r}

\* What a step of the drain does to a row.
TextMoves(r) ==
    /\ \/ text'[r].status = text[r].status
       \/ text[r].status = "absent" /\ text'[r].status = "pending"
       \/ /\ text'[r].status # "absent"
          /\ \E k \in TextHands(r) : TextHands(r)' = TextHands(r) \ {k}
    /\ r \in taken => r \in taken'
    /\ r \in taken' /\ r \notin taken => TextHands(r) # {}
    /\ TextHands(r)' \subseteq TextHands(r) \/ (Waiting(r) /\ Waiting(r)')

\* Every step is one of those moves.
LEMMA TextStepMoves ==
    ASSUME TextInv, [TextNext]_textVars, NEW r \in Letters
    PROVE  TextMoves(r)
<1> USE DEF TextInv
<1>0. ASSUME \A j \in Mailers : AtRow(j)' => AtRow(j) /\ mailer'[j].cur = mailer[j].cur
      PROVE  TextHands(r)' \subseteq TextHands(r)
  BY <1>0 DEF TextHands
<1>1. ASSUME NEW q \in Letters, EnqueueText(q) PROVE TextMoves(r)
  <2>1. text'[r].status = text[r].status \/ (text[r].status = "absent" /\ text'[r].status = "pending")
    BY <1>1 DEF EnqueueText, TextTypes, TextRowType
  <2>2. TextHands(r)' = TextHands(r)
    BY <1>1 DEF EnqueueText, TextHands, AtRow
  <2>3. QED
    BY <1>1, <2>1, <2>2 DEF EnqueueText, TextMoves
<1>2. CASE TextTick
  <2>1. text'[r].status = text[r].status
    BY <1>2 DEF TextTick, TextTypes, TextRowType
  <2>2. \A j \in Mailers : ~AtRow(j)'
    BY <1>2 DEF TextTick, AtRest, AtRow
  <2>3. QED
    BY <1>0, <1>2, <2>1, <2>2 DEF TextTick, TextMoves
<1>3. ASSUME UNCHANGED <<text, taken>>,
             \A j \in Mailers : AtRow(j)' => AtRow(j) /\ mailer'[j].cur = mailer[j].cur
      PROVE  TextMoves(r)
  BY <1>0, <1>3 DEF TextMoves
<1>4. CASE ReplyArrives \/ HandleReply \/ RedeliverReply \/ UNCHANGED textVars
  BY <1>3, <1>4 DEF ReplyArrives, HandleReply, RedeliverReply, textVars, AtRow
<1>5. ASSUME NEW k \in Mailers, SelectTexts(k) \/ EndPass(k) \/ TextError(k) PROVE TextMoves(r)
  <2>1. ASSUME NEW j \in Mailers, SelectTexts(k), AtRow(j)'
        PROVE  AtRow(j) /\ mailer'[j].cur = mailer[j].cur
    BY <2>1 DEF SelectTexts, AtRow, MailerTypes, MailerType
  <2>2. ASSUME NEW j \in Mailers, EndPass(k), AtRow(j)'
        PROVE  AtRow(j) /\ mailer'[j].cur = mailer[j].cur
    BY <2>2 DEF EndPass, AtRest, AtRow, MailerTypes, MailerType
  <2>3. ASSUME NEW j \in Mailers, TextError(k), AtRow(j)'
        PROVE  AtRow(j) /\ mailer'[j].cur = mailer[j].cur
    BY <2>3 DEF TextError, Goes, AtRest, AtRow, MailerTypes, MailerType
  <2>4. UNCHANGED <<text, taken>>
    BY <1>5 DEF SelectTexts, EndPass, TextError, MailUnchanged
  <2>5. QED
    BY <1>3, <1>5, <2>1, <2>2, <2>3, <2>4
<1>6. ASSUME NEW k \in Mailers, ClaimText(k) PROVE TextMoves(r)
  <2>1. PICK q \in Letters, n \in Nat, at \in {"claim", "giveup", "send"} :
             /\ <<q, n>> \in mailer[k].todo
             /\ at # "claim" => Waiting(q)
             /\ mailer' \in [Mailers -> MailerType]
             /\ mailer'[k].pc = at /\ mailer'[k].cur = q
             /\ \A j \in Mailers : j # k => mailer'[j].pc = mailer[j].pc /\ mailer'[j].cur = mailer[j].cur
             /\ \/ at = "claim" /\ text' = text
                \/ text' = [text EXCEPT ![q].count = CountAtClaim(q, n)]
    BY <1>6, ClaimTextMoves
  <2>2. text'[r].status = text[r].status
    BY <2>1 DEF TextTypes, TextRowType
  <2>3. TextHands(r)' \subseteq TextHands(r) \/ Waiting(r)
    <3>1. CASE at # "claim" /\ q = r
      BY <2>1, <3>1
    <3>2. CASE ~(at # "claim" /\ q = r)
      <4>1. ASSUME NEW j \in Mailers, AtRow(j)', mailer'[j].cur = r
            PROVE  AtRow(j) /\ mailer[j].cur = r
        BY <2>1, <3>2, <4>1 DEF AtRow
      <4>2. QED
        BY <4>1 DEF TextHands
    <3>3. QED
      BY <3>1, <3>2
  <2>4. QED
    BY <1>6, <2>2, <2>3 DEF ClaimText, TextMoves, Waiting
<1>7. ASSUME NEW k \in Mailers, SendText(k) PROVE TextMoves(r)
  <2>1. text' = text /\ (taken' = taken \/ taken' = taken \cup {mailer[k].cur})
    BY <1>7 DEF SendText
  <2>2. k \in TextHands(mailer[k].cur)
    BY <1>7 DEF SendText, TextHands, AtRow
  <2>3. \A j \in Mailers : AtRow(j)' => AtRow(j) /\ mailer'[j].cur = mailer[j].cur
    BY <1>7 DEF SendText, Goes, AtRow, MailerTypes, MailerType
  <2>4. QED
    BY <1>0, <2>1, <2>2, <2>3 DEF TextMoves
<1>8. ASSUME NEW k \in Mailers, NEW row, Settle(k, row), AtRow(k), mailer[k].cur \in Letters,
             row.status # "absent" \/ row.status = text[mailer[k].cur].status
      PROVE  TextMoves(r)
  <2>1. /\ mailer'[k].pc = "claim"
        /\ \A j \in Mailers : j # k => mailer'[j] = mailer[j]
    BY <1>8 DEF Settle, Goes, MailerTypes, MailerType
  <2>2. text'[r] = IF r = mailer[k].cur THEN row ELSE text[r]
    BY <1>8 DEF Settle, TextTypes
  <2>3. taken' = taken
    BY <1>8 DEF Settle
  <2>4. \A j \in Mailers : AtRow(j)' <=> AtRow(j) /\ j # k
    BY <2>1 DEF AtRow
  <2>5. TextHands(r)' = TextHands(r) \ {k}
    BY <2>1, <2>4 DEF TextHands
  <2>6. CASE r = mailer[k].cur
    <3>1. k \in TextHands(r)
      BY <1>8, <2>6 DEF TextHands
    <3>2. QED
      BY <1>8, <2>2, <2>3, <2>5, <2>6, <3>1 DEF TextMoves
  <2>7. CASE r # mailer[k].cur
    BY <2>2, <2>3, <2>5, <2>7 DEF TextMoves
  <2>8. QED
    BY <2>6, <2>7
<1>9. ASSUME NEW k \in Mailers, MarkSent(k) \/ MarkUnreachable(k) PROVE TextMoves(r)
  <2>1. AtRow(k) /\ mailer[k].cur \in Letters
    BY <1>9 DEF MarkSent, MarkUnreachable, MailerTypes, AtRow
  <2>2. PICK s \in {"sent", "exhausted"} : Settle(k, [text[mailer[k].cur] EXCEPT !.status = s])
    BY <1>9 DEF MarkSent, MarkUnreachable
  <2> DEFINE row == [text[mailer[k].cur] EXCEPT !.status = s]
  <2>3. row.status = s
    BY <2>1 DEF TextTypes, TextRowType
  <2>4. Settle(k, row)
    BY <2>2
  <2> HIDE DEF row
  <2>5. QED
    BY <1>8, <2>1, <2>3, <2>4
<1>10. ASSUME NEW k \in Mailers, MarkFailed(k) PROVE TextMoves(r)
  <2>1. AtRow(k) /\ mailer[k].pc = "failed" /\ mailer[k].cur \in Letters
    BY <1>10 DEF MarkFailed, MailerTypes, AtRow
  <2>2. CASE Settle(k, FailedRow(mailer[k].cur, mailer[k].seen))
    BY <1>8, <2>1, <2>2, FailedRowTyped
  <2>3. CASE Settle(k, text[mailer[k].cur])
    BY <1>8, <2>1, <2>3
  <2>4. QED
    BY <1>10, <2>2, <2>3 DEF MarkFailed
<1>11. QED
  BY <1>1, <1>2, <1>4, <1>5, <1>6, <1>7, <1>9, <1>10 DEF TextNext, MailStep

\* What the abstract state of a row says of it.
LEMMA TextStates ==
    ASSUME TextTypes, NEW r \in Letters
    PROVE  /\ TextState(r) = "absent" <=> text[r].status = "absent"
           /\ TextState(r) = "done" <=> text[r].status = "sent"
           /\ TextState(r) = "open" <=> Waiting(r)
           /\ TextState(r) \in {"absent", "open", "done", "dropped"}
<1>1. text[r].status \in {"absent", "pending", "failed", "sent", "exhausted"}
  BY DEF TextTypes, TextRowType
<1>2. QED
  BY <1>1 DEF TextState, Waiting, Unsettled

\* A step of the drain is a step of the abstract row, or leaves it alone.
LEMMA TextRowStep ==
    ASSUME TextInv, TextInv', [TextNext]_textVars, NEW r \in Letters
    PROVE  TextOutbox!SharedRowStep(r)
<1>1. TextMoves(r)
  BY TextStepMoves
<1>2. /\ TextState(r)' = "absent" <=> text'[r].status = "absent"
      /\ TextState(r)' = "done" <=> text'[r].status = "sent"
      /\ TextState(r)' = "open" <=> Waiting(r)'
  <2>1. text'[r].status \in {"absent", "pending", "failed", "sent", "exhausted"}
    BY DEF TextInv, TextTypes, TextRowType
  <2>2. QED
    BY <2>1 DEF TextState, Waiting, Unsettled
<1>3. \/ TextState(r)' = TextState(r)
      \/ <<TextState(r), TextState(r)'>> \in TextOutbox!Moves
      \/ TextState(r)' # "absent" /\ \E k \in TextHands(r) : TextHands(r)' = TextHands(r) \ {k}
  <2>1. text'[r].status = text[r].status => TextState(r)' = TextState(r)
    BY DEF TextState, Waiting
  <2>2. text'[r].status = "pending" => TextState(r)' = "open"
    BY <1>2 DEF Waiting, Unsettled
  <2>3. QED
    BY <1>1, <1>2, <2>1, <2>2, TextStates DEF TextMoves, TextOutbox!Moves, TextInv
<1>4. TextState(r)' = "done" => r \in taken'
  BY <1>2 DEF TextInv, SentTaken
<1>5. (r \in taken') = (r \in taken) \/ (r \in taken' /\ TextHands(r) # {})
  BY <1>1 DEF TextMoves
<1>6. TextHands(r)' \subseteq TextHands(r) \/ (TextState(r) = "open" /\ TextState(r)' = "open")
  BY <1>1, <1>2, TextStates DEF TextMoves, TextInv
<1>7. /\ [x \in Letters |-> TextState(x)][r] = TextState(r)
      /\ ([x \in Letters |-> TextState(x)]')[r] = TextState(r)'
      /\ [x \in Letters |-> x \in taken][r] = (r \in taken)
      /\ ([x \in Letters |-> x \in taken]')[r] = (r \in taken')
      /\ [x \in Letters |-> {k \in Mailers : AtRow(k) /\ mailer[k].cur = x}][r] = TextHands(r)
      /\ ([x \in Letters |-> {k \in Mailers : AtRow(k) /\ mailer[k].cur = x}]')[r] = TextHands(r)'
  BY DEF TextHands
<1>8. QED
  BY <1>3, <1>4, <1>5, <1>6, <1>7, Zenon DEF TextOutbox!SharedRowStep, TextOutbox!Written

\* However many tickers drain texts at once, and whatever responses are lost: a
\* text is claimed only while it waits, only who has claimed it calls Twilio for
\* it or writes its outcome, and it is marked sent only after the carrier took it.
THEOREM TextsShareTheirOutbox == TextSpec => TextsKeepThePromise
<1>1. TextInit => TextOutbox!SharedInit
  <2> SUFFICES ASSUME TextInit PROVE TextOutbox!SharedInit
    OBVIOUS
  <2>1. /\ \A r \in Letters : TextState(r) = "absent"
        /\ \A r \in Letters : (r \in taken) = FALSE
        /\ \A r \in Letters : {k \in Mailers : AtRow(k) /\ mailer[k].cur = r} = {}
    BY RestTyped DEF TextInit, TextState, Waiting, Unsettled, AtRow
  <2>2. QED
    BY <2>1, Zenon DEF TextOutbox!SharedInit
<1>2. TextInv /\ TextInv' /\ [TextNext]_textVars
        => [TextOutbox!SharedNext]_(TextOutbox!sharedVars)
  <2> SUFFICES ASSUME TextInv, TextInv', [TextNext]_textVars
               PROVE  TextOutbox!SharedNext
    OBVIOUS
  <2>1. \A r \in Letters : TextOutbox!SharedRowStep(r)
    BY TextRowStep
  <2>2. /\ [r \in Letters |-> TextState(r)]' \in [Letters -> {"absent", "open", "done", "dropped"}]
        /\ [r \in Letters |-> r \in taken]' \in [Letters -> BOOLEAN]
        /\ [r \in Letters |-> {k \in Mailers : AtRow(k) /\ mailer[k].cur = r}]'
             \in [Letters -> SUBSET Mailers]
    BY DEF TextState
  <2>3. QED
    BY <2>1, <2>2 DEF TextOutbox!SharedNext
<1>3. QED
  BY <1>1, <1>2, TextInvariant, PTL
     DEF TextSpec, TextsKeepThePromise, TextOutbox!SharedOutboxSpec

-----------------------------------------------------------------------------
(* Pushes.                                                                 *)

\* The type of every variable: an entry is what a sweep's SELECT returned.
PushEntries == [row : PushRows, attempt : Nat, revoked : BOOLEAN]
PusherLabels == {"rest", "orphans", "select", "claim", "send", "sent", "dead", "failed", "exhausted"}
PusherType == [pc : PusherLabels, todo : SUBSET PushEntries,
               cur : {<<>>} \cup {<<e>> : e \in PushEntries}, moved : SUBSET Devices]
PusherTypes ==
    /\ pusher \in [Pushers -> PusherType]
    /\ \A k \in Pushers : Calling(k) => Entry(k) \in PushEntries
PushRowType == [status : {"absent", "pending", "sent", "failed", "exhausted"},
                attempt : Nat, wait : 0..RetryWait, gone : BOOLEAN]
PushTypes ==
    /\ device \in [Devices -> [status : {"unknown", "live", "revoked", "deleted"}, owner : Landlords]]
    /\ push \in [PushRows -> PushRowType]
    /\ called \subseteq PushRows
    /\ registration \in 0..MaxRegistration /\ pushFault \in 0..MaxPushFault

\* A row whose device has left its landlord left after the sweep began, which
\* the sweep's ghost moved recalls.
KnownMoves(k, r) == Owned(r) \/ r[2] \in pusher[k].moved
MovesKnown ==
    \A k \in Pushers :
      /\ \A e \in pusher[k].todo : KnownMoves(k, e.row)
      /\ Calling(k) => KnownMoves(k, Entry(k).row)
\* The inductive invariant of the pushes, for any number of pushers.
PushInv == PushTypes /\ PusherTypes /\ MovesKnown /\ NoStrayPush

-----------------------------------------------------------------------------
\* A pusher at rest has its type and nothing in hand.
LEMMA QuietTyped == Quiet \in PusherType /\ Quiet.pc = "rest" /\ Quiet.todo = {}
  BY DEF PusherType, Quiet, PusherLabels

\* What a pusher at a row has in hand is an entry of that row.
LEMMA EntryTyped ==
    ASSUME PusherTypes, NEW k \in Pushers, Calling(k)
    PROVE  Entry(k) \in PushEntries /\ Entry(k).row \in PushRows
  BY DEF PusherTypes, PushEntries

\* A claim takes one entry in hand and goes on with it, or with the next.
LEMMA ClaimMoves ==
    ASSUME PusherTypes, NEW k \in Pushers, ClaimPush(k)
    PROVE  \E e \in pusher[k].todo, at \in {"claim", "failed", "send"} :
             pusher' = [pusher EXCEPT ![k] = [pusher[k] EXCEPT !.todo = @ \ {e}, !.cur = <<e>>, !.pc = at]]
  BY DEF ClaimPush

\* Every step keeps the types of the rows and devices.
LEMMA PushTypesStep ==
    ASSUME PushTypes, PusherTypes, [PushNext]_pushVars
    PROVE  PushTypes'
<1> USE PushAssumption DEF PushTypes
<1>1. ASSUME NEW d \in Devices, NEW l \in Landlords, Register(l, d) PROVE PushTypes'
  BY <1>1 DEF Register
<1>2. ASSUME NEW d \in Devices, NEW l \in Landlords, Unregister(l, d) PROVE PushTypes'
  <2>1. push' \in [PushRows -> PushRowType]
    BY <1>2 DEF Unregister, PushRowType
  <2>2. QED
    BY <1>2, <2>1 DEF Unregister
<1>3. ASSUME NEW n \in Drafts, Announce(n) PROVE PushTypes'
  BY <1>3 DEF Announce, PushRowType
<1>4. ASSUME PushTick PROVE PushTypes'
  <2>1. \A n \in 0..RetryWait : (IF n = 0 THEN 0 ELSE n - 1) \in 0..RetryWait
    OBVIOUS
  <2>2. push' \in [PushRows -> PushRowType]
    BY <1>4, <2>1 DEF PushTick, PushRowType
  <2>3. QED
    BY <1>4, <2>2 DEF PushTick
<1>5. ASSUME NEW k \in Pushers, MarkOrphans(k) PROVE PushTypes'
  BY <1>5 DEF MarkOrphans, PushRowType
<1>6. ASSUME NEW k \in Pushers, SelectPush(k) \/ EndPush(k) PROVE PushTypes'
  BY <1>6 DEF SelectPush, EndPush
<1>7. ASSUME NEW k \in Pushers, ClaimPush(k) PROVE PushTypes'
  <2>1. PICK e \in pusher[k].todo :
               push' = push \/ push' = [push EXCEPT ![e.row].attempt = @ + 1, ![e.row].wait = RetryWait]
    BY <1>7 DEF ClaimPush
  <2>2. e.row \in PushRows
    BY DEF PusherTypes, PusherType, PushEntries
  <2>3. push' \in [PushRows -> PushRowType]
    BY <2>1, <2>2 DEF PushRowType
  <2>4. QED
    BY <1>7, <2>3 DEF ClaimPush
<1>8. ASSUME NEW k \in Pushers, SendPush(k) PROVE PushTypes'
  BY <1>8, EntryTyped DEF SendPush, Calling
<1>9. ASSUME NEW k \in Pushers, ConcludePush(k) PROVE PushTypes'
  <2>1. Entry(k).row \in PushRows
    BY <1>9, EntryTyped DEF ConcludePush, Calling
  <2>2. push' \in [PushRows -> PushRowType]
    BY <1>9, <2>1 DEF ConcludePush, Conclude, PushRowType
  <2>3. QED
    BY <1>9, <2>2 DEF ConcludePush, Conclude
<1>10. ASSUME NEW k \in Pushers, RevokeDevice(k) PROVE PushTypes'
  <2>1. Entry(k).row \in PushRows
    BY <1>10, EntryTyped DEF RevokeDevice, Calling
  <2>2. push' \in [PushRows -> PushRowType]
    BY <1>10, <2>1 DEF RevokeDevice, Conclude, PushRowType
  <2>3. Entry(k).row[2] \in Devices
    BY <2>1 DEF PushRows
  <2>4. QED
    BY <1>10, <2>2, <2>3 DEF RevokeDevice, Conclude
<1>11. ASSUME NEW k \in Pushers, PushError(k) PROVE PushTypes'
  BY <1>11 DEF PushError
<1>12. CASE UNCHANGED pushVars
  BY <1>12 DEF pushVars
<1>13. QED
  BY <1>1, <1>2, <1>3, <1>4, <1>5, <1>6, <1>7, <1>8, <1>9, <1>10, <1>11, <1>12
     DEF PushNext, PushStep

\* Every step keeps the types of the pushers.
LEMMA PusherTypesStep ==
    ASSUME PushTypes, PusherTypes, [PushNext]_pushVars
    PROVE  PusherTypes'
<1>1. ASSUME NEW d \in Devices, NEW l \in Landlords, Register(l, d) PROVE PusherTypes'
  <2>1. \A k \in Pushers : /\ pusher'[k].pc = pusher[k].pc /\ pusher'[k].cur = pusher[k].cur
                           /\ pusher'[k] \in PusherType
    BY <1>1 DEF Register, PusherTypes, PusherType
  <2>2. pusher' \in [Pushers -> PusherType]
    BY <1>1, <2>1 DEF Register
  <2>3. QED
    BY <2>1, <2>2 DEF PusherTypes, Calling, Entry
<1>2. CASE UNCHANGED pusher
  BY <1>2 DEF PusherTypes, Calling, Entry
<1>3. ASSUME PushTick PROVE PusherTypes'
  <2>1. [Quiet EXCEPT !.pc = "orphans"] \in PusherType
        /\ [Quiet EXCEPT !.pc = "orphans"].pc = "orphans"
    BY DEF PusherType, Quiet, PusherLabels
  <2>2. QED
    BY <1>3, <2>1, QuietTyped DEF PushTick, PusherTypes, Calling
<1>4. ASSUME NEW k \in Pushers, NEW p \in PusherType, pusher' = [pusher EXCEPT ![k] = p],
             p.pc \in {"send", "sent", "dead", "failed", "exhausted"} => p.cur[1] \in PushEntries
      PROVE  PusherTypes'
  BY <1>4 DEF PusherTypes, Calling, Entry
<1>5. ASSUME NEW k \in Pushers, MarkOrphans(k) PROVE PusherTypes'
  <2>1. [pusher[k] EXCEPT !.pc = "select"] \in PusherType
        /\ [pusher[k] EXCEPT !.pc = "select"].pc = "select"
    BY DEF PusherTypes, PusherType, PusherLabels
  <2>2. pusher' = [pusher EXCEPT ![k] = [pusher[k] EXCEPT !.pc = "select"]]
    BY <1>5 DEF MarkOrphans, PusherTypes
  <2>3. QED
    BY <1>4, <2>1, <2>2
<1>6. ASSUME NEW k \in Pushers, SelectPush(k) PROVE PusherTypes'
  <2> DEFINE chosen == {[row |-> r, attempt |-> push[r].attempt,
                         revoked |-> device[r[2]].status = "revoked"] : r \in {r \in PushRows : Selected(r)}}
             p == [pc |-> "claim", cur |-> <<>>, moved |-> {}, todo |-> chosen]
  <2>1. \A r \in PushRows : [row |-> r, attempt |-> push[r].attempt,
                             revoked |-> device[r[2]].status = "revoked"] \in PushEntries
    <3>1. \A r \in PushRows : push[r].attempt \in Nat
      BY DEF PushTypes, PushRowType
    <3>2. QED
      BY <3>1 DEF PushEntries
  <2>5. chosen \subseteq PushEntries
    BY <2>1
  <2>2. \A S \in SUBSET PushEntries :
           [pc |-> "claim", cur |-> <<>>, moved |-> {}, todo |-> S] \in PusherType
    BY DEF PusherType, PusherLabels
  <2>3. p \in PusherType /\ p.pc = "claim"
    BY <2>2, <2>5
  <2>4. pusher' = [pusher EXCEPT ![k] = p]
    BY <1>6 DEF SelectPush
  <2> HIDE DEF p
  <2>6. QED
    BY <1>4, <2>3, <2>4
<1>7. ASSUME NEW k \in Pushers, EndPush(k) \/ PushError(k) PROVE PusherTypes'
  <2>1. pusher' = [pusher EXCEPT ![k] = Quiet]
    BY <1>7 DEF EndPush, PushError
  <2>2. QED
    BY <1>4, <2>1, QuietTyped
<1>8. ASSUME NEW k \in Pushers, ClaimPush(k) PROVE PusherTypes'
  <2>1. PICK e \in pusher[k].todo, at \in {"claim", "failed", "send"} :
           pusher' = [pusher EXCEPT ![k] = [pusher[k] EXCEPT !.todo = @ \ {e}, !.cur = <<e>>, !.pc = at]]
    BY <1>8, ClaimMoves
  <2> DEFINE p == [pusher[k] EXCEPT !.todo = @ \ {e}, !.cur = <<e>>, !.pc = at]
  <2>3. e \in PushEntries
    BY DEF PusherTypes, PusherType
  <2>4. p \in PusherType /\ p.cur[1] = e
    BY <2>3 DEF PusherTypes, PusherType, PusherLabels
  <2>5. pusher' = [pusher EXCEPT ![k] = p]
    BY <2>1
  <2> HIDE DEF p
  <2>6. QED
    BY <1>4, <2>3, <2>4, <2>5
<1>9. ASSUME NEW k \in Pushers, SendPush(k) \/ ConcludePush(k) \/ RevokeDevice(k)
      PROVE PusherTypes'
  <2>1. Calling(k)
    BY <1>9 DEF SendPush, ConcludePush, RevokeDevice, Calling
  <2>2. \E label \in PusherLabels : GoesOn(k, label)
    BY <1>9 DEF SendPush, AfterTransient, ConcludePush, RevokeDevice, Conclude, PusherLabels
  <2>3. PICK label \in PusherLabels : pusher' = [pusher EXCEPT ![k] = [pusher[k] EXCEPT !.pc = label]]
    BY <2>2 DEF GoesOn, PusherTypes
  <2> DEFINE p == [pusher[k] EXCEPT !.pc = label]
  <2>4. p \in PusherType /\ p.cur[1] = Entry(k)
    BY DEF PusherTypes, PusherType, PusherLabels, Entry
  <2>5. Entry(k) \in PushEntries
    BY <2>1, EntryTyped
  <2> HIDE DEF p
  <2>6. QED
    BY <1>4, <2>3, <2>4, <2>5 DEF p
<1>10. QED
  BY <1>1, <1>2, <1>3, <1>5, <1>6, <1>7, <1>8, <1>9
     DEF PushNext, PushStep, Unregister, Announce, pushVars

\* A sweep selects rows whose device is still the landlord's, and each device
\* that moves on afterwards is noted.
LEMMA MovesKnownStep ==
    ASSUME PushInv, [PushNext]_pushVars
    PROVE  MovesKnown'
<1> USE DEF PushInv, PushTypes, PusherTypes
<1>1. ASSUME NEW d \in Devices, NEW l \in Landlords, Register(l, d) PROVE MovesKnown'
  <2>1. ASSUME NEW k \in Pushers, NEW r \in PushRows, KnownMoves(k, r)
        PROVE  KnownMoves(k, r)'
    <3>1. r[2] \in Devices
      BY DEF PushRows
    <3>2. CASE r[2] # d
      <4>1. device'[r[2]] = device[r[2]]
        BY <1>1, <3>1, <3>2 DEF Register
      <4>2. pusher[k].moved \subseteq pusher'[k].moved
        BY <1>1 DEF Register, PusherType
      <4>3. QED
        BY <2>1, <4>1, <4>2 DEF KnownMoves, Owned
    <3>3. CASE r[2] = d
      <4>1. device'[d].owner = l
        BY <1>1 DEF Register
      <4>2. CASE device[d].owner = l
        <5>1. pusher[k].moved \subseteq pusher'[k].moved
          BY <1>1 DEF Register, PusherType
        <5>2. QED
          BY <2>1, <3>3, <4>1, <4>2, <5>1 DEF KnownMoves, Owned
      <4>3. CASE device[d].owner # l
        <5>1. d \in pusher'[k].moved
          BY <1>1, <4>3 DEF Register, PusherType
        <5>2. QED
          BY <3>3, <5>1 DEF KnownMoves
      <4>4. QED
        BY <4>2, <4>3
    <3>4. QED
      BY <3>2, <3>3
  <2>2. \A k \in Pushers : /\ pusher'[k].pc = pusher[k].pc /\ pusher'[k].cur = pusher[k].cur
                           /\ pusher'[k].todo = pusher[k].todo
    BY <1>1 DEF Register, PusherType
  <2>3. ASSUME NEW k \in Pushers, NEW e \in pusher'[k].todo PROVE KnownMoves(k, e.row)'
    <3>1. e \in pusher[k].todo /\ e.row \in PushRows
      BY <2>2 DEF PusherType, PushEntries
    <3>2. QED
      BY <2>1, <3>1 DEF MovesKnown
  <2>4. ASSUME NEW k \in Pushers, Calling(k)' PROVE KnownMoves(k, Entry(k).row)'
    <3>1. Calling(k) /\ Entry(k)' = Entry(k)
      BY <2>2, <2>4 DEF Calling, Entry
    <3>2. Entry(k).row \in PushRows /\ KnownMoves(k, Entry(k).row)
      BY <3>1, EntryTyped DEF MovesKnown
    <3>3. KnownMoves(k, Entry(k).row)'
      BY <2>1, <3>1, <3>2
    <3>4. QED
      BY <3>1, <3>3
  <2>5. QED
    BY <2>3, <2>4 DEF MovesKnown
<1>2. ASSUME \A d \in Devices : device'[d].owner = device[d].owner, UNCHANGED pusher
      PROVE MovesKnown'
  <2>1. ASSUME NEW k \in Pushers, NEW r \in PushRows, KnownMoves(k, r)
        PROVE  KnownMoves(k, r)'
    BY <1>2, <2>1 DEF KnownMoves, Owned, PushRows
  <2>2. ASSUME NEW k \in Pushers, NEW e \in pusher'[k].todo PROVE KnownMoves(k, e.row)'
    <3>1. e \in pusher[k].todo /\ e.row \in PushRows
      BY <1>2 DEF PusherType, PushEntries
    <3>2. QED
      BY <2>1, <3>1 DEF MovesKnown
  <2>3. ASSUME NEW k \in Pushers, Calling(k)' PROVE KnownMoves(k, Entry(k).row)'
    <3>1. Calling(k) /\ Entry(k)' = Entry(k)
      BY <1>2, <2>3 DEF Calling, Entry
    <3>2. Entry(k).row \in PushRows /\ KnownMoves(k, Entry(k).row)
      BY <3>1, EntryTyped DEF MovesKnown
    <3>3. QED
      BY <2>1, <3>1, <3>2
  <2>4. QED
    BY <2>2, <2>3 DEF MovesKnown
<1>3. ASSUME NEW d \in Devices, NEW l \in Landlords, Unregister(l, d) PROVE MovesKnown'
  BY <1>2, <1>3 DEF Unregister
<1>4. ASSUME PushTick PROVE MovesKnown'
  <2>1. \A k \in Pushers : pusher'[k].pc \in {"orphans", "rest"} /\ pusher'[k].todo = {}
    BY <1>4 DEF PushTick, Quiet
  <2>2. QED
    BY <2>1 DEF MovesKnown, Calling
<1>5. ASSUME NEW k \in Pushers, NEW p \in PusherType, pusher' = [pusher EXCEPT ![k] = p],
             \A d \in Devices : device'[d].owner = device[d].owner,
             \A e \in p.todo : Owned(e.row) \/ e.row[2] \in p.moved,
             p.pc \in {"send", "sent", "dead", "failed", "exhausted"} =>
                 p.cur[1].row \in PushRows /\ (Owned(p.cur[1].row) \/ p.cur[1].row[2] \in p.moved)
      PROVE  MovesKnown'
  <2>1. ASSUME NEW r \in PushRows PROVE Owned(r)' = Owned(r)
    BY <1>5 DEF Owned, PushRows
  <2>2. ASSUME NEW j \in Pushers, j # k
        PROVE  /\ \A e \in pusher'[j].todo : KnownMoves(j, e.row)'
               /\ Calling(j)' => KnownMoves(j, Entry(j).row)'
    <3>1. pusher'[j] = pusher[j]
      BY <1>5, <2>2
    <3>2. \A e \in pusher[j].todo : e.row \in PushRows
      BY DEF PusherType, PushEntries
    <3>3. \A e \in pusher'[j].todo : KnownMoves(j, e.row)'
      BY <2>1, <3>1, <3>2 DEF MovesKnown, KnownMoves
    <3>4. ASSUME Calling(j)' PROVE KnownMoves(j, Entry(j).row)'
      <4>1. Calling(j) /\ Entry(j)' = Entry(j)
        BY <3>1, <3>4 DEF Calling, Entry
      <4>2. QED
        BY <2>1, <3>1, <4>1, EntryTyped DEF MovesKnown, KnownMoves
    <3>5. QED
      BY <3>3, <3>4
  <2>3. pusher'[k] = p
    BY <1>5
  <2>4. \A e \in p.todo : e.row \in PushRows
    BY DEF PusherType, PushEntries
  <2>5. \A e \in pusher'[k].todo : KnownMoves(k, e.row)'
    BY <1>5, <2>1, <2>3, <2>4 DEF KnownMoves
  <2>6. Calling(k)' => KnownMoves(k, Entry(k).row)'
    BY <1>5, <2>1, <2>3 DEF KnownMoves, Calling, Entry
  <2>7. QED
    BY <2>2, <2>5, <2>6 DEF MovesKnown
<1>6. ASSUME NEW k \in Pushers, MarkOrphans(k) PROVE MovesKnown'
  <2> DEFINE p == [pusher[k] EXCEPT !.pc = "select"]
  <2>1. p \in PusherType /\ p.pc = "select" /\ p.todo = pusher[k].todo /\ p.moved = pusher[k].moved
    BY DEF PusherType, PusherLabels
  <2>2. pusher' = [pusher EXCEPT ![k] = p] /\ device' = device
    BY <1>6 DEF MarkOrphans
  <2>3. \A e \in pusher[k].todo : Owned(e.row) \/ e.row[2] \in pusher[k].moved
    BY DEF MovesKnown, KnownMoves
  <2> HIDE DEF p
  <2>4. QED
    BY <1>5, <2>1, <2>2, <2>3
<1>7. ASSUME NEW k \in Pushers, SelectPush(k) PROVE MovesKnown'
  <2>1. pusher'[k].pc = "claim" /\ \A e \in pusher'[k].todo : e.row \in PushRows /\ Owned(e.row)
    BY <1>7 DEF SelectPush, Selected
  <2>2. PusherTypes'
    BY PusherTypesStep
  <2>3. pusher' = [pusher EXCEPT ![k] = pusher'[k]] /\ device' = device
    BY <1>7, <2>2 DEF SelectPush
  <2>4. QED
    BY <1>5, <2>1, <2>2, <2>3
<1>8. ASSUME NEW k \in Pushers, EndPush(k) \/ PushError(k) PROVE MovesKnown'
  <2>1. pusher' = [pusher EXCEPT ![k] = Quiet] /\ device' = device
    BY <1>8 DEF EndPush, PushError
  <2>2. QED
    BY <1>5, <2>1, QuietTyped
<1>9. ASSUME NEW k \in Pushers, ClaimPush(k) PROVE MovesKnown'
  <2>7. PICK e \in pusher[k].todo, at \in {"claim", "failed", "send"} :
           pusher' = [pusher EXCEPT ![k] = [pusher[k] EXCEPT !.todo = @ \ {e}, !.cur = <<e>>, !.pc = at]]
    BY <1>9, ClaimMoves
  <2>1. /\ pusher'[k].todo = pusher[k].todo \ {e} /\ pusher'[k].cur = <<e>>
        /\ pusher'[k].moved = pusher[k].moved
    BY <2>7 DEF PusherType
  <2>2. \A f \in pusher[k].todo : f.row \in PushRows /\ (Owned(f.row) \/ f.row[2] \in pusher[k].moved)
    BY DEF MovesKnown, KnownMoves, PusherType, PushEntries
  <2>3. PusherTypes'
    BY PusherTypesStep
  <2>4. pusher' = [pusher EXCEPT ![k] = pusher'[k]] /\ device' = device
    BY <1>9, <2>3 DEF ClaimPush
  <2>5. pusher'[k].cur[1] = e
    BY <2>1
  <2>6. QED
    BY <1>5, <2>1, <2>2, <2>3, <2>4, <2>5
<1>10. ASSUME NEW k \in Pushers, SendPush(k) \/ ConcludePush(k) \/ RevokeDevice(k) PROVE MovesKnown'
  <2>1. Calling(k)
    BY <1>10 DEF SendPush, ConcludePush, RevokeDevice, Calling
  <2>2. PICK label \in PusherLabels : pusher' = [pusher EXCEPT ![k] = [pusher[k] EXCEPT !.pc = label]]
    BY <1>10 DEF SendPush, AfterTransient, ConcludePush, RevokeDevice, Conclude, PusherLabels, GoesOn
  <2> DEFINE p == [pusher[k] EXCEPT !.pc = label]
  <2>3. p \in PusherType /\ p.cur[1] = Entry(k) /\ p.todo = pusher[k].todo /\ p.moved = pusher[k].moved
    BY DEF PusherType, PusherLabels, Entry
  <2>4. \A d \in Devices : device'[d].owner = device[d].owner
    BY <1>10 DEF SendPush, ConcludePush, RevokeDevice
  <2>5. \A e \in pusher[k].todo : Owned(e.row) \/ e.row[2] \in pusher[k].moved
    BY DEF MovesKnown, KnownMoves
  <2>6. Entry(k).row \in PushRows /\ (Owned(Entry(k).row) \/ Entry(k).row[2] \in pusher[k].moved)
    BY <2>1, EntryTyped DEF MovesKnown, KnownMoves
  <2>7. pusher' = [pusher EXCEPT ![k] = p]
    BY <2>2
  <2> HIDE DEF p
  <2>8. QED
    BY <1>5, <2>3, <2>4, <2>5, <2>6, <2>7
<1>11. CASE UNCHANGED <<pusher, device>>
  BY <1>2, <1>11
<1>12. QED
  BY <1>1, <1>3, <1>4, <1>6, <1>7, <1>8, <1>9, <1>10, <1>11
     DEF PushNext, PushStep, Announce, pushVars

\* So a call that goes astray was underway when the device moved.
LEMMA NoStrayStep ==
    ASSUME PushInv, [PushNext]_pushVars
    PROVE  NoStrayPush'
<1> USE DEF PushInv, NoStrayPush
<1>1. ASSUME NEW k \in Pushers, SendPush(k) PROVE NoStrayPush'
  BY <1>1 DEF SendPush, MovesKnown, KnownMoves, Calling
<1>2. CASE UNCHANGED strays
  BY <1>2
<1>3. QED
  BY <1>1, <1>2
     DEF PushNext, PushStep, Register, Unregister, Announce, PushTick, MarkOrphans, SelectPush,
         EndPush, ClaimPush, ConcludePush, Conclude, RevokeDevice, PushError, pushVars

\* The invariant holds throughout.
LEMMA PushInvariant == PushSpec => []PushInv
<1>1. ASSUME PushInit PROVE PushInv
  <2>1. PushTypes
    BY <1>1, PushAssumption DEF PushInit, PushTypes, NoPush, PushRowType
  <2>2. PusherTypes
    BY <1>1, QuietTyped DEF PushInit, PusherTypes, Calling
  <2>3. MovesKnown /\ NoStrayPush
    BY <1>1, QuietTyped DEF PushInit, MovesKnown, NoStrayPush, Calling
  <2>4. QED
    BY <2>1, <2>2, <2>3 DEF PushInv
<1>2. PushInv /\ [PushNext]_pushVars => PushInv'
  BY PushTypesStep, PusherTypesStep, MovesKnownStep, NoStrayStep DEF PushInv
<1>3. QED
  BY <1>1, <1>2, PTL DEF PushSpec

\* The variables of the push outbox keep their types.
THEOREM PushTypesKept == PushSpec => []PushTypeOK
<1>1. PushInv => PushTypeOK
  BY DEF PushInv, PushTypes, PusherTypes, PushTypeOK, PushRowType, PusherType, PusherLabels
<1>2. QED
  BY <1>1, PushInvariant, PTL

\* However devices are registered, taken over and removed while any number of
\* sweeps run, none of them calls Expo for a device that had left its landlord
\* before the sweep chose its rows.
THEOREM PushesStayHome == PushSpec => []NoStrayPush
<1>1. PushInv => NoStrayPush
  BY DEF PushInv
<1>2. QED
  BY <1>1, PushInvariant, PTL

-----------------------------------------------------------------------------
\* A row marked sent, or about to be, was handed to Expo.
SentCalled ==
    /\ \A r \in PushRows : push[r].status = "sent" => r \in called
    /\ \A k \in Pushers : pusher[k].pc = "sent" => Entry(k).row \in called
\* A row cascades away only with its device.
GoneDeleted == \A r \in PushRows : push[r].gone => device[r[2]].status = "deleted"
\* What the sweeps of any number of pushers keep besides PushInv.
PromiseInv == PushInv /\ SentCalled /\ GoneDeleted

\* A device that was deleted does not come back, and takes its rows with it.
LEMMA GoneDeletedStep ==
    ASSUME PromiseInv, [PushNext]_pushVars
    PROVE  GoneDeleted'
<1> USE DEF PromiseInv, PushInv, GoneDeleted
<1>0. \A r \in PushRows : r[2] \in Devices
  BY DEF PushRows
<1>1. ASSUME NEW d \in Devices, NEW l \in Landlords, Register(l, d) PROVE GoneDeleted'
  BY <1>0, <1>1 DEF Register, PushTypes
<1>2. ASSUME NEW d \in Devices, NEW l \in Landlords, Unregister(l, d) PROVE GoneDeleted'
  BY <1>0, <1>2 DEF Unregister, PushTypes
<1>3. ASSUME \A r \in PushRows : push'[r].gone = push[r].gone, UNCHANGED device
      PROVE  GoneDeleted'
  BY <1>3
<1>4. ASSUME NEW n \in Drafts, Announce(n) PROVE GoneDeleted'
  BY <1>3, <1>4 DEF Announce, PushTypes, PushRowType
<1>5. CASE PushTick
  <2>1. \A r \in PushRows : push'[r].gone = push[r].gone
    BY <1>5 DEF PushTick, PushTypes, PushRowType
  <2>2. QED
    BY <1>3, <1>5, <2>1 DEF PushTick
<1>6. ASSUME NEW k \in Pushers, MarkOrphans(k) PROVE GoneDeleted'
  <2>1. \A r \in PushRows : push'[r].gone = push[r].gone
    BY <1>6 DEF MarkOrphans, PushTypes, PushRowType
  <2>2. QED
    BY <1>3, <1>6, <2>1 DEF MarkOrphans
<1>7. ASSUME NEW k \in Pushers, ClaimPush(k) PROVE GoneDeleted'
  <2>1. PICK e \in pusher[k].todo :
               push' = push \/ push' = [push EXCEPT ![e.row].attempt = @ + 1, ![e.row].wait = RetryWait]
    BY <1>7 DEF ClaimPush
  <2>2. \A r \in PushRows : push'[r].gone = push[r].gone
    BY <2>1 DEF PushTypes, PushRowType
  <2>3. QED
    BY <1>3, <1>7, <2>2 DEF ClaimPush
<1>8. ASSUME NEW k \in Pushers, ConcludePush(k) PROVE GoneDeleted'
  <2>1. \A r \in PushRows : push'[r].gone = push[r].gone
    BY <1>8 DEF ConcludePush, Conclude, PushTypes, PushRowType
  <2>2. QED
    BY <1>3, <1>8, <2>1 DEF ConcludePush
<1>9. ASSUME NEW k \in Pushers, RevokeDevice(k) PROVE GoneDeleted'
  <2>1. \A r \in PushRows : push'[r].gone = push[r].gone
    BY <1>9 DEF RevokeDevice, Conclude, PushTypes, PushRowType
  <2>2. \A d \in Devices : device[d].status = "deleted" => device'[d].status = "deleted"
    BY <1>9 DEF RevokeDevice, PushTypes
  <2>3. QED
    BY <1>0, <2>1, <2>2
<1>10. CASE UNCHANGED <<push, device>>
  BY <1>3, <1>10
<1>11. QED
  BY <1>1, <1>2, <1>4, <1>5, <1>6, <1>7, <1>8, <1>9, <1>10
     DEF PushNext, PushStep, SelectPush, EndPush, SendPush, PushError, pushVars

\* Who has claimed a row and not yet said what became of it.
PushHands(r) == {k \in Pushers : Calling(k) /\ Entry(k).row = r}

\* What a step of the sweep does to a row.
PushMoves(r) ==
    /\ \/ push'[r].status = push[r].status
       \/ push[r].status = "absent" /\ push'[r].status = "pending" /\ ~push'[r].gone
       \/ PendingPush(r) /\ push'[r].status = "failed"
       \/ /\ push'[r].status \in Settled
          /\ \E k \in PushHands(r) : /\ PushHands(r)' = PushHands(r) \ {k}
                                     /\ push'[r].status = "sent" => r \in called
    /\ push[r].gone => push'[r].gone
    /\ r \in called => r \in called'
    /\ r \in called' /\ r \notin called => PushHands(r) # {}
    /\ PushHands(r)' \subseteq PushHands(r) \/ (PendingPush(r) /\ PendingPush(r)')

\* Writing an outcome lets go of the row, whatever the row says by then.
LEMMA ConcludeMove ==
    ASSUME PromiseInv, NEW k \in Pushers, Calling(k), NEW status \in {"sent", "failed", "exhausted"},
           status = "sent" => Entry(k).row \in called, Conclude(k, status), NEW r \in PushRows
    PROVE  PushMoves(r)
<1> USE DEF PromiseInv, PushInv
<1>1. /\ pusher'[k].pc = "claim"
      /\ \A j \in Pushers : j # k => pusher'[j] = pusher[j]
  BY DEF Conclude, GoesOn, PusherTypes, PusherType
<1>2. \A j \in Pushers : Calling(j)' <=> Calling(j) /\ j # k
  BY <1>1 DEF Calling
<1>3. PushHands(r)' = PushHands(r) \ {k}
  BY <1>1, <1>2 DEF PushHands, Entry
<1>4. called' = called
  BY DEF Conclude
<1>5. CASE push'[r] = push[r]
  BY <1>3, <1>4, <1>5 DEF PushMoves
<1>6. CASE push'[r] # push[r]
  <2>1. r = Entry(k).row /\ push'[r] = [push[r] EXCEPT !.status = status]
    BY <1>6, EntryTyped DEF Conclude, PushTypes
  <2>2. push'[r].status = status /\ push'[r].gone = push[r].gone
    BY <2>1 DEF PushTypes, PushRowType
  <2>3. k \in PushHands(r)
    BY <2>1 DEF PushHands
  <2>4. QED
    BY <1>3, <1>4, <2>1, <2>2, <2>3 DEF PushMoves, Settled
<1>7. QED
  BY <1>5, <1>6

\* Every step is one of those moves.
LEMMA PushStepMoves ==
    ASSUME PromiseInv, [PushNext]_pushVars, NEW r \in PushRows
    PROVE  PushMoves(r)
<1> USE DEF PromiseInv, PushInv
<1>0. r[1] \in Drafts /\ r[2] \in Devices /\ <<r[1], r[2]>> = r
  BY DEF PushRows
<1>1. ASSUME \A j \in Pushers : Calling(j)' => Calling(j) /\ pusher'[j].cur = pusher[j].cur
      PROVE  PushHands(r)' \subseteq PushHands(r)
  BY <1>1 DEF PushHands, Entry
<1>2. ASSUME UNCHANGED called, push'[r].status = push[r].status, push[r].gone => push'[r].gone,
             \A j \in Pushers : Calling(j)' => Calling(j) /\ pusher'[j].cur = pusher[j].cur
      PROVE  PushMoves(r)
  BY <1>1, <1>2 DEF PushMoves
<1>3. ASSUME NEW d \in Devices, NEW l \in Landlords, Register(l, d) PROVE PushMoves(r)
  <2>1. \A j \in Pushers : Calling(j)' => Calling(j) /\ pusher'[j].cur = pusher[j].cur
    BY <1>3 DEF Register, Calling, PusherTypes, PusherType
  <2>2. QED
    BY <1>2, <1>3, <2>1 DEF Register
<1>4. ASSUME NEW d \in Devices, NEW l \in Landlords, Unregister(l, d) PROVE PushMoves(r)
  <2>1. push'[r].status = push[r].status /\ (push[r].gone => push'[r].gone)
    BY <1>4 DEF Unregister, PushTypes, PushRowType
  <2>2. QED
    BY <1>2, <1>4, <2>1 DEF Unregister, Calling
<1>5. ASSUME NEW n \in Drafts, Announce(n) PROVE PushMoves(r)
  <2>1. PushHands(r)' = PushHands(r)
    BY <1>5 DEF Announce, PushHands, Calling, Entry
  <2>2. push'[r].gone = push[r].gone
    BY <1>5 DEF Announce, PushTypes, PushRowType
  <2>3. CASE r[1] = n /\ Announced(n, r[2])
    <3>1. push[r].status = "absent" /\ ~push[r].gone
      BY <1>0, <2>3 DEF Announced, GoneDeleted
    <3>2. push'[r].status = "pending"
      BY <1>5, <2>3 DEF Announce, PushTypes, PushRowType
    <3>3. QED
      BY <1>5, <2>1, <2>2, <3>1, <3>2 DEF Announce, PushMoves
  <2>4. CASE ~(r[1] = n /\ Announced(n, r[2]))
    BY <1>5, <2>1, <2>2, <2>4 DEF Announce, PushMoves
  <2>5. QED
    BY <2>3, <2>4
<1>6. CASE PushTick
  <2>1. push'[r].status = push[r].status /\ push'[r].gone = push[r].gone
    BY <1>6 DEF PushTick, PushTypes, PushRowType
  <2>2. \A j \in Pushers : ~Calling(j)'
    BY <1>6 DEF PushTick, Quiet, Calling
  <2>3. QED
    BY <1>2, <1>6, <2>1, <2>2 DEF PushTick
<1>7. ASSUME NEW k \in Pushers, MarkOrphans(k) PROVE PushMoves(r)
  <2>1. \A j \in Pushers : Calling(j)' => Calling(j) /\ pusher'[j].cur = pusher[j].cur
    BY <1>7 DEF MarkOrphans, Calling, PusherTypes, PusherType
  <2>2. called' = called /\ PushHands(r)' \subseteq PushHands(r)
    BY <1>1, <1>7, <2>1 DEF MarkOrphans
  <2>3. CASE Orphaned(r)
    <3>1. push'[r].status = "failed" /\ push'[r].gone = push[r].gone
      BY <1>7, <2>3 DEF MarkOrphans, PushTypes, PushRowType
    <3>2. QED
      BY <2>2, <2>3, <3>1 DEF Orphaned, PushMoves
  <2>4. CASE ~Orphaned(r)
    <3>1. push'[r] = push[r]
      BY <1>7, <2>4 DEF MarkOrphans
    <3>2. QED
      BY <2>2, <3>1 DEF PushMoves
  <2>5. QED
    BY <2>3, <2>4
<1>8. ASSUME NEW k \in Pushers, SelectPush(k) \/ EndPush(k) \/ PushError(k) PROVE PushMoves(r)
  <2>1. ~Calling(k)' /\ \A j \in Pushers : j # k => pusher'[j] = pusher[j]
    BY <1>8 DEF SelectPush, EndPush, PushError, Quiet, Calling, PusherTypes
  <2>2. \A j \in Pushers : Calling(j)' => Calling(j) /\ pusher'[j].cur = pusher[j].cur
    BY <2>1 DEF Calling
  <2>3. QED
    BY <1>2, <1>8, <2>2 DEF SelectPush, EndPush, PushError
<1>9. ASSUME NEW k \in Pushers, ClaimPush(k) PROVE PushMoves(r)
  <2>1. PICK e \in pusher[k].todo :
          /\ pusher' = [pusher EXCEPT ![k] = [pusher[k] EXCEPT !.todo = @ \ {e}, !.cur = <<e>>,
                !.pc = IF ~(PendingPush(e.row) /\ push[e.row].attempt = e.attempt) THEN "claim"
                       ELSE IF e.revoked THEN "failed" ELSE "send"]]
          /\ push' = push \/ push' = [push EXCEPT ![e.row].attempt = @ + 1, ![e.row].wait = RetryWait]
    BY <1>9 DEF ClaimPush
  <2>2. push'[r].status = push[r].status /\ push'[r].gone = push[r].gone
    BY <2>1 DEF PushTypes, PushRowType
  <2>3. /\ Calling(k)' => PendingPush(e.row)
        /\ pusher'[k].cur = <<e>>
        /\ \A j \in Pushers : j # k => pusher'[j] = pusher[j]
    BY <2>1 DEF PusherTypes, PusherType, Calling
  <2>4. Entry(k)' = e
    BY <2>3 DEF Entry
  <2>5. PushHands(r)' \subseteq PushHands(r) \/ PendingPush(r)
    BY <2>3, <2>4 DEF PushHands, Calling, Entry
  <2>6. QED
    BY <1>9, <2>2, <2>5 DEF ClaimPush, PushMoves, PendingPush
<1>10. ASSUME NEW k \in Pushers, SendPush(k) PROVE PushMoves(r)
  <2>1. called' = called \cup {Entry(k).row} /\ push' = push
    BY <1>10 DEF SendPush
  <2>2. k \in PushHands(Entry(k).row)
    BY <1>10 DEF SendPush, PushHands, Calling
  <2>3. \A j \in Pushers : Calling(j)' => Calling(j) /\ pusher'[j].cur = pusher[j].cur
    BY <1>10 DEF SendPush, GoesOn, AfterTransient, Calling, PusherTypes, PusherType
  <2>4. QED
    BY <1>1, <2>1, <2>2, <2>3 DEF PushMoves
<1>11. ASSUME NEW k \in Pushers, ConcludePush(k) PROVE PushMoves(r)
  BY <1>11, ConcludeMove DEF ConcludePush, Calling, SentCalled
<1>12. ASSUME NEW k \in Pushers, RevokeDevice(k) PROVE PushMoves(r)
  BY <1>12, ConcludeMove DEF RevokeDevice, Calling
<1>13. CASE UNCHANGED pushVars
  BY <1>2, <1>13 DEF pushVars, Calling
<1>14. QED
  BY <1>3, <1>4, <1>5, <1>6, <1>7, <1>8, <1>9, <1>10, <1>11, <1>12, <1>13 DEF PushNext, PushStep

\* What is marked sent was called for, and so is what a pusher is about to mark.
LEMMA SentCalledStep ==
    ASSUME PromiseInv, [PushNext]_pushVars
    PROVE  SentCalled'
<1> USE DEF PromiseInv, PushInv
<1>1. \A r \in PushRows : push'[r].status = "sent" => r \in called'
  BY PushStepMoves DEF PushMoves, SentCalled
<1>2. \A r \in PushRows : r \in called => r \in called'
  BY PushStepMoves DEF PushMoves
<1>3. ASSUME NEW k \in Pushers, pusher'[k].pc = "sent" PROVE Entry(k)'.row \in called'
  <2>1. CASE pusher[k].pc = "sent" /\ pusher'[k].cur = pusher[k].cur
    <3>1. Entry(k)' = Entry(k) /\ Entry(k).row \in PushRows /\ Entry(k).row \in called
      BY <2>1, EntryTyped DEF SentCalled, Entry, Calling
    <3>2. QED
      BY <1>2, <3>1
  <2>2. CASE SendPush(k)
    <3>1. Entry(k)' = Entry(k)
      BY <2>2 DEF SendPush, GoesOn, AfterTransient, Entry, PusherTypes, PusherType
    <3>2. QED
      BY <2>2, <3>1 DEF SendPush
  <2>3. ASSUME NEW j \in Pushers, j # k, PushStep(j) \/ PushError(j)
        PROVE  pusher'[k] = pusher[k]
    BY <2>3 DEF PushStep, PushError, MarkOrphans, SelectPush, EndPush, ClaimPush, SendPush, AfterTransient,
                ConcludePush, RevokeDevice, Conclude, GoesOn, PusherTypes
  <2>4. ~(MarkOrphans(k) \/ SelectPush(k) \/ EndPush(k) \/ ConcludePush(k) \/ RevokeDevice(k) \/ PushError(k))
    BY <1>3 DEF MarkOrphans, SelectPush, EndPush, ConcludePush, RevokeDevice, Conclude, GoesOn,
                PushError, Quiet, PusherTypes, PusherType
  <2>5. ~ClaimPush(k)
    <3> SUFFICES ASSUME ClaimPush(k) PROVE FALSE
      OBVIOUS
    <3>1. PICK e \in pusher[k].todo, at \in {"claim", "failed", "send"} :
             pusher' = [pusher EXCEPT ![k] = [pusher[k] EXCEPT !.todo = @ \ {e}, !.cur = <<e>>, !.pc = at]]
      BY ClaimMoves
    <3>2. QED
      BY <1>3, <3>1 DEF PusherTypes, PusherType
  <2>6. ~PushTick
    BY <1>3 DEF PushTick, Quiet
  <2>7. ASSUME NEW d \in Devices, NEW l \in Landlords, Register(l, d)
        PROVE  pusher[k].pc = "sent" /\ pusher'[k].cur = pusher[k].cur
    BY <1>3, <2>7 DEF Register, PusherTypes, PusherType
  <2>8. CASE UNCHANGED pusher
    BY <1>3, <2>1, <2>8
  <2>9. QED
    BY <1>3, <2>1, <2>2, <2>3, <2>4, <2>5, <2>6, <2>7, <2>8
       DEF PushNext, PushStep, Unregister, Announce, pushVars
<1>4. QED
  BY <1>1, <1>3 DEF SentCalled

\* The invariant of the sweeps holds throughout.
LEMMA PromiseInvariant == PushSpec => []PromiseInv
<1>1. PushInit /\ PushInv => PromiseInv
  BY QuietTyped DEF PushInit, PromiseInv, SentCalled, GoneDeleted, NoPush
<1>2. PromiseInv /\ PushInv' /\ [PushNext]_pushVars => PromiseInv'
  BY SentCalledStep, GoneDeletedStep DEF PromiseInv
<1>3. QED
  BY <1>1, <1>2, PushInvariant, PTL DEF PushSpec

\* What the abstract state of a row says of it.
LEMMA PushStates ==
    ASSUME PushTypes, NEW r \in PushRows
    PROVE  /\ PushState(r) = "absent" <=> push[r].status = "absent"
           /\ PushState(r) = "done" <=> push[r].status = "sent"
           /\ PushState(r) = "open" <=> PendingPush(r)
           /\ PushState(r) \in {"absent", "open", "done", "dropped"}
<1>1. push[r].status \in {"absent", "pending", "sent", "failed", "exhausted"}
  BY DEF PushTypes, PushRowType
<1>2. QED
  BY <1>1 DEF PushState, PendingPush

\* A step of the sweep is a step of the abstract row, or leaves it alone.
LEMMA PushRowStep ==
    ASSUME PromiseInv, PromiseInv', [PushNext]_pushVars, NEW r \in PushRows
    PROVE  PushOutbox!SharedRowStep(r)
<1>1. PushMoves(r)
  BY PushStepMoves
<1>2. /\ PushState(r)' = "absent" <=> push'[r].status = "absent"
      /\ PushState(r)' = "done" <=> push'[r].status = "sent"
      /\ PushState(r)' = "open" <=> PendingPush(r)'
      /\ PushState(r)' = "dropped" <=> ~(push'[r].status \in {"absent", "sent"}) /\ ~PendingPush(r)'
  <2>1. push'[r].status \in {"absent", "pending", "sent", "failed", "exhausted"}
    BY DEF PromiseInv, PushInv, PushTypes, PushRowType
  <2>2. QED
    BY <2>1 DEF PushState, PendingPush
<1>3. \/ PushState(r)' = PushState(r)
      \/ <<PushState(r), PushState(r)'>> \in PushOutbox!Moves
      \/ PushState(r)' # "absent" /\ \E k \in PushHands(r) : PushHands(r)' = PushHands(r) \ {k}
  <2>1. CASE push'[r].status = push[r].status
    <3>1. (push'[r].gone <=> push[r].gone) => PushState(r)' = PushState(r)
      BY <2>1 DEF PushState, PendingPush
    <3>2. CASE push'[r].gone /\ ~push[r].gone
      <4>1. CASE push[r].status = "pending"
        <5>1. PushState(r) = "open" /\ PushState(r)' = "dropped"
          BY <1>2, <2>1, <3>2, <4>1, PushStates DEF PendingPush, PromiseInv, PushInv
        <5>2. QED
          BY <5>1 DEF PushOutbox!Moves
      <4>2. CASE push[r].status # "pending"
        BY <2>1, <4>2 DEF PushState, PendingPush
      <4>3. QED
        BY <4>1, <4>2
    <3>3. QED
      BY <1>1, <3>1, <3>2 DEF PushMoves
  <2>2. CASE push[r].status = "absent" /\ push'[r].status = "pending" /\ ~push'[r].gone
    <3>1. PushState(r) = "absent" /\ PushState(r)' = "open"
      BY <1>2, <2>2, PushStates DEF PendingPush, PromiseInv, PushInv
    <3>2. QED
      BY <3>1 DEF PushOutbox!Moves
  <2>3. CASE PendingPush(r) /\ push'[r].status = "failed"
    <3>1. PushState(r) = "open" /\ PushState(r)' = "dropped"
      BY <1>2, <2>3, PushStates DEF PendingPush, PromiseInv, PushInv
    <3>2. QED
      BY <3>1 DEF PushOutbox!Moves
  <2>4. QED
    BY <1>1, <1>2, <2>1, <2>2, <2>3 DEF PushMoves, Settled
<1>4. PushState(r)' = "done" => r \in called'
  BY <1>2 DEF PromiseInv, SentCalled
<1>5. (r \in called') = (r \in called) \/ (r \in called' /\ PushHands(r) # {})
  BY <1>1 DEF PushMoves
<1>6. PushHands(r)' \subseteq PushHands(r) \/ (PushState(r) = "open" /\ PushState(r)' = "open")
  BY <1>1, <1>2, PushStates DEF PushMoves, PromiseInv, PushInv
<1>7. /\ [x \in PushRows |-> PushState(x)][r] = PushState(r)
      /\ ([x \in PushRows |-> PushState(x)]')[r] = PushState(r)'
      /\ [x \in PushRows |-> x \in called][r] = (r \in called)
      /\ ([x \in PushRows |-> x \in called]')[r] = (r \in called')
      /\ [x \in PushRows |-> {k \in Pushers : Calling(k) /\ Entry(k).row = x}][r] = PushHands(r)
      /\ ([x \in PushRows |-> {k \in Pushers : Calling(k) /\ Entry(k).row = x}]')[r] = PushHands(r)'
  BY DEF PushHands
<1>8. QED
  BY <1>3, <1>4, <1>5, <1>6, <1>7, Zenon DEF PushOutbox!SharedRowStep, PushOutbox!Written

\* However many tickers sweep at once, whatever devices move or are removed: a
\* row is claimed only while it waits, only who has claimed it calls Expo for it
\* or writes what it answered, and it is marked sent only after the call.
THEOREM PushesShareTheirOutbox == PushSpec => PushKeepsThePromise
<1>1. PushInit => PushOutbox!SharedInit
  <2> SUFFICES ASSUME PushInit PROVE PushOutbox!SharedInit
    OBVIOUS
  <2>1. \A r \in PushRows : PushState(r) = "absent"
    BY DEF PushInit, NoPush, PushState, PendingPush
  <2>2. \A r \in PushRows : (r \in called) = FALSE
    BY DEF PushInit
  <2>3. \A k \in Pushers : ~Calling(k)
    BY QuietTyped DEF PushInit, Calling
  <2>4. \A r \in PushRows : {k \in Pushers : Calling(k) /\ Entry(k).row = r} = {}
    BY <2>3
  <2>5. QED
    BY <2>1, <2>2, <2>4, Zenon DEF PushOutbox!SharedInit
<1>2. PromiseInv /\ PromiseInv' /\ [PushNext]_pushVars
        => [PushOutbox!SharedNext]_(PushOutbox!sharedVars)
  <2> SUFFICES ASSUME PromiseInv, PromiseInv', [PushNext]_pushVars
               PROVE  PushOutbox!SharedNext
    OBVIOUS
  <2>1. \A r \in PushRows : PushOutbox!SharedRowStep(r)
    BY PushRowStep
  <2>2. /\ [r \in PushRows |-> PushState(r)]' \in [PushRows -> {"absent", "open", "done", "dropped"}]
        /\ [r \in PushRows |-> r \in called]' \in [PushRows -> BOOLEAN]
        /\ [r \in PushRows |-> {k \in Pushers : Calling(k) /\ Entry(k).row = r}]'
             \in [PushRows -> SUBSET Pushers]
    BY DEF PushState
  <2>3. QED
    BY <2>1, <2>2 DEF PushOutbox!SharedNext
<1>3. QED
  BY <1>1, <1>2, PromiseInvariant, PTL
     DEF PushSpec, PushKeepsThePromise, PushOutbox!SharedOutboxSpec

-----------------------------------------------------------------------------
(* Signing keys.                                                           *)

\* The type of every variable, with that of a request spelled out.
LoginLabels == {"absent", "idle", "new", "routine", "fetch", "find", "miss", "refetch",
                "retry", "accepted", "rejected"}
LoginType == [pc : LoginLabels, key : 0..MaxGeneration, got : 0..MaxGeneration]
KeyTypes ==
    /\ current \in 1..MaxGeneration
    /\ cache \in [set : 0..MaxGeneration, age : 0..Ttl]
    /\ wait \in [forced : 0..ForcedWindow, empty : 0..EmptyWindow, raised : 0..RaisedWindow]
    /\ holder \in Logins \cup {Free}
    /\ login \in [Logins -> LoginType]
    /\ badFetches \in 0..MaxBadFetch
    /\ quiet \in 0..ForcedWindow

\* r is waiting for the answer of the key server.
Fetching(r) == login[r].pc \in {"fetch", "refetch"}
\* Whoever waits for an answer holds the lock.
FetchersHold == \A r \in Logins : Fetching(r) => holder = r
\* The cache holds a set that was published.
CacheIsPast == cache.set <= current
\* The cooldown of forced refreshes measures the time since the last one.
LimitMeasures == wait.forced + quiet = ForcedWindow
\* The inductive invariant of the keys.
KeyInv == KeyTypes /\ FetchersHold /\ CacheIsPast /\ LimitMeasures

-----------------------------------------------------------------------------
\* A step of one request leaves the others alone.
LEMMA LoginMoves ==
    ASSUME KeyTypes, NEW r \in Logins, NEW p \in LoginType, login' = [login EXCEPT ![r] = p]
    PROVE  /\ login' \in [Logins -> LoginType]
           /\ login'[r] = p
           /\ \A q \in Logins : q # r => login'[q] = login[q]
BY DEF KeyTypes

\* Moving a request on keeps its type.
LEMMA LabelTyped ==
    ASSUME KeyTypes, NEW r \in Logins, NEW label \in LoginLabels, LoginGoes(r, label)
    PROVE  /\ login' \in [Logins -> LoginType]
           /\ login'[r].pc = label
           /\ \A q \in Logins : q # r => login'[q] = login[q]
<1> DEFINE p == [login[r] EXCEPT !.pc = label]
<1>1. p \in LoginType /\ p.pc = label
  BY DEF KeyTypes, LoginType
<1>2. login' = [login EXCEPT ![r] = p]
  BY DEF LoginGoes
<1> HIDE DEF p
<1>3. QED
  BY <1>1, <1>2, LoginMoves

\* So does handing it a set of keys.
LEMMA SetTyped ==
    ASSUME KeyTypes, NEW r \in Logins, NEW label \in LoginLabels, NEW set \in 0..MaxGeneration,
           LoginGets(r, label, set)
    PROVE  /\ login' \in [Logins -> LoginType]
           /\ login'[r].pc = label
           /\ \A q \in Logins : q # r => login'[q] = login[q]
<1> DEFINE p == [login[r] EXCEPT !.pc = label, !.got = set]
<1>1. p \in LoginType /\ p.pc = label
  BY DEF KeyTypes, LoginType
<1>2. login' = [login EXCEPT ![r] = p]
  BY DEF LoginGets, KeyTypes
<1> HIDE DEF p
<1>3. QED
  BY <1>1, <1>2, LoginMoves

\* What an answer leaves in the cache.
LEMMA StoredTyped ==
    ASSUME KeyTypes, CacheIsPast, NEW set \in {0, current}
    PROVE  /\ Stored(set) \in [set : 0..MaxGeneration, age : 0..Ttl]
           /\ cache.set <= Stored(set).set /\ Stored(set).set <= current
           /\ Stored(set).set \in 0..MaxGeneration
BY KeysAssumption DEF KeyTypes, CacheIsPast, Stored

\* What a step does to a request that it moves: how it may come to fetch.
RequestMoves(r) ==
    /\ login' \in [Logins -> LoginType]
    /\ \A q \in Logins : q # r => login'[q] = login[q]
    /\ Fetching(r)' => ~Fetching(r) /\ holder = Free /\ holder' = r
    /\ ~Fetching(r)' => holder' = holder \/ (holder = r /\ holder' = Free) \/ (Fetching(r) /\ holder' = Free)
    /\ login'[r].pc = "refetch" => login[r].pc = "miss" /\ wait.forced = 0
    /\ badFetches' \in 0..MaxBadFetch

\* Every step of a request is such a move.
LEMMA VerifyMoves ==
    ASSUME KeyInv, NEW r \in Logins, VerifyJwt(r) \/ Cancelled(r)
    PROVE  RequestMoves(r)
<1> USE KeysAssumption DEF KeyInv
<1>0. /\ login[r].pc \in LoginLabels /\ cache.set \in 0..MaxGeneration
      /\ badFetches \in 0..MaxBadFetch /\ MaxBadFetch \in Nat
  BY DEF KeyTypes, LoginType
<1>b. BadFetch => badFetches' \in 0..MaxBadFetch
  BY <1>0 DEF BadFetch
<1> USE DEF RequestMoves, Fetching, KeepsState
<1>1. CASE Arrives(r)
  <2>0. PICK key \in (IF r = Visitor THEN {current} ELSE 0..current) :
           login' = [login EXCEPT ![r] = [pc |-> "new", key |-> key, got |-> 0]]
    BY <1>1 DEF Arrives
  <2>1. key \in 0..MaxGeneration
    BY DEF KeyTypes
  <2> DEFINE p == [pc |-> "new", key |-> key, got |-> 0]
  <2>2. p \in LoginType /\ p.pc = "new"
    BY <2>1 DEF LoginType, LoginLabels
  <2>3. login' = [login EXCEPT ![r] = p]
    BY <2>0
  <2> HIDE DEF p
  <2>4. QED
    BY <1>0, <1>1, <2>2, <2>3, LoginMoves DEF Arrives
<1>2. CASE FastPath(r)
  <2>1. LoginGets(r, "find", cache.set) \/ LoginGoes(r, "routine")
    BY <1>2 DEF FastPath
  <2>2. "find" \in LoginLabels /\ "routine" \in LoginLabels
    BY DEF LoginLabels
  <2>3. login' \in [Logins -> LoginType] /\ login'[r].pc \in {"find", "routine"}
        /\ \A q \in Logins : q # r => login'[q] = login[q]
    BY <1>0, <2>1, <2>2, LabelTyped, SetTyped
  <2>4. QED
    BY <1>0, <1>2, <2>3 DEF FastPath
<1>3. CASE SlowPath(r)
  <2>1. "find" \in LoginLabels /\ "rejected" \in LoginLabels /\ "fetch" \in LoginLabels
    BY DEF LoginLabels
  <2>2. \/ (LoginGets(r, "find", cache.set) \/ LoginGoes(r, "rejected")) /\ holder' = holder
        \/ LoginGoes(r, "fetch") /\ holder' = r
    BY <1>3 DEF SlowPath
  <2>3. login' \in [Logins -> LoginType]
        /\ \/ login'[r].pc \in {"find", "rejected"} /\ holder' = holder
           \/ login'[r].pc = "fetch" /\ holder' = r
        /\ \A q \in Logins : q # r => login'[q] = login[q]
    BY <1>0, <2>1, <2>2, LabelTyped, SetTyped
  <2>4. QED
    BY <1>0, <1>3, <2>3 DEF SlowPath
<1>4. CASE FetchReturns(r)
  <2>1. PICK set \in {0, current} : /\ IF set = 0 THEN BadFetch ELSE UNCHANGED badFetches
                                    /\ LoginGets(r, "find", Stored(set).set)
    BY <1>4 DEF FetchReturns
  <2>2. Stored(set).set \in 0..MaxGeneration /\ "find" \in LoginLabels
    BY StoredTyped DEF LoginLabels
  <2>3. login' \in [Logins -> LoginType] /\ login'[r].pc = "find"
        /\ \A q \in Logins : q # r => login'[q] = login[q]
    BY <2>1, <2>2, SetTyped
  <2>4. badFetches' \in 0..MaxBadFetch
    BY <1>0, <1>b, <2>1
  <2>5. QED
    BY <1>4, <2>3, <2>4 DEF FetchReturns
<1>5. CASE FetchRaises(r)
  <2>1. "rejected" \in LoginLabels
    BY DEF LoginLabels
  <2>2. QED
    BY <1>5, <1>b, <2>1, LabelTyped DEF FetchRaises
<1>6. CASE FindSigningKey(r)
  <2>1. PICK label \in {"accepted", "miss", "rejected"} : LoginGoes(r, label)
    BY <1>6 DEF FindSigningKey
  <2>2. label \in LoginLabels
    BY DEF LoginLabels
  <2>3. QED
    BY <1>0, <1>6, <2>1, <2>2, LabelTyped DEF FindSigningKey
<1>7. CASE RefreshOnKidMiss(r)
  <2>1. "retry" \in LoginLabels /\ "refetch" \in LoginLabels
    BY DEF LoginLabels
  <2>2. \/ LoginGets(r, "retry", cache.set) /\ holder' = holder
        \/ LoginGoes(r, "refetch") /\ holder' = r /\ ~(wait.forced > 0)
    BY <1>7 DEF RefreshOnKidMiss
  <2>3. wait.forced \in Nat
    BY DEF KeyTypes
  <2>4. login' \in [Logins -> LoginType]
        /\ \/ login'[r].pc = "retry" /\ holder' = holder
           \/ login'[r].pc = "refetch" /\ holder' = r /\ wait.forced = 0
        /\ \A q \in Logins : q # r => login'[q] = login[q]
    BY <1>0, <2>1, <2>2, <2>3, LabelTyped, SetTyped
  <2>5. QED
    BY <1>0, <1>7, <2>4 DEF RefreshOnKidMiss
<1>8. CASE RefetchReturns(r)
  <2>1. PICK set \in {0, current} : /\ IF set = 0 THEN BadFetch ELSE UNCHANGED badFetches
                                    /\ LoginGets(r, "retry", Stored(set).set)
    BY <1>8 DEF RefetchReturns
  <2>2. Stored(set).set \in 0..MaxGeneration /\ "retry" \in LoginLabels
    BY StoredTyped DEF LoginLabels
  <2>3. login' \in [Logins -> LoginType] /\ login'[r].pc = "retry"
        /\ \A q \in Logins : q # r => login'[q] = login[q]
    BY <2>1, <2>2, SetTyped
  <2>4. badFetches' \in 0..MaxBadFetch
    BY <1>0, <1>b, <2>1
  <2>5. QED
    BY <1>8, <2>3, <2>4 DEF RefetchReturns
<1>9. CASE RefetchRaises(r)
  <2>1. "rejected" \in LoginLabels
    BY DEF LoginLabels
  <2>2. QED
    BY <1>9, <1>b, <2>1, LabelTyped DEF RefetchRaises
<1>10. CASE Cancelled(r)
  <2>1. "rejected" \in LoginLabels
    BY DEF LoginLabels
  <2>2. QED
    BY <1>0, <1>10, <2>1, LabelTyped DEF Cancelled
<1>11. QED
  BY <1>1, <1>2, <1>3, <1>4, <1>5, <1>6, <1>7, <1>8, <1>9, <1>10 DEF VerifyJwt

\* A fetch begins by taking the lock that was free, and ends by freeing it.
LEMMA FetchersHoldStep ==
    ASSUME KeyInv, [KeysNext]_keyVars
    PROVE  FetchersHold'
<1> USE DEF KeyInv
<1>1. ASSUME NEW r \in Logins, VerifyJwt(r) \/ Cancelled(r) PROVE FetchersHold'
  <2>1. RequestMoves(r)
    BY <1>1, VerifyMoves
  <2>2. \A q \in Logins : q # Free
    BY KeysAssumption
  <2>3. ASSUME NEW q \in Logins, q # r, Fetching(q)' PROVE holder' = q
    <3>1. holder = q
      BY <2>1, <2>3 DEF RequestMoves, Fetching, FetchersHold
    <3>2. QED
      BY <2>1, <2>2, <2>3, <3>1 DEF RequestMoves, FetchersHold
  <2>4. QED
    BY <2>1, <2>3 DEF RequestMoves, FetchersHold
<1>2. CASE Rotate \/ SecondPasses \/ UNCHANGED keyVars
  BY <1>2 DEF Rotate, SecondPasses, keyVars, FetchersHold, Fetching
<1>3. QED
  BY <1>1, <1>2 DEF KeysNext

\* The clock of the limits and of the cache; every answer is at most the
\* published set.
LEMMA StampsStep ==
    ASSUME KeyInv, [KeysNext]_keyVars
    PROVE  KeyTypes' /\ CacheIsPast' /\ LimitMeasures' /\ cache'.set >= cache.set
<1> USE KeysAssumption DEF KeyInv
<1>0. /\ 0 \in 0..ForcedWindow /\ ForcedWindow \in 0..ForcedWindow
      /\ 0 \in 0..EmptyWindow /\ EmptyWindow \in 0..EmptyWindow
      /\ 0 \in 0..RaisedWindow /\ RaisedWindow \in 0..RaisedWindow
  OBVIOUS
<1>1. ASSUME NEW r \in Logins, VerifyJwt(r) \/ Cancelled(r)
      PROVE  KeyTypes' /\ CacheIsPast' /\ LimitMeasures' /\ cache'.set >= cache.set
  <2>1. RequestMoves(r)
    BY <1>1, VerifyMoves
  <2>2. holder' \in Logins \cup {Free}
    BY <2>1 DEF RequestMoves, KeyTypes
  <2>3. current' = current
    BY <1>1 DEF VerifyJwt, Arrives, FastPath, SlowPath, FetchReturns, FetchRaises, FindSigningKey,
         RefreshOnKidMiss, RefetchReturns, RefetchRaises, Cancelled, KeepsState
  <2>4. /\ cache' \in [set : 0..MaxGeneration, age : 0..Ttl]
        /\ cache.set <= cache'.set /\ cache'.set <= current
    <3>1. CASE cache' = cache
      BY <3>1 DEF KeyTypes, CacheIsPast
    <3>2. ASSUME NEW set \in {0, current}, cache' = Stored(set)
          PROVE  <2>4!1 /\ <2>4!2
      BY <3>2, StoredTyped
    <3>3. QED
      BY <1>1, <3>1, <3>2 DEF VerifyJwt, Arrives, FastPath, SlowPath, FetchReturns, FetchRaises,
         FindSigningKey, RefreshOnKidMiss, RefetchReturns, RefetchRaises, Cancelled, KeepsState
  <2>5. /\ wait' \in [forced : 0..ForcedWindow, empty : 0..EmptyWindow, raised : 0..RaisedWindow]
        /\ quiet' \in 0..ForcedWindow /\ wait'.forced + quiet' = ForcedWindow
    <3>1. CASE wait' = wait /\ quiet' = quiet
      BY <3>1 DEF KeyTypes, LimitMeasures
    <3>2. CASE FetchReturns(r)
      <4>1. PICK n \in {0, EmptyWindow} : wait' = [wait EXCEPT !.raised = 0, !.empty = n]
        BY <3>2 DEF FetchReturns
      <4>2. QED
        BY <1>0, <3>2, <4>1 DEF FetchReturns, KeyTypes, LimitMeasures
    <3>3. CASE FetchRaises(r)
      BY <1>0, <3>3 DEF FetchRaises, KeyTypes, LimitMeasures
    <3>4. CASE RefreshOnKidMiss(r)
      <4>1. \/ wait' = wait /\ quiet' = quiet
            \/ wait' = [wait EXCEPT !.forced = ForcedWindow] /\ quiet' = 0
        BY <3>4 DEF RefreshOnKidMiss, ForcedStamp
      <4>2. QED
        BY <1>0, <3>1, <4>1 DEF KeyTypes
    <3>5. QED
      BY <1>1, <3>1, <3>2, <3>3, <3>4 DEF VerifyJwt, Arrives, FastPath, SlowPath,
         FindSigningKey, RefetchReturns, RefetchRaises, Cancelled, KeepsState
  <2>6. QED
    BY <2>1, <2>2, <2>3, <2>4, <2>5 DEF KeyTypes, CacheIsPast, LimitMeasures, RequestMoves
<1>2. CASE Rotate
  BY <1>2 DEF Rotate, KeyTypes, CacheIsPast, LimitMeasures
<1>3. CASE SecondPasses
  <2>1. \A w \in Nat : \A n \in 0..w : Down(n) \in 0..w /\ Up(n, w) \in 0..w
    BY DEF Down, Up
  <2>2. /\ wait.forced \in 0..ForcedWindow /\ wait.empty \in 0..EmptyWindow
        /\ wait.raised \in 0..RaisedWindow /\ quiet \in 0..ForcedWindow
    BY DEF KeyTypes
  <2>3. /\ Down(wait.forced) \in 0..ForcedWindow /\ Down(wait.empty) \in 0..EmptyWindow
        /\ Down(wait.raised) \in 0..RaisedWindow /\ Up(quiet, ForcedWindow) \in 0..ForcedWindow
    BY <2>1, <2>2
  <2>4. /\ wait' \in [forced : 0..ForcedWindow, empty : 0..EmptyWindow, raised : 0..RaisedWindow]
        /\ quiet' \in 0..ForcedWindow
    BY <1>3, <2>3 DEF SecondPasses
  <2>5. wait'.forced + quiet' = ForcedWindow
    BY <1>3, <2>2 DEF SecondPasses, Down, Up, LimitMeasures
  <2>6. cache' \in [set : 0..MaxGeneration, age : 0..Ttl] /\ cache'.set = cache.set
    <3>1. cache.age \in 0..Ttl /\ Up(cache.age, Ttl) \in 0..Ttl
      BY <2>1 DEF KeyTypes
    <3>2. cache' = cache \/ cache' = [cache EXCEPT !.age = Up(cache.age, Ttl)]
      BY <1>3 DEF SecondPasses
    <3>3. QED
      BY <3>1, <3>2 DEF KeyTypes
  <2>7. QED
    BY <1>3, <2>4, <2>5, <2>6 DEF SecondPasses, KeyTypes, CacheIsPast, LimitMeasures
<1>4. CASE UNCHANGED keyVars
  BY <1>4 DEF keyVars, KeyTypes, CacheIsPast, LimitMeasures
<1>5. QED
  BY <1>1, <1>2, <1>3, <1>4 DEF KeysNext

\* The invariant holds throughout.
LEMMA KeyInvariant == KeysSpec => []KeyInv
<1>1. ASSUME KeysInit PROVE KeyInv
  <2>1. \A label \in {"idle", "absent"} : NoLogin(label) \in LoginType
    BY KeysAssumption DEF NoLogin, LoginType, LoginLabels
  <2>2. PICK label \in {"idle", "absent"} : login = [r \in Logins |-> NoLogin(label)]
    BY <1>1 DEF KeysInit
  <2>3. login \in [Logins -> LoginType] /\ \A r \in Logins : login[r].pc = label
    BY <2>1, <2>2 DEF NoLogin
  <2>4. QED
    BY <1>1, <2>3, KeysAssumption
       DEF KeysInit, KeyInv, KeyTypes, FetchersHold, Fetching, CacheIsPast, LimitMeasures
<1>2. KeyInv /\ [KeysNext]_keyVars => KeyInv'
  BY StampsStep, FetchersHoldStep DEF KeyInv
<1>3. QED
  BY <1>1, <1>2, PTL DEF KeysSpec

\* The variables of the key cache keep their types.
THEOREM KeyTypesKept == KeysSpec => []KeysTypeOK
<1>1. KeyInv => KeysTypeOK
  BY DEF KeyInv, KeyTypes, KeysTypeOK, LoginType, LoginLabels
<1>2. QED
  BY <1>1, KeyInvariant, PTL

\* For any number of requests, however fetches fail, return nothing or are
\* cancelled at an await: keys once held are replaced only by newer ones, one
\* fetch runs at a time, and two forced ones are a full window apart.
THEOREM KeysAreGuarded == KeysSpec => KeysGuarded
<1>1. KeyInv => OneFetchAtATime
  <2> SUFFICES ASSUME KeyInv PROVE OneFetchAtATime
    OBVIOUS
  <2> DEFINE fetchers == {r \in Logins : login[r].pc \in {"fetch", "refetch"}}
  <2>1. fetchers = {} \/ fetchers = {holder}
    BY DEF KeyInv, FetchersHold, Fetching
  <2>2. Cardinality({}) = 0 /\ Cardinality({holder}) = 1
    BY FS_EmptySet, FS_Singleton
  <2> HIDE DEF fetchers
  <2>3. Cardinality(fetchers) <= 1
    BY <2>1, <2>2
  <2>4. QED
    BY <2>3 DEF OneFetchAtATime, fetchers
<1>2. KeyInv /\ [KeysNext]_keyVars => [cache'.set >= cache.set]_keyVars
  BY StampsStep
<1>3. KeyInv /\ [KeysNext]_keyVars =>
        [\A r \in Logins : login[r].pc = "miss" /\ login'[r].pc = "refetch" => quiet = ForcedWindow]_keyVars
  <2> SUFFICES ASSUME KeyInv, KeysNext, NEW r \in Logins, login[r].pc = "miss", login'[r].pc = "refetch"
               PROVE  quiet = ForcedWindow
    OBVIOUS
  <2>1. PICK q \in Logins : VerifyJwt(q) \/ Cancelled(q)
    BY DEF KeysNext, Rotate, SecondPasses
  <2>2. RequestMoves(q)
    BY <2>1, VerifyMoves
  <2>3. r = q
    BY <2>2 DEF RequestMoves
  <2>4. QED
    BY <2>2, <2>3 DEF RequestMoves, KeyInv, KeyTypes, LimitMeasures
<1>4. QED
  BY <1>1, <1>2, <1>3, KeyInvariant, PTL DEF KeysSpec, KeysGuarded, RealKeysKept, ForcedFetchesSpaced

-----------------------------------------------------------------------------
(* Unrouted texts: the types.                                              *)

\* The types of a janitor and of a stray text.
JanitorType == [pc : {"down", "idle", "retention", "digest"}, fired : BOOLEAN, ticked : BOOLEAN]
StrayType == [in : {"absent", "open", "resolved", "deleted"}, age : 0..Ancient]

\* What the actions build has its type.
LEMMA StrayInTyped ==
    ASSUME NEW where \in {"absent", "open", "resolved", "deleted"}, NEW age \in 0..Ancient
    PROVE  StrayIn(where, age) \in StrayType
  BY DEF StrayIn, StrayType

\* A janitor that moves on keeps its type.
LEMMA JanitorToTyped ==
    ASSUME UnroutedTypeOK, NEW t \in Janitors, NEW label \in {"idle", "retention", "digest"}, JanitorTo(t, label)
    PROVE  janitor' \in [Janitors -> JanitorType]
  BY DEF UnroutedTypeOK, JanitorTo, JanitorType

\* Every step keeps the types.
LEMMA UnroutedTypesStep ==
    ASSUME UnroutedTypeOK, [UnroutedNext]_unroutedVars
    PROVE  UnroutedTypeOK'
<1> USE UnroutedAssumption
<1>0. /\ 0 \in 0..Ancient /\ Ancient \in Nat
      /\ stray \in [Strays -> StrayType] /\ janitor \in [Janitors -> JanitorType]
      /\ janitorFaults \in 0..MaxJanitorFault
  BY DEF UnroutedTypeOK, StrayType, JanitorType, Ancient
<1>1. ASSUME stray' \in [Strays -> StrayType], janitor' \in [Janitors -> JanitorType],
             reported' \subseteq Strays, janitorFaults' \in 0..MaxJanitorFault
      PROVE  UnroutedTypeOK'
  BY <1>1 DEF UnroutedTypeOK, StrayType, JanitorType
<1>2. JanitorFault => janitorFaults' \in 0..MaxJanitorFault
  BY <1>0 DEF JanitorFault
<1>3. reported \subseteq Strays
  BY DEF UnroutedTypeOK
<1>4. ASSUME NEW r \in Strays, StrayArrives(r) PROVE UnroutedTypeOK'
  BY <1>0, <1>1, <1>3, <1>4, StrayInTyped DEF StrayArrives
<1>5. ASSUME NEW r \in Strays, OperatorResolves(r) PROVE UnroutedTypeOK'
  <2>1. stray[r].age \in 0..Ancient
    BY <1>0 DEF StrayType
  <2>2. stray' \in [Strays -> StrayType]
    BY <1>0, <1>5, <2>1, StrayInTyped DEF OperatorResolves
  <2>3. QED
    BY <1>0, <1>1, <1>3, <1>5, <2>2 DEF OperatorResolves
<1>6. ASSUME NEW t \in Janitors, JanitorStart(t) PROVE UnroutedTypeOK'
  BY <1>0, <1>1, <1>3, <1>6, JanitorToTyped DEF JanitorStart
<1>7. ASSUME NEW t \in Janitors, DeleteSome(t) PROVE UnroutedTypeOK'
  <2>1. janitor' \in [Janitors -> JanitorType]
    BY <1>0, <1>7, JanitorToTyped DEF DeleteSome
  <2>2. stray' \in [Strays -> StrayType]
    BY <1>0, <1>7, StrayInTyped DEF DeleteSome
  <2>3. QED
    BY <1>0, <1>1, <1>3, <1>7, <2>1, <2>2 DEF DeleteSome
<1>8. ASSUME NEW t \in Janitors, Digest(t) PROVE UnroutedTypeOK'
  <2>1. reported' \subseteq Strays
    BY <1>3, <1>8 DEF Digest, DueForDigest, StraysIn
  <2>2. PICK f \in BOOLEAN : janitor' = [janitor EXCEPT ![t] = [pc |-> "idle", ticked |-> TRUE, fired |-> f]]
    BY <1>0, <1>8 DEF Digest, JanitorType
  <2>3. janitor' \in [Janitors -> JanitorType]
    BY <1>0, <2>2 DEF JanitorType
  <2>4. QED
    BY <1>0, <1>1, <1>8, <2>1, <2>3 DEF Digest
<1>9. ASSUME NEW t \in Janitors, JanitorFails(t) PROVE UnroutedTypeOK'
  <2>1. janitor' \in [Janitors -> JanitorType]
    BY <1>9, JanitorToTyped DEF JanitorFails
  <2>2. QED
    BY <1>0, <1>1, <1>2, <1>3, <1>9, <2>1 DEF JanitorFails
<1>10. ASSUME NEW t \in Janitors, JanitorRestarts(t) PROVE UnroutedTypeOK'
  <2>1. janitor' \in [Janitors -> JanitorType]
    BY <1>0, <1>10 DEF JanitorRestarts, JanitorAt, JanitorType
  <2>2. QED
    BY <1>0, <1>1, <1>2, <1>3, <1>10, <2>1 DEF JanitorRestarts
<1>11. CASE JanitorDay
  <2>1. janitor' \in [Janitors -> JanitorType]
    BY <1>0, <1>11 DEF JanitorDay, JanitorType
  <2>2. ASSUME NEW r \in Strays PROVE stray'[r] \in StrayType
    <3>1. PICK n \in 0..Ancient : stray'[r] = [stray[r] EXCEPT !.age = n]
      <4>1. stray[r].age \in 0..Ancient
        BY <1>0 DEF StrayType
      <4>2. CASE stray[r].in \in {"absent", "deleted"} \/ stray[r].age = Ancient
        BY <1>11, <4>1, <4>2 DEF JanitorDay
      <4>3. CASE ~(stray[r].in \in {"absent", "deleted"} \/ stray[r].age = Ancient)
        <5>1. stray[r].age + 1 \in 0..Ancient
          BY <1>0, <4>1, <4>3
        <5>2. QED
          BY <1>11, <4>3, <5>1 DEF JanitorDay
      <4>4. QED
        BY <4>2, <4>3
    <3>2. QED
      BY <1>0, <3>1 DEF StrayType
  <2>3. stray' \in [Strays -> StrayType]
    BY <1>11, <2>2 DEF JanitorDay
  <2>4. QED
    BY <1>0, <1>1, <1>11, <2>1, <2>3 DEF JanitorDay
<1>12. CASE UNCHANGED unroutedVars
  BY <1>12 DEF unroutedVars, UnroutedTypeOK
<1>13. QED
  BY <1>4, <1>5, <1>6, <1>7, <1>8, <1>9, <1>10, <1>11, <1>12 DEF UnroutedNext, JanitorSweep

\* They hold at the start.
LEMMA UnroutedTypesInit ==
    ASSUME UnroutedInit
    PROVE  UnroutedTypeOK
<1>1. Ancient \in Nat /\ MaxJanitorFault \in Nat
  BY UnroutedAssumption DEF Ancient
<1>2. \A r \in Strays : stray[r] \in StrayType
  BY <1>1, StrayInTyped DEF UnroutedInit
<1>3. stray \in [Strays -> StrayType]
  BY <1>2 DEF UnroutedInit
<1>4. janitor \in [Janitors -> JanitorType]
  <2>1. \A label \in {"idle", "down"} : JanitorAt(label) \in JanitorType
    BY DEF JanitorAt, JanitorType
  <2>2. QED
    BY <2>1 DEF UnroutedInit
<1>5. QED
  BY <1>1, <1>3, <1>4 DEF UnroutedInit, UnroutedTypeOK, StrayType, JanitorType

-----------------------------------------------------------------------------
(* The five together, as the run has them.                                 *)

\* In the composition each of them behaves as it does alone.
LEMMA BackgroundParts ==
    Spec => TextSpec /\ PushSpec /\ ProvisioningSpec /\ KeysSpec /\ []UnroutedTypeOK
<1>1. Init => TextInit /\ PushInit /\ ProvisioningInit /\ KeysInit /\ UnroutedTypeOK
  BY UnroutedTypesInit DEF Init
<1>2. [Next]_allVars =>
        /\ [TextNext]_textVars /\ [PushNext]_pushVars /\ [ProvisioningNext]_numberVars
        /\ [KeysNext]_keyVars /\ [UnroutedNext]_unroutedVars
  BY DEF Next, allVars
<1>3. UnroutedTypeOK /\ [UnroutedNext]_unroutedVars => UnroutedTypeOK'
  BY UnroutedTypesStep
<1>4. QED
  BY <1>1, <1>2, <1>3, PTL DEF Spec, TextSpec, PushSpec, ProvisioningSpec, KeysSpec

\* Every variable of the five keeps its type, for any number of rows, devices,
\* requests and processes.
THEOREM BackgroundTypes == Spec => []BackgroundTypeOK
<1>1. TextsTypeOK /\ PushTypeOK /\ ProvisioningTypeOK /\ UnroutedTypeOK /\ KeysTypeOK => BackgroundTypeOK
  BY DEF BackgroundTypeOK
<1>2. QED
  BY <1>1, BackgroundParts, TextTypesKept, PushTypesKept, ProvisioningTypes, KeyTypesKept, PTL

\* Texts and pushes keep the promise of an outbox that several tickers drain at
\* once, and releases that of one whose rows have a single owner, for any number
\* of processes and rows.
THEOREM BackgroundOutboxes == Spec => OutboxesKeepThePromise
  BY BackgroundParts, TextsShareTheirOutbox, PushesShareTheirOutbox, ReleasesImplementOutbox, PTL
     DEF OutboxesKeepThePromise

\* The limits of the key cache hold whatever the other parts of the process do.
THEOREM BackgroundKeys == Spec => KeysGuarded
  BY BackgroundParts, KeysAreGuarded, PTL
=============================================================================
