------------------------------ MODULE MCBackground ----------------------------
(***************************************************************************)
(* The outboxes beside the emergency chain, the upkeep of unrouted texts   *)
(* and the signing keys, in one run: they share no state, so at most one   *)
(* of them has work to do in a behaviour.  Where two machines send texts   *)
(* or pushes, as on a deploy, there are fewer of them.                     *)
(***************************************************************************)
EXTENDS Texts, Push, Provisioning, Unrouted, Keys

CONSTANTS m1, a, b, d1, d2, n1, k1, k2, q1, q2

OneJanitor == {m1}
TwoMachines == {k1, k2}
OneDraft == {n1}
TwoDevices == {d1, d2}
TwoLandlords == {a, b}
TwoCreates == {q1, q2}
SameStreet == [q \in TwoCreates |-> 1]

Row1(kind, line) == [kind |-> kind, line |-> line, case |-> 1]
NoLetters == [r \in Letters |-> Row1("unused", "none")]
\* Notices in front of one that can be sent; confirmations that are refused;
\* both passes; a landlord without a number.
Refusals == <<Row1("ready", "stopped"), Row1("ready", "stopped"), Row1("ready", "ok")>>
Confirmations == <<Row1("ready", "stopped"), Row1("confirmation", "stopped"), Row1("confirmation", "ok")>>
BothPasses == <<Row1("ack", "stopped"), Row1("ready", "ok"), Row1("ack", "ok")>>
NoNumber == <<Row1("ack", "none"), Row1("ready", "ok"), Row1("ready", "ok")>>
\* For two machines: what is retried, given up, and drained in both passes.
Unused == Row1("unused", "none")
LastConfirmation == <<Row1("confirmation", "stopped"), Row1("ready", "ok"), Unused>>
AckAndConfirmation == <<Row1("ack", "ok"), Row1("confirmation", "ok"), Unused>>
SharedShapes == {NoLetters, LastConfirmation, AckAndConfirmation}
LetterShapes == {Refusals, Confirmations, BothPasses, NoNumber} \cup SharedShapes

TwoLogins == {q1, q2}
TwoStrays == 1..2

Work == {"texts", "push", "numbers", "strays", "keys"}
Busy(w) ==
    CASE w = "texts" -> letter # NoLetters
      [] w = "push" -> registration > 0
      [] w = "numbers" -> \E q \in Creates : create[q] # "end"
      [] w = "strays" -> Serviced
      [] w = "keys" -> login[Visitor].pc # "absent"

VARIABLE overlap  \* both machines send texts and pushes, or only the first

allVars == <<textVars, pushVars, numberVars, unroutedVars, keyVars, overlap>>

Init ==
    /\ TextInit /\ PushInit /\ ProvisioningInit /\ UnroutedInit /\ KeysInit
    /\ overlap \in BOOLEAN
    /\ IF overlap THEN letter \in SharedShapes /\ (Busy("texts") \/ Busy("push"))
       ELSE letter \notin SharedShapes \ {NoLetters}
    /\ \E w \in Work : \A v \in Work : Busy(v) => v = w
    /\ Serviced \/ \A r \in Strays : stray[r].in = "absent"

\* One machine is down, or the landlord has only one device.
Crew ==
    IF overlap THEN device'[d2] = device[d2]
    ELSE mailer'[k2].pc = "rest" /\ pusher'[k2].pc = "rest"

Next ==
  /\ \/ TextNext /\ UNCHANGED <<pushVars, numberVars, unroutedVars, keyVars>>
     \/ PushNext /\ UNCHANGED <<textVars, numberVars, unroutedVars, keyVars>>
     \/ ProvisioningNext /\ UNCHANGED <<textVars, pushVars, unroutedVars, keyVars>>
     \/ Serviced /\ UnroutedNext /\ UNCHANGED <<textVars, pushVars, numberVars, keyVars>>
     \/ Busy("keys") /\ KeysNext /\ UNCHANGED <<textVars, pushVars, numberVars, unroutedVars>>
  /\ UNCHANGED overlap /\ Crew

Spec ==
    /\ Init /\ [][Next]_allVars
    /\ TextFairness /\ PushFairness /\ ProvisioningFairness /\ UnroutedFairness /\ KeysFairness

-----------------------------------------------------------------------------
(* The properties of the five, one of each sort.                           *)

\* Every variable of every outbox and sweep keeps its type.
BackgroundTypeOK ==
    TextsTypeOK /\ PushTypeOK /\ ProvisioningTypeOK /\ UnroutedTypeOK /\ KeysTypeOK

\* Texts and pushes keep the promise of an outbox that several machines drain,
\* SharedOutbox; releases that of one whose rows have a single owner, Outbox.
OutboxesKeepThePromise == TextsKeepThePromise /\ PushKeepsThePromise /\ ReleasesKeepThePromise

\* What waits is dealt with in the end: no row starves behind others, pushes
\* settle, numbers nobody owns are given back, stray texts are reported or
\* deleted, and a visitor with a current token is let in.
EverythingDrains == NobodyStarves /\ PushSettles /\ StraysEnd /\ StraysHandled /\ DoorsReopen

\* Keys are never lost to an empty answer, and however many requests miss
\* theirs, fetches run one at a time and forced ones are a window apart.
KeysGuarded == RealKeysKept /\ ForcedFetchesSpaced /\ []OneFetchAtATime
=============================================================================
