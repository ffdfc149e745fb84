-------------------------------- MODULE Push --------------------------------
(***************************************************************************)
(* Push messages: the devices a landlord registers and removes             *)
(* (routers/devices.py), the fan-out of "a reply is waiting" to them       *)
(* (nodes/await_approval.py) and the sweep that drains it                  *)
(* (push_outbox.py, integrations/expo_push.py).                            *)
(*                                                                         *)
(* A device is a row of push_tokens; whoever registers its token last owns *)
(* it.  The row of a deleted device is gone for good, and its outbox rows  *)
(* with it.  Time is counted in ticks and passes between them.             *)
(***************************************************************************)
EXTENDS Naturals

CONSTANTS
    Devices,
    Landlords,
    Recipient,        \* the landlord whose drafts are announced
    Drafts,           \* drafts that wait for him
    Pushers,          \* processes that run the sweep
    MaxPushAttempts,  \* _PUSH_MAX_ATTEMPTS
    RetryWait,        \* _PUSH_RETRY_INTERVAL_SECONDS, in ticks
    MaxRegistration,  \* bound: registrations and removals
    MaxPushFault      \* bound: lost responses, database errors, crashes

ASSUME PushAssumption ==
    /\ Recipient \in Landlords
    /\ MaxPushAttempts \in Nat \ {0} /\ RetryWait \in Nat
    /\ MaxRegistration \in Nat /\ MaxPushFault \in Nat

VARIABLES
    device,        \* push_tokens rows
    push,          \* push_outbox rows, one per draft and device
    pusher,        \* per process: where its tick is
    called,        \* rows that Expo was called for
    strays,        \* rows sent to a device that had left its landlord before the tick
    registration,  \* registrations and removals still to come
    pushFault

pushVars == <<device, push, pusher, called, strays, registration, pushFault>>

PushRows == Drafts \X Devices
NoPush == [status |-> "absent", attempt |-> 0, wait |-> 0, gone |-> FALSE]
Quiet == [pc |-> "rest", todo |-> {}, cur |-> <<>>, moved |-> {}]

PushInit ==
    /\ device = [d \in Devices |-> [status |-> "unknown", owner |-> Recipient]]
    /\ push = [r \in PushRows |-> NoPush]
    /\ pusher = [k \in Pushers |-> Quiet]
    /\ called = {} /\ strays = {}
    /\ registration \in {0, MaxRegistration} /\ pushFault = MaxPushFault

-----------------------------------------------------------------------------
(* Devices and the fan-out.                                                *)

\* INSERT ... ON CONFLICT (token) DO UPDATE: the row moves, and is trusted again.
Register(l, d) ==
    /\ registration > 0 /\ registration' = registration - 1
    /\ device[d].status # "deleted"
    /\ device' = [device EXCEPT ![d] = [status |-> "live", owner |-> l]]
    /\ pusher' = [k \in Pushers |-> [pusher[k] EXCEPT
                     !.moved = IF device[d].owner # l THEN @ \union {d} ELSE @]]
    /\ UNCHANGED <<push, called, strays, pushFault>>

\* Both foreign keys of push_outbox cascade.
Unregister(l, d) ==
    /\ registration > 0 /\ registration' = registration - 1
    /\ device[d].status \in {"live", "revoked"} /\ device[d].owner = l
    /\ device' = [device EXCEPT ![d].status = "deleted"]
    /\ push' = [r \in PushRows |-> IF r[2] = d THEN [push[r] EXCEPT !.gone = TRUE] ELSE push[r]]
    /\ UNCHANGED <<pusher, called, strays, pushFault>>

\* One row per live device of the landlord, unless the draft has one already.
Announced(n, d) == device[d].status = "live" /\ device[d].owner = Recipient /\ push[<<n, d>>].status = "absent"
Announce(n) ==
    /\ \E d \in Devices : Announced(n, d)
    /\ push' = [r \in PushRows |-> IF r[1] = n /\ Announced(n, r[2])
                  THEN [push[r] EXCEPT !.status = "pending"] ELSE push[r]]
    /\ UNCHANGED <<device, pusher, called, strays, registration, pushFault>>

-----------------------------------------------------------------------------
(* One tick of the sweep.                                                  *)

PendingPush(r) == push[r].status = "pending" /\ ~push[r].gone
Owned(r) == device[r[2]].owner = Recipient

\* The tickers that run now begin a tick: those of two machines on a deploy.
PushTick ==
    /\ \A k \in Pushers : pusher[k].pc = "rest"
    /\ \E r \in PushRows : PendingPush(r)
    /\ \E up \in SUBSET Pushers \ {{}} :
         pusher' = [k \in Pushers |-> IF k \in up THEN [Quiet EXCEPT !.pc = "orphans"] ELSE Quiet]
    /\ push' = [r \in PushRows |-> [push[r] EXCEPT !.wait = IF @ = 0 THEN 0 ELSE @ - 1]]
    /\ UNCHANGED <<device, called, strays, registration, pushFault>>

\* _MARK_ORPHANED_ROWS_SQL: every pending row whose device has moved.
Orphaned(r) == PendingPush(r) /\ ~Owned(r)
MarkOrphans(k) ==
    /\ pusher[k].pc = "orphans"
    /\ push' = [r \in PushRows |-> IF Orphaned(r) THEN [push[r] EXCEPT !.status = "failed"] ELSE push[r]]
    /\ pusher' = [pusher EXCEPT ![k].pc = "select"]
    /\ UNCHANGED <<device, called, strays, registration, pushFault>>

\* Mutant: the join is on the device alone.
SelectedAny(r) == PendingPush(r) /\ push[r].wait = 0
\* _SELECT_DUE_PUSH_OUTBOX_SQL, with its join on the owner.
Selected(r) == PendingPush(r) /\ push[r].wait = 0 /\ Owned(r)
SelectPush(k) ==
    /\ pusher[k].pc = "select"
    /\ pusher' = [pusher EXCEPT ![k] = [pc |-> "claim", cur |-> <<>>, moved |-> {},
                     todo |-> {[row |-> r, attempt |-> push[r].attempt,
                                revoked |-> device[r[2]].status = "revoked"] : r \in {r \in PushRows : Selected(r)}}]]
    /\ UNCHANGED <<device, push, called, strays, registration, pushFault>>

\* Nothing is left, or the deadline has passed.
EndPush(k) ==
    /\ pusher[k].pc = "claim" /\ pusher' = [pusher EXCEPT ![k] = Quiet]
    /\ pusher[k].todo = {} \/ pusher[k].cur # <<>>
    /\ UNCHANGED <<device, push, called, strays, registration, pushFault>>

\* The claim spends the attempt and pushes the next one away before the call.
ClaimPush(k) ==
    /\ pusher[k].pc = "claim"
    /\ \E e \in pusher[k].todo :
         LET r == e.row
             won == PendingPush(r) /\ push[r].attempt = e.attempt
         IN /\ push' = IF won THEN [push EXCEPT ![r].attempt = @ + 1, ![r].wait = RetryWait] ELSE push
            /\ pusher' = [pusher EXCEPT ![k] = [pusher[k] EXCEPT !.todo = @ \ {e}, !.cur = <<e>>,
                             !.pc = IF ~won THEN "claim" ELSE IF e.revoked THEN "failed" ELSE "send"]]
    /\ UNCHANGED <<device, called, strays, registration, pushFault>>

Entry(k) == pusher[k].cur[1]
LastTry(e) == e.attempt + 1 >= MaxPushAttempts
GoesOn(k, label) == pusher' = [pusher EXCEPT ![k].pc = label]
\* A transient failure was paid for by the claim; only the last one is written.
AfterTransient(k) == GoesOn(k, IF LastTry(Entry(k)) THEN "exhausted" ELSE "claim")

SendPush(k) ==
    /\ pusher[k].pc = "send"
    /\ LET r == Entry(k).row IN
       /\ called' = called \union {r}
       /\ strays' = IF ~Owned(r) /\ r[2] \notin pusher[k].moved THEN strays \union {r} ELSE strays
    /\ GoesOn(k, "sent") \/ GoesOn(k, "dead") \/ AfterTransient(k)
    /\ UNCHANGED <<device, push, registration, pushFault>>

\* WHERE id = :id; a row that cascaded away is not there to update.
Conclude(k, status) ==
    /\ LET r == Entry(k).row IN
       push' = IF push[r].gone THEN push ELSE [push EXCEPT ![r].status = status]
    /\ GoesOn(k, "claim")
    /\ UNCHANGED <<called, strays, registration, pushFault>>

ConcludePush(k) ==
    /\ pusher[k].pc \in {"sent", "failed", "exhausted"}
    /\ Conclude(k, pusher[k].pc) /\ UNCHANGED device

\* DeviceNotRegistered: the token is revoked, whoever owns it by now.
RevokeDevice(k) ==
    /\ pusher[k].pc = "dead"
    /\ LET d == Entry(k).row[2] IN
       device' = IF device[d].status = "live" THEN [device EXCEPT ![d].status = "revoked"] ELSE device
    /\ Conclude(k, "failed")

\* No candidate has a wrapper of its own: an exception ends the tick, like a crash.
PushError(k) ==
    /\ pushFault > 0 /\ pushFault' = pushFault - 1
    /\ pusher[k].pc # "rest" /\ pusher' = [pusher EXCEPT ![k] = Quiet]
    /\ UNCHANGED <<device, push, called, strays, registration>>

-----------------------------------------------------------------------------
PushStep(k) ==
    MarkOrphans(k) \/ SelectPush(k) \/ EndPush(k) \/ ClaimPush(k)
        \/ SendPush(k) \/ ConcludePush(k) \/ RevokeDevice(k)
PushNext ==
    \/ \E d \in Devices, l \in Landlords : Register(l, d) \/ Unregister(l, d)
    \/ \E n \in Drafts : Announce(n)
    \/ PushTick
    \/ \E k \in Pushers : PushStep(k) \/ PushError(k)

PushSpec == PushInit /\ [][PushNext]_pushVars

PushFairness == WF_pushVars(PushTick) /\ \A k \in Pushers : WF_pushVars(PushStep(k))
-----------------------------------------------------------------------------
PushTypeOK ==
    /\ device \in [Devices -> [status : {"unknown", "live", "revoked", "deleted"}, owner : Landlords]]
    /\ push \in [PushRows -> [status : {"absent", "pending", "sent", "failed", "exhausted"},
                              attempt : Nat, wait : 0..RetryWait, gone : BOOLEAN]]
    /\ \A k \in Pushers : pusher[k].pc \in
         {"rest", "orphans", "select", "claim", "send", "sent", "dead", "failed", "exhausted"}
    /\ called \subseteq PushRows
    /\ registration \in 0..MaxRegistration /\ pushFault \in 0..MaxPushFault

\* A push is never sent to a device that had passed to another landlord before
\* the tick chose its rows.
NoStrayPush == strays = {}

\* The comment of _MARK_ORPHANED_ROWS_SQL: whoever settles a row first wins, and
\* it is never written twice.
Settled == {"sent", "failed", "exhausted"}
NeverWrittenTwice ==
    [][\A r \in PushRows : push[r].status \in Settled => push'[r].status = push[r].status]_pushVars

\* Every row comes to an end, also one whose device has moved or was removed:
\* time and again none is pending.
PushSettles == []<>(\A r \in PushRows : ~PendingPush(r))

\* However many tickers sweep at once: a row is claimed only while it waits, only
\* who has claimed it calls Expo for it or writes what it answered, and it is
\* marked sent only after the call.  A pending row may be given up over their
\* heads, when its device moves to another landlord or is removed.
PushState(r) ==
    CASE push[r].status = "absent" -> "absent"
      [] push[r].status = "sent" -> "done"
      [] PendingPush(r) -> "open"
      [] OTHER -> "dropped"
Calling(k) == pusher[k].pc \in {"send", "sent", "dead", "failed", "exhausted"}
PushOutbox == INSTANCE SharedOutbox WITH
    Row <- PushRows, Drainer <- Pushers,
    state <- [r \in PushRows |-> PushState(r)],
    took <- [r \in PushRows |-> r \in called],
    hands <- [r \in PushRows |-> {k \in Pushers : Calling(k) /\ Entry(k).row = r}]
PushKeepsThePromise == PushOutbox!SharedOutboxSpec
=============================================================================
