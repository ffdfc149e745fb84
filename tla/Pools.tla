-------------------------------- MODULE Pools --------------------------------
(***************************************************************************)
(* The database connections one process shares out (agent/case_lock_pool,  *)
(* db/session).  Work of every kind takes connections of the admin pool    *)
(* for a moment; the case lock keeps one of a pool of its own for as long  *)
(* as a graph run takes, and the nodes inside that run take admin          *)
(* connections; some requests keep the connection they started with while  *)
(* they wait for a second one.  A checkout waits while its pool is         *)
(* exhausted and gives up after a while; a case lock that is taken is      *)
(* polled, holding no connection between two attempts.                     *)
(*                                                                         *)
(* What a job reads or writes is other modules' subject: here it only      *)
(* takes connections and gives them back.                                  *)
(***************************************************************************)
EXTENDS Naturals, FiniteSets

CONSTANTS
    Jobs,         \* pieces of work in the process
    CaseOf,       \* the case a job that takes the lock is about
    AdminSize,    \* connections of the admin engine: 5 + 5
    LockSize,     \* connections of the lock engine: 10
    RequestSize,  \* connections of the request engine, if there is one: 5 + 5
    Folded        \* APP_DATABASE_URL is unset: requests use the admin engine

ASSUME PoolsAssumption ==
    /\ IsFiniteSet(Jobs)
    /\ AdminSize \in Nat \ {0} /\ LockSize \in Nat \ {0} /\ RequestSize \in Nat \ {0}
    /\ Folded \in BOOLEAN

VARIABLES
    kind,   \* what each job is
    pc,     \* where it is
    outer   \* the jobs that hold the connection their request started with

poolVars == <<kind, pc, outer>>

Kinds == {"tick",      \* scheduled work, a status callback
          "text",      \* a text of a tenant
          "task",      \* a graph run: after such a text, or of the sweep
          "reply",     \* a landlord's text, first delivery
          "again",     \* a landlord's text, delivered again
          "stray",     \* a text to a number of no property
          "decision"}  \* approve, reject or edit on the dashboard; the creation
                       \* of a property, which asks before it ends, and takes no lock

\* These start from a connection of their own; the last three keep it while
\* they take others: a landlord's session is scoped by its transaction, and the
\* recovery and the lookup of the number leave theirs open.
Keeps == {"decision", "again", "stray"}
Opens == Keeps \union {"text", "reply"}

\* These take the case lock.
Locks == {"task", "reply", "again", "decision"}

Places == {"new", "lookup", "looking", "outer", "reading", "ask", "asking",
           "try", "trying", "sleep", "locked", "inside", "working", "done"}

Active == {j \in Jobs : pc[j] \notin {"new", "done"}}
-----------------------------------------------------------------------------
(* The pools.                                                              *)

Slots == {"outer", "brief", "lock"}

Holds(j, slot) ==
    \/ slot = "outer" /\ j \in outer
    \/ slot = "brief" /\ pc[j] \in {"looking", "asking", "working"}
    \/ slot = "lock" /\ pc[j] \in {"trying", "locked", "inside", "working"}

\* Before the lock had an engine of its own it used the admin engine.
SharedPoolOf(j, slot) ==
    IF slot = "outer" /\ kind[j] = "decision" /\ ~Folded THEN "request" ELSE "admin"

PoolOf(j, slot) ==
    CASE slot = "lock" -> "lock"
      [] slot = "outer" /\ kind[j] = "decision" /\ ~Folded -> "request"
      [] OTHER -> "admin"

Size(pool) ==
    CASE pool = "admin" -> AdminSize
      [] pool = "lock" -> LockSize
      [] pool = "request" -> RequestSize

\* The connections of a pool that are checked out, by whom and what for.
InUse(pool) == {c \in Jobs \X Slots : Holds(c[1], c[2]) /\ PoolOf(c[1], c[2]) = pool}

Exhausted(pool) == Cardinality(InUse(pool)) >= Size(pool)

\* What a job waits to check out.
Wants(j, slot) ==
    \/ slot = "outer" /\ pc[j] = "outer"
    \/ slot = "brief" /\ pc[j] \in {"lookup", "ask", "inside"}
    \/ slot = "lock" /\ pc[j] = "try"

Gets(j, slot) == Wants(j, slot) /\ ~Exhausted(PoolOf(j, slot))

\* pg_try_advisory_xact_lock would find the key of this case taken.
KeyTaken(case) == \E j \in Jobs : CaseOf[j] = case /\ pc[j] \in {"locked", "inside", "working"}
-----------------------------------------------------------------------------
PoolsInit ==
    /\ kind \in [Jobs -> Kinds]
    /\ pc = [j \in Jobs |-> "new"]
    /\ outer = {}

Moves(j, place) == pc' = [pc EXCEPT ![j] = place] /\ UNCHANGED kind

\* Everything a job holds is given back when it ends, well or badly.
End(j) == Moves(j, "done") /\ outer' = outer \ {j}

Arrive(j) ==
    /\ pc[j] = "new"
    /\ Moves(j, CASE kind[j] = "decision" -> "lookup"
                 [] kind[j] \in Opens \ {"decision"} -> "outer"
                 [] OTHER -> "ask")
    /\ UNCHANGED outer

\* require_landlord finds the account on an admin connection of its own, and
\* only then scopes the session of the request.
LookUp(j) ==
    /\ UNCHANGED outer
    /\ \/ pc[j] = "lookup" /\ Gets(j, "brief") /\ Moves(j, "looking")
       \/ pc[j] = "looking" /\ Moves(j, "outer")

Open(j) ==
    /\ Gets(j, "outer")
    /\ Moves(j, "reading")
    /\ outer' = outer \union {j}

\* The first reads are done.  A text that is stored is committed, and its
\* connection is back, before anything else is done about it.
Read(j) ==
    /\ pc[j] = "reading"
    /\ Moves(j, "ask")
    /\ outer' = IF kind[j] \in Keeps THEN outer ELSE outer \ {j}

\* A checkout of the moment: an isolated session, the peek at the case, the
\* nodes before the lock.
Ask(j) ==
    /\ pc[j] = "ask" /\ Gets(j, "brief")
    /\ Moves(j, "asking") /\ UNCHANGED outer

Answer(j) ==
    /\ pc[j] = "asking"
    /\ \/ Moves(j, "ask") /\ UNCHANGED outer
       \/ kind[j] \in Locks /\ Moves(j, "try") /\ UNCHANGED outer
       \/ End(j)

\* One attempt at the lock; a failed one gives its connection back and sleeps.
Attempt(j) ==
    /\ UNCHANGED outer
    /\ \/ pc[j] = "try" /\ Gets(j, "lock") /\ Moves(j, "trying")
       \/ /\ pc[j] = "trying"
          /\ Moves(j, IF KeyTaken(CaseOf[j]) THEN "sleep" ELSE "locked")
       \/ pc[j] = "sleep" /\ Moves(j, "try")

\* CaseLockAcquisitionTimeoutError: the key stayed taken for thirty seconds.
GiveUp(j) == pc[j] = "sleep" /\ End(j)

\* The nodes of the locked span; the decision on a draft that never paused
\* uses the lock's own session only.
Work(j) ==
    /\ UNCHANGED outer
    /\ \/ pc[j] = "locked" /\ Moves(j, "inside")
       \/ pc[j] = "inside" /\ Gets(j, "brief") /\ Moves(j, "working")
       \/ pc[j] = "working" /\ Moves(j, "locked")

\* A decision whose thread was not waiting looks at the draft again, and may
\* take the lock a second time.
LeaveLock(j) ==
    /\ pc[j] = "locked"
    /\ \/ End(j)
       \/ kind[j] # "task" /\ Moves(j, "ask") /\ UNCHANGED outer

\* pool_timeout: thirty seconds, ten for the lock.
CheckoutTimeout(j) ==
    /\ \E slot \in Slots : Wants(j, slot) /\ Exhausted(PoolOf(j, slot))
    /\ End(j)

PoolsNext ==
    \E j \in Jobs :
        \/ Arrive(j) \/ LookUp(j) \/ Open(j) \/ Read(j) \/ Ask(j) \/ Answer(j)
        \/ Attempt(j) \/ GiveUp(j) \/ Work(j) \/ LeaveLock(j) \/ CheckoutTimeout(j)

PoolsSpec == PoolsInit /\ [][PoolsNext]_poolVars
-----------------------------------------------------------------------------
(* The properties.                                                         *)

PoolsTypeOK ==
    /\ kind \in [Jobs -> Kinds]
    /\ pc \in [Jobs -> Places]
    /\ outer \subseteq Jobs

\* Nothing but a timeout moves this job on: the pool it draws from is exhausted,
\* or it polls for a key that is taken.
Stuck(j) ==
    \/ \E slot \in Slots : Wants(j, slot) /\ Exhausted(PoolOf(j, slot))
    \/ pc[j] \in {"try", "trying", "sleep"} /\ KeyTaken(CaseOf[j])

Wedged == Active # {} /\ \A j \in Active : Stuck(j)

\* Admin connections of requests that keep one while they wait for another.
Kept == {c \in InUse("admin") : c[2] = "outer" /\ kind[c[1]] \in Keeps}

\* The jobs of a process never all wait for each other, however many graph runs
\* hold the lock of their case at once and whatever polls for it, unless as many
\* texts to unknown numbers, redelivered replies and (without a request engine)
\* dashboard requests as the admin pool has connections keep one each: the lock
\* draws from its own engine, and nothing inside it waits for that engine again
\* (case_lock_pool.py, "ten concurrent case runs can now genuinely complete").
WedgedByKeepersOnly == Wedged => Cardinality(Kept) >= AdminSize
=============================================================================
