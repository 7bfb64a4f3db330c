---------------------------- MODULE ConnectionPool ----------------------------
(***************************************************************************)
(* Who has a database connection and who waits for one (platform/db).      *)
(*                                                                         *)
(* A transaction keeps the connection it began on until it ends, also      *)
(* while it waits for a lock.  A read on the shared client takes another   *)
(* one for as long as it lasts, also when a transaction asks for it.  What *)
(* is modelled of a service is only which of its statements run where, and *)
(* which locks they take; waiting readers are served in any order, where   *)
(* the pool of pg serves them by arrival.                                  *)
(***************************************************************************)
EXTENDS Requests, Integers, Sequences

CONSTANTS
    PoolSize,      \* connection_limit, as pg's max
    MaxPoolCalls   \* bound: requests in a behaviour

VARIABLES
    work,       \* each request: what it does, the steps done, whether it failed
    inTx,       \* requests whose transaction holds a connection
    awaited,    \* reads on the shared client that wait for a connection
    reading,    \* and those that have one
    keyHeld,    \* each lock: who holds it, or Nothing
    poolCalls

poolRows == <<work, inTx, awaited, reading, keyHeld, poolCalls>>

-----------------------------------------------------------------------------
(* What runs where *)

Begin == [on |-> "begin"]
OnTx == [on |-> "tx"]
OnClient(n) == [on |-> "client", reads |-> n]   \* n reads at once
Waits(key) == [on |-> "lock", key |-> key]
Tries(key) == [on |-> "try", key |-> key]
Commit == [on |-> "commit"]

Keys == {"slot", "cart", "item"}

\* revalidateInTx: the settings; then listings, products and stock at once; all
\* on the shared client.
Revalidation == <<OnTx, OnClient(1), OnClient(3), OnTx>>

\* viewCart, addItem, placeOrder
ViewSteps == <<OnClient(1), Begin, Waits("cart")>> \o Revalidation \o <<Commit>>
AddSteps == <<Begin, Waits("cart"), OnClient(1), OnTx>> \o Revalidation \o <<Commit>>
PlaceSteps ==
    <<OnClient(1), Begin, Tries("slot"), OnTx, Waits("cart")>> \o Revalidation
        \o <<Waits("item"), OnTx, Commit>>

\* Bug: the threshold is read on the shared client.
AdjustStepsTwice == <<Begin, Waits("item"), OnTx, OnClient(1), Commit>>

\* adjustStock: applyMovement reads the threshold on the handle it was given.
AdjustSteps == <<Begin, Waits("item"), OnTx, OnTx, Commit>>

Script(call) ==
    CASE call = "view" -> ViewSteps [] call = "add" -> AddSteps
      [] call = "place" -> PlaceSteps [] OTHER -> AdjustSteps
Calls == {"view", "add", "place", "adjust"}
Work == [call : Calls, done : Nat, failed : BOOLEAN]

ASSUME PoolConstants ==
    PoolSize \in Nat \ {0} /\ MaxPoolCalls \in Nat /\ Nothing \notin Work

-----------------------------------------------------------------------------
\* Every read under way has a connection of its own.
Underway == UNION {{r} \X (1..reading[r]) : r \in Requests}
Free == PoolSize - Cardinality(inTx) - Cardinality(Underway)

Busy(r) == work[r] # Nothing
Quiet(r) == awaited[r] = 0 /\ reading[r] = 0
StepOf(r) == Script(work[r].call)[work[r].done + 1]
NextIs(r, on) == Busy(r) /\ ~work[r].failed /\ Quiet(r) /\ StepOf(r).on = on

StepDone(r) == work' = [work EXCEPT ![r].done = @ + 1]
Lets(r) == keyHeld' = [k \in Keys |-> IF keyHeld[k] = r THEN Nothing ELSE keyHeld[k]]

Call(r) ==
    /\ ~Busy(r) /\ poolCalls < MaxPoolCalls
    /\ \E c \in Calls : work' = [work EXCEPT ![r] = [call |-> c, done |-> 0, failed |-> FALSE]]
    /\ poolCalls' = poolCalls + 1
    /\ UNCHANGED <<inTx, awaited, reading, keyHeld>>

BeginTx(r) ==
    /\ NextIs(r, "begin") /\ Free > 0
    /\ inTx' = inTx \cup {r}
    /\ StepDone(r) /\ UNCHANGED <<awaited, reading, keyHeld, poolCalls>>

RunOnTx(r) ==
    /\ NextIs(r, "tx")
    /\ StepDone(r) /\ UNCHANGED <<inTx, awaited, reading, keyHeld, poolCalls>>

\* Promise.all: the reads of a step wait for a connection each.
AskClient(r) ==
    /\ NextIs(r, "client")
    /\ awaited' = [awaited EXCEPT ![r] = StepOf(r).reads]
    /\ UNCHANGED <<work, inTx, reading, keyHeld, poolCalls>>

TakeConnection(r) ==
    /\ awaited[r] > 0 /\ Free > 0
    /\ awaited' = [awaited EXCEPT ![r] = @ - 1]
    /\ reading' = [reading EXCEPT ![r] = @ + 1]
    /\ UNCHANGED <<work, inTx, keyHeld, poolCalls>>

FinishRead(r) ==
    /\ reading[r] > 0
    /\ reading' = [reading EXCEPT ![r] = @ - 1]
    /\ IF awaited[r] = 0 /\ reading[r] = 1 /\ ~work[r].failed
       THEN StepDone(r) ELSE UNCHANGED work
    /\ UNCHANGED <<inTx, awaited, keyHeld, poolCalls>>

\* A row lock is waited for, with the connection in hand.
TakeLock(r) ==
    /\ NextIs(r, "lock") /\ keyHeld[StepOf(r).key] = Nothing
    /\ keyHeld' = [keyHeld EXCEPT ![StepOf(r).key] = r]
    /\ StepDone(r) /\ UNCHANGED <<inTx, awaited, reading, poolCalls>>

\* The window's lock is tried: whoever finds it taken gives the connection back
\* and comes again, from the beginning of the transaction.
TryLock(r) ==
    /\ NextIs(r, "try")
    /\ IF keyHeld[StepOf(r).key] = Nothing
       THEN /\ keyHeld' = [keyHeld EXCEPT ![StepOf(r).key] = r]
            /\ StepDone(r) /\ UNCHANGED inTx
       ELSE /\ inTx' = inTx \ {r}
            /\ work' = [work EXCEPT ![r].done = @ - 1]
            /\ UNCHANGED keyHeld
    /\ UNCHANGED <<awaited, reading, poolCalls>>

CommitTx(r) ==
    /\ NextIs(r, "commit")
    /\ inTx' = inTx \ {r} /\ Lets(r)
    /\ work' = [work EXCEPT ![r] = Nothing]
    /\ UNCHANGED <<awaited, reading, poolCalls>>

\* The transaction took too long and is rolled back; reads it had asked for
\* still come and go.  (Who waits to begin may give up too, which frees nothing.)
Expire(r) ==
    /\ r \in inTx
    /\ inTx' = inTx \ {r} /\ Lets(r)
    /\ work' = [work EXCEPT ![r].failed = TRUE]
    /\ UNCHANGED <<awaited, reading, poolCalls>>

Fail(r) ==
    /\ Busy(r) /\ work[r].failed /\ Quiet(r)
    /\ work' = [work EXCEPT ![r] = Nothing]
    /\ UNCHANGED <<inTx, awaited, reading, keyHeld, poolCalls>>

PoolInit ==
    /\ work = [r \in Requests |-> Nothing]
    /\ inTx = {}
    /\ awaited = [r \in Requests |-> 0] /\ reading = [r \in Requests |-> 0]
    /\ keyHeld = [k \in Keys |-> Nothing]
    /\ poolCalls = 0

PoolNext ==
    \E r \in Requests :
        \/ Call(r) \/ BeginTx(r) \/ RunOnTx(r) \/ AskClient(r) \/ TakeConnection(r)
        \/ FinishRead(r) \/ TakeLock(r) \/ TryLock(r) \/ CommitTx(r) \/ Expire(r) \/ Fail(r)

PoolSpec == PoolInit /\ [][PoolNext]_poolRows

-----------------------------------------------------------------------------
(* Properties *)

\* Request r can go on without anybody's transaction being given up.
CanGoOn(r) ==
    /\ Busy(r)
    /\ \/ reading[r] > 0
       \/ awaited[r] > 0 /\ Free > 0
       \/ Quiet(r) /\ work[r].failed
       \/ /\ Quiet(r) /\ ~work[r].failed
          /\ StepOf(r).on = "begin" => Free > 0
          /\ StepOf(r).on = "lock" => keyHeld[StepOf(r).key] = Nothing

Starved == (\E r \in Requests : Busy(r)) /\ \A r \in Requests : ~CanGoOn(r)

PoolTypes ==
    /\ inTx \subseteq Requests /\ Free \in 0..PoolSize
    /\ \A k \in Keys : keyHeld[k] = Nothing \/ keyHeld[k] \in inTx
    /\ \A r \in Requests : Busy(r) => work[r].done < Len(Script(work[r].call))

\* Locks are taken in one order and movements keep to the connection they hold, so
\* when everybody waits it is for the reads of a basket
\* (stores/service.ts:640-646).
OnlyBasketsStarve ==
    Starved => \E r \in inTx : awaited[r] > 0 /\ work[r].call # "adjust"

PoolInv == PoolTypes /\ OnlyBasketsStarve

\* Concurrency is bounded by the pool for work and not for waiting
\* (checkout/service.ts:238-240): some request can always go on.
PoolIsForWork == ~Starved
=============================================================================
