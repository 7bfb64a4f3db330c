--------------------------- MODULE ProductRequests ---------------------------
(***************************************************************************)
(* Products a shopper asks a shop to carry: the capped public intake and   *)
(* the triage by the shop's manager (product-requests/service.ts, repo.ts  *)
(* and domain).                                                            *)
(*                                                                         *)
(* The caps are counted and the row inserted under the shop's intake lock, *)
(* which is tried and never waited for.  A triage step locks the row.      *)
(***************************************************************************)
EXTENDS Requests, Sequences

CONSTANTS
    Submitters,       \* submitter keys: an account, a phone or a client
    Wishes,           \* product keys
    PerSubmitter,     \* INTAKE_LIMITS.perSubmitter.max
    PerStore,         \* INTAKE_LIMITS.perStore.max
    LongWindow,       \* the submitter's and the duplicates' window
    ShortWindow,      \* the shop's window
    MaxTime,          \* bound: the clock
    MaxIntakeCalls    \* bound: requests served in one behaviour

ASSUME IntakeConstants ==
    /\ {PerSubmitter, PerStore, LongWindow, ShortWindow, MaxTime, MaxIntakeCalls} \subseteq Nat

VARIABLES
    today,       \* the time
    asks,        \* ProductRequest rows, in the order they were inserted
    trail,       \* for each row its history rows: [from, to]
    intakeLock,  \* the request holding a shop's intake lock
    triageLock   \* the rows locked for a triage step, and by whom

intakeVars == <<request, today, asks, trail, intakeLock, triageLock>>

RequestStatuses == {"NEW", "REVIEWED", "PLANNED", "DECLINED", "FULFILLED"}

Asks == [store : Stores, submitter : Submitters, product : Wishes, at : Nat, status : RequestStatuses]

\* REQUEST_TRANSITIONS
RequestTransitions ==
    [NEW |-> {"REVIEWED", "PLANNED", "DECLINED", "FULFILLED"},
     REVIEWED |-> {"PLANNED", "DECLINED", "FULFILLED"},
     PLANNED |-> {"REVIEWED", "DECLINED", "FULFILLED"},
     DECLINED |-> {"REVIEWED"},
     FULFILLED |-> {}]

\* assertRequestTransition: declining needs a note.
MayTriage(from, to, noted) ==
    /\ to \in RequestTransitions[from]
    /\ to = "DECLINED" => noted

-----------------------------------------------------------------------------
(* Submitting *)

Since(window) == {n \in DOMAIN asks : asks[n].at + window >= today}

\* hasRecentDuplicate, countRecentForSubmitter, countRecentForStore
Refused(j) ==
    LET mine == {n \in Since(LongWindow) :
                    asks[n].store = j.store /\ asks[n].submitter = j.submitter}
        shops == {n \in Since(ShortWindow) : asks[n].store = j.store}
    IN \/ \E n \in mine : asks[n].product = j.product
       \/ Cardinality(mine) >= PerSubmitter
       \/ Cardinality(shops) >= PerStore

\* Only a shopper asks, of the shop the delivery area resolved to.
AskForProduct(r) ==
    /\ served < MaxIntakeCalls
    /\ \E s \in Stores, who \in Submitters, p \in Wishes :
         Starts(r, Shopper(s), [op |-> "submit", store |-> s, submitter |-> who, product |-> p],
                "asked", Nothing)
    /\ UNCHANGED <<today, asks, trail, intakeLock, triageLock>>

\* Bug: the caps are counted without the lock.
CountIntakeUnlocked(r) ==
    /\ pc[r] = "asked" /\ job[r].op = "submit"
    /\ IF Refused(job[r]) THEN Answered(r) ELSE GoesOn(r, "counted", [at |-> today])
    /\ UNCHANGED <<today, asks, trail, intakeLock, triageLock>>

\* tryAdvisoryXactLock, then the counts: a busy shop refuses.
CountIntake(r) ==
    /\ pc[r] = "asked" /\ job[r].op = "submit"
    /\ IF intakeLock[job[r].store] # Nothing \/ Refused(job[r])
       THEN /\ Answered(r)
            /\ UNCHANGED intakeLock
       ELSE /\ GoesOn(r, "counted", [at |-> today])
            /\ intakeLock' = [intakeLock EXCEPT ![job[r].store] = r]
    /\ UNCHANGED <<today, asks, trail, triageLock>>

\* insertRequest, with the opening row of its history.
InsertRequest(r) ==
    /\ pc[r] = "counted"
    /\ asks' = Append(asks, [store |-> job[r].store, submitter |-> job[r].submitter,
                             product |-> job[r].product, at |-> seen[r].at, status |-> "NEW"])
    /\ trail' = Append(trail, <<[from |-> "none", to |-> "NEW"]>>)
    /\ intakeLock' = [s \in Stores |-> IF intakeLock[s] = r THEN Nothing ELSE intakeLock[s]]
    /\ Answered(r)
    /\ UNCHANGED <<today, triageLock>>

-----------------------------------------------------------------------------
(* Triage *)

\* The form asks for a note with a decline before the service does; with any
\* other step a note decides nothing.
AskTriage(r) ==
    /\ served < MaxIntakeCalls
    /\ \E n \in DOMAIN asks, to \in RequestStatuses, noted \in BOOLEAN :
         /\ noted = (to = "DECLINED")
         /\ Starts(r, User("STORE_MANAGER", asks[n].store),
                   [op |-> "triage", row |-> n, to |-> to, noted |-> noted], "asked", Nothing)
    /\ UNCHANGED <<today, asks, trail, intakeLock, triageLock>>

MayMove(r, status) ==
    /\ Authorized(caller[r], "product-request:manage", asks[job[r].row].store)
    /\ MayTriage(status, job[r].to, job[r].noted)

\* Bug: the request is read without its lock.
LockRequestNever(r) ==
    /\ pc[r] = "asked" /\ job[r].op = "triage"
    /\ LET status == asks[job[r].row].status IN
         IF MayMove(r, status) THEN GoesOn(r, "locked", [status |-> status]) ELSE Answered(r)
    /\ UNCHANGED <<today, asks, trail, intakeLock, triageLock>>

\* lockRequest, and the step checked on the row as it is under the lock.
LockRequest(r) ==
    /\ pc[r] = "asked" /\ job[r].op = "triage"
    /\ \A l \in triageLock : l[1] # job[r].row
    /\ LET status == asks[job[r].row].status IN
         IF MayMove(r, status)
         THEN /\ GoesOn(r, "locked", [status |-> status])
              /\ triageLock' = triageLock \cup {<<job[r].row, r>>}
         ELSE /\ Answered(r)
              /\ UNCHANGED triageLock
    /\ UNCHANGED <<today, asks, trail, intakeLock>>

\* setStatus and insertHistory in one transaction.
Triage(r) ==
    /\ pc[r] = "locked"
    /\ asks' = [asks EXCEPT ![job[r].row].status = job[r].to]
    /\ trail' = [trail EXCEPT ![job[r].row] = Append(@, [from |-> seen[r].status, to |-> job[r].to])]
    /\ triageLock' = {l \in triageLock : l[2] # r}
    /\ Answered(r)
    /\ UNCHANGED <<today, intakeLock>>

\* Bound: time passes once something was asked; only differences of times matter.
PassTime ==
    /\ today < MaxTime /\ asks # <<>>
    /\ today' = today + 1
    /\ UNCHANGED <<request, asks, trail, intakeLock, triageLock>>

-----------------------------------------------------------------------------
IntakeInit ==
    /\ RequestsInit
    /\ today = 0
    /\ asks = <<>>
    /\ trail = <<>>
    /\ intakeLock = [s \in Stores |-> Nothing]
    /\ triageLock = {}

IntakeNext ==
    \/ PassTime
    \/ \E r \in Requests :
         \/ AskForProduct(r) \/ CountIntake(r) \/ InsertRequest(r)
         \/ AskTriage(r) \/ LockRequest(r) \/ Triage(r)

IntakeSpec == IntakeInit /\ [][IntakeNext]_intakeVars

-----------------------------------------------------------------------------
(* Properties *)

\* The history of a request is one path through the triage table that starts
\* at NEW and ends at its status: a fulfilled request is never moved again, a
\* declined one only reopened, whoever triages at once (repo.ts lockRequest).
TrailIsOnePath ==
    \A n \in DOMAIN asks :
        LET h == trail[n] IN
        /\ h[1] = [from |-> "none", to |-> "NEW"]
        /\ h[Len(h)].to = asks[n].status
        /\ \A k \in 2..Len(h) : h[k].from = h[k - 1].to /\ h[k].to \in RequestTransitions[h[k].from]

\* Types; whoever counted holds the shop's intake, whoever checked a step the row;
\* the histories are paths.
IntakeInv ==
    /\ asks \in Seq(Asks)
    /\ Len(trail) = Len(asks)
    /\ \A r \in Requests :
         /\ pc[r] \in {"idle", "asked", "counted", "locked"}
         /\ pc[r] = "counted" => intakeLock[job[r].store] = r
         /\ pc[r] = "locked" => <<job[r].row, r>> \in triageLock
                                /\ asks[job[r].row].status = seen[r].status
    /\ TrailIsOnePath

Within(window, t) == {n \in DOMAIN asks : asks[n].at <= t /\ asks[n].at + window >= t}

\* In no window of time does one submitter leave more than a handful of
\* requests with a shop, or ask twice for one product, or a shop take more than
\* its trickle, however many submissions arrive at once (domain INTAKE_LIMITS).
CapsHold ==
    \A s \in Stores, t \in 0..MaxTime :
        /\ Cardinality({n \in Within(ShortWindow, t) : asks[n].store = s}) <= PerStore
        /\ \A who \in Submitters :
             LET mine == {n \in Within(LongWindow, t) :
                            asks[n].store = s /\ asks[n].submitter = who} IN
             /\ Cardinality(mine) <= PerSubmitter
             /\ \A m, n \in mine : asks[m].product = asks[n].product => m = n
=============================================================================
