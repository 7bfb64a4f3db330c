---------------------------- MODULE AddressBook ----------------------------
(***************************************************************************)
(* One shopper's address book, changed from several tabs at once           *)
(* (customers/service.ts, customers/repo.ts).                              *)
(*                                                                         *)
(* Which address is the default is a statement about the whole book, so    *)
(* every change holds one advisory lock, and decides after it.  The        *)
(* statements of a transaction see what was committed before them; what    *)
(* they write is seen by the others at the commit.                         *)
(***************************************************************************)
EXTENDS Requests

CONSTANTS
    MaxAddresses,     \* bound: addresses ever saved; numbered by their age
    MaxAddressCalls   \* bound: requests served in one behaviour

ASSUME AddressConstants == MaxAddresses \in Nat /\ MaxAddressCalls \in Nat

VARIABLES
    live,      \* addresses not deleted
    defaults,  \* addresses marked as the default
    saved,     \* addresses ever saved
    bookLock   \* the request holding the address book, or Nothing

bookVars == <<request, live, defaults, saved, bookLock>>

Addresses == 1..MaxAddresses

AddressJobs ==
    [op : {"add"}, address : {0}, makeDefault : BOOLEAN]
        \cup [op : {"update"}, address : Addresses, makeDefault : BOOLEAN]
        \cup [op : {"remove"}, address : Addresses, makeDefault : {FALSE}]

\* What a transaction is going to commit.
Plan(put, drop, mark, unmark) ==
    [put |-> put, drop |-> drop, mark |-> mark, unmark |-> unmark]

\* clearDefaults: every other default there is.
OtherDefaults(a) == defaults \ {a}

\* addAddress: the first address is the default whether asked for or not.
PlanAdd(makeDefault) ==
    LET a == saved + 1
        isDefault == makeDefault \/ live = {}
    IN Plan({a}, {}, IF isDefault THEN {a} ELSE {}, IF isDefault THEN OtherDefaults(a) ELSE {})

\* updateAddress makes an address the default, or leaves that as it is.
PlanUpdate(a, makeDefault) ==
    Plan({}, {}, IF makeDefault THEN {a} ELSE {}, IF makeDefault THEN OtherDefaults(a) ELSE {})

\* removeAddress hands the default on, to the oldest address that remains.
Oldest(S) == {a \in S : \A b \in S : a <= b}

PlanRemove(a) ==
    Plan({}, {a}, IF a \in defaults THEN Oldest(live \ {a}) ELSE {}, {a})

-----------------------------------------------------------------------------
\* The fields are validated; the area has to be one somebody delivers to.
AskAddress(r) ==
    /\ served < MaxAddressCalls
    /\ \E j \in AddressJobs :
         /\ j.op # "add" => j.address \in live
         /\ Starts(r, Nothing, j, "asked", Nothing)
    /\ UNCHANGED <<live, defaults, saved, bookLock>>

\* requireOwnedAddress, or for a new address the count; then the decision.
Decision(r) ==
    CASE job[r].op = "add" -> PlanAdd(job[r].makeDefault)
      [] job[r].op = "update" -> PlanUpdate(job[r].address, job[r].makeDefault)
      [] job[r].op = "remove" -> PlanRemove(job[r].address)

CanDecide(r) == job[r].op # "add" => job[r].address \in live

\* An address saved has a number of its own.
Saved(r) == IF job[r].op = "add" THEN saved + 1 ELSE saved

\* Bug: the book is not locked.
DecideUnlocked(r) ==
    /\ pc[r] = "asked"
    /\ job[r].op = "add" => saved < MaxAddresses
    /\ IF CanDecide(r)
       THEN /\ GoesOn(r, "decided", Decision(r))
            /\ saved' = Saved(r)
       ELSE /\ Answered(r)
            /\ UNCHANGED saved
    /\ UNCHANGED <<live, defaults, bookLock>>

\* lockAddressBook, and everything that is read is read after it.
Decide(r) ==
    /\ pc[r] = "asked"
    /\ bookLock = Nothing
    /\ job[r].op = "add" => saved < MaxAddresses
    /\ IF CanDecide(r)
       THEN /\ GoesOn(r, "decided", Decision(r))
            /\ saved' = Saved(r)
            /\ bookLock' = r
       ELSE /\ Answered(r)
            /\ UNCHANGED <<saved, bookLock>>
    /\ UNCHANGED <<live, defaults>>

CommitAddress(r) ==
    /\ pc[r] = "decided"
    /\ live' = (live \ seen[r].drop) \cup seen[r].put
    /\ defaults' = (defaults \ seen[r].unmark) \cup seen[r].mark
    /\ bookLock' = IF bookLock = r THEN Nothing ELSE bookLock
    /\ Answered(r)
    /\ UNCHANGED saved

-----------------------------------------------------------------------------
BookInit ==
    /\ RequestsInit
    /\ live = {}
    /\ defaults = {}
    /\ saved = 0
    /\ bookLock = Nothing

BookNext == \E r \in Requests : AskAddress(r) \/ Decide(r) \/ CommitAddress(r)

BookSpec == BookInit /\ [][BookNext]_bookVars

-----------------------------------------------------------------------------
(* Properties *)

\* Types; only the holder of the lock has decided, on the book as it still is.
BookInv ==
    /\ saved \in Nat
    /\ live \subseteq 1..saved
    /\ defaults \subseteq live
    /\ \A r \in Requests :
         /\ pc[r] \in {"idle", "asked", "decided"}
         /\ pc[r] = "decided" => bookLock = r

\* A book with addresses has exactly one default among them, and an empty book
\* none, whatever additions, promotions and removals cross each other
\* (repo.ts lockAddressBook, service.ts addAddress and removeAddress).
OneDefault ==
    /\ live # {} => \E a \in live : defaults = {a}
    /\ live = {} => defaults = {}
=============================================================================
